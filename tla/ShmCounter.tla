------------------------------- MODULE ShmCounter ------------------------------
(***************************************************************************)
(* Shared memory (kvm_api.h) and the two programs that count requests in   *)
(* it.  main allocates the counter with internal_shm_alloc; the request    *)
(* VMs, copies of the program after main, all see the one counter and add  *)
(* to it without a lock.  c/counter.c answers with the counter read again  *)
(* after the addition, cpp/shared_counter with what the addition returned. *)
(***************************************************************************)
EXTENDS Handlers, Naturals, Sequences, FiniteSets

CONSTANTS
  CounterRequests,  \* finite, which bounds the model
  Areas,            \* the areas the host may provide: [ptr, end], both 0 if none
  Shapes,           \* what main may allocate: [size, align]
  MaxBlocks,        \* bound: the allocations of main
  Word,             \* counters wrap around at this number
  Shown             \* cpp/shared_counter shows this many numbers, 10000 in the code

ASSUME ShmAssumption ==
  /\ IsFiniteSet(CounterRequests)
  /\ Areas \subseteq [ptr : Nat, end : Nat]
  /\ \A a \in Areas : a.ptr <= a.end /\ (a.ptr = 0 => a.end = 0)
  /\ Shapes \subseteq [size : Nat \ {0}, align : Nat \ {0}]
  /\ \A s \in Shapes : \E k \in 0..s.align : s.align = 2^k
  /\ MaxBlocks \in Nat
  /\ Word \in Nat \ {0} /\ Shown \in Nat \ {0}

VARIABLES
  program,  \* "counter" or "shared_counter"
  area,     \* what shared_memory_area answers
  info,     \* the allocator's static info
  blocks,   \* the allocations so far, the last one is the counter
  running,  \* main has reached wait_for_requests
  cell,     \* the counter in shared memory
  serves,   \* the request each VM serves
  added,    \* how many additions were made
  ticket,   \* of each request: the number of its own addition, 0 if none
  answered  \* of each request: the number it was answered with

allocVars == <<info, blocks>>
countVars == <<cell, pc, serves, added, ticket, answered>>
shmVars == <<program, area, running, allocVars, countVars>>

NULL == 0
Unset == Word + Shown  \* no number a request can be answered with

Block == [p : Nat, size : Nat, align : Nat]

ShmTypeOK ==
  /\ program \in {"counter", "shared_counter"}
  /\ area \in Areas
  /\ info \in [ptr : Nat, end : Nat]
  /\ blocks \in Seq(Block)
  /\ running \in BOOLEAN
  /\ cell \in 0..(Word - 1)
  /\ pc \in [VMs -> {"waiting", "add", "read", "respond"}]
  /\ serves \in [VMs -> SUBSET CounterRequests]
  /\ added \in Nat
  /\ ticket \in [CounterRequests -> Nat]
  /\ answered \in [CounterRequests -> 0..(Word - 1) \cup {Unset}]

ShmInit ==
  /\ program \in {"counter", "shared_counter"}
  /\ area \in Areas
  /\ info = [ptr |-> 0, end |-> 0]
  /\ blocks = <<>>
  /\ running = FALSE
  /\ cell = 0
  /\ pc = [v \in VMs |-> "waiting"]
  /\ serves = [v \in VMs |-> {}]
  /\ added = 0
  /\ ticket = [r \in CounterRequests |-> 0]
  /\ answered = [r \in CounterRequests |-> Unset]

-----------------------------------------------------------------------------

(* The mask of internal_shm_alloc rounds up to a multiple of a power of    *)
(* two, which the alignment of a type is.  No address is near 2^64.        *)
AlignUp(n, align) == ((n + (align - 1)) \div align) * align

(* Variant: ptr does not count the bytes that alignment skips.             *)
AllocateUnpadded(s) ==
  LET from == IF info.ptr = 0 THEN area ELSE info
      p == AlignUp(from.ptr, s.align)
  IN  /\ ~running /\ Len(blocks) < MaxBlocks
      /\ info' = [from EXCEPT !.ptr = @ + s.size]
      /\ blocks' = Append(blocks, [p |-> IF p + s.size <= from.end THEN p ELSE NULL,
                                   size |-> s.size, align |-> s.align])
      /\ UNCHANGED <<program, area, running, countVars>>

(* internal_shm_alloc: the area is asked for while ptr is zero; ptr moves  *)
(* on whether or not the block fits.                                       *)
Allocate(s) ==
  LET from == IF info.ptr = 0 THEN area ELSE info
      p == AlignUp(from.ptr, s.align)
  IN  /\ ~running /\ Len(blocks) < MaxBlocks
      /\ info' = [from EXCEPT !.ptr = p + s.size]
      /\ blocks' = Append(blocks, [p |-> IF p + s.size <= from.end THEN p ELSE NULL,
                                   size |-> s.size, align |-> s.align])
      /\ UNCHANGED <<program, area, running, countVars>>

WaitForRequests ==
  /\ ~running /\ blocks # <<>>
  /\ running' = TRUE
  /\ UNCHANGED <<program, area, allocVars, countVars>>

-----------------------------------------------------------------------------

ShmArrive(v, r) ==
  /\ running
  /\ \A w \in VMs : r \notin serves[w]
  /\ answered[r] = Unset /\ ticket[r] = 0
  /\ Go(v, "waiting", "add")
  /\ serves' = [serves EXCEPT ![v] = {r}]
  /\ UNCHANGED <<program, area, running, allocVars, cell, added, ticket, answered>>

Set(f, v, value) == [r \in CounterRequests |-> IF r \in serves[v] THEN value ELSE f[r]]

(* Variants: a counter without end; neither program reads it again; both   *)
(* do.                                                                     *)
AddAs(v, to, cell2, answer2) ==
  /\ Go(v, "add", to)
  /\ blocks[Len(blocks)].p # NULL
  /\ cell' = cell2
  /\ added' = added + 1
  /\ ticket' = Set(ticket, v, added')
  /\ answered' = answer2
  /\ UNCHANGED <<program, area, running, allocVars, serves>>

AddUnbounded(v) ==
  IF program = "counter" THEN AddAs(v, "read", cell + 1, answered)
  ELSE AddAs(v, "respond", cell + 1, Set(answered, v, cell % Shown))

AddAndRead(v) == AddAs(v, "read", (cell + 1) % Word, answered)

AddOnly(v) == AddAs(v, "respond", (cell + 1) % Word, Set(answered, v, cell % Shown))

(* __sync_fetch_and_add.  Through a null pointer it ends the request.      *)
Add(v) ==
  /\ Go(v, "add", IF program = "counter" THEN "read" ELSE "respond")
  /\ blocks[Len(blocks)].p # NULL
  /\ cell' = (cell + 1) % Word
  /\ added' = added + 1
  /\ ticket' = Set(ticket, v, added')
  /\ answered' = IF program = "counter" THEN answered ELSE Set(answered, v, cell % Shown)
  /\ UNCHANGED <<program, area, running, allocVars, serves>>

(* c/counter.c reads *counter for its answer.                              *)
ReadAgain(v) ==
  /\ Go(v, "read", "respond")
  /\ answered' = Set(answered, v, cell)
  /\ UNCHANGED <<program, area, running, allocVars, cell, serves, added, ticket>>

ShmRespond(v) ==
  /\ Go(v, "respond", "waiting")
  /\ serves' = [serves EXCEPT ![v] = {}]
  /\ UNCHANGED <<program, area, running, allocVars, cell, added, ticket, answered>>

(* The request is terminated at any point; the addition stays.             *)
ShmTerminate(v) ==
  /\ pc[v] # "waiting"
  /\ pc' = [pc EXCEPT ![v] = "waiting"]
  /\ serves' = [serves EXCEPT ![v] = {}]
  /\ UNCHANGED <<program, area, running, allocVars, cell, added, ticket, answered>>

ShmNext ==
  \/ \E s \in Shapes : Allocate(s)
  \/ WaitForRequests
  \/ \E v \in VMs : \/ \E r \in CounterRequests : ShmArrive(v, r)
                    \/ Add(v) \/ ReadAgain(v) \/ ShmRespond(v) \/ ShmTerminate(v)

ShmSpec == ShmInit /\ [][ShmNext]_shmVars

-----------------------------------------------------------------------------

Bytes(b) == b.p .. (b.p + b.size - 1)

(* What was allocated lies in the area, is aligned and overlaps nothing    *)
(* allocated before, whatever was refused in between.  After one refusal   *)
(* everything is refused, also what would still fit (internal_shm_alloc).  *)
BlocksApart ==
  \A i, j \in 1..Len(blocks) :
    /\ blocks[i].p # NULL =>
         /\ blocks[i].p % blocks[i].align = 0
         /\ area.ptr <= blocks[i].p /\ blocks[i].p + blocks[i].size <= area.end
    /\ i < j /\ blocks[j].p # NULL =>
         /\ blocks[i].p # NULL
         /\ Bytes(blocks[i]) \cap Bytes(blocks[j]) = {}

(* c/counter.c's answer counts its own request and none that had not come  *)
(* when it was given: it lies between the request's own number and the     *)
(* number of additions.                                                    *)
CountsItself ==
  program = "counter" =>
    \A r \in CounterRequests :
      answered[r] # Unset /\ added < Word => ticket[r] <= answered[r] /\ answered[r] <= added

(* cpp/shared_counter, which answers with what its addition returned, does *)
(* not answer two requests alike, whoever adds before an answer is given   *)
(* and whichever requests are terminated, until it has shown every number  *)
(* once (c/counter.c may: it reads the counter again).                     *)
NumbersApart ==
  program = "shared_counter" /\ added <= Shown /\ added <= Word =>
    \A r, s \in CounterRequests :
      r # s /\ answered[r] # Unset /\ answered[s] # Unset => answered[r] # answered[s]

===============================================================================
