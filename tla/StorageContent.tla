----------------------------- MODULE StorageContent ----------------------------
(***************************************************************************)
(* c/storage.c: a POST replaces the content kept in storage, a GET answers *)
(* with it.  A periodic storage task fetches from the program itself, and  *)
(* a live update carries the content to the program that succeeds this one.*)
(*                                                                         *)
(* The module follows one program, first or successor of another, from its *)
(* start until the last request it took is over.  After an update requests *)
(* go to the successor; those already taken end here, in this storage.     *)
(*                                                                         *)
(* A content is a sequence of bytes, NUL and Other; the buffer `cont' is   *)
(* the allocation behind it, one byte longer when modify_content made it.  *)
(***************************************************************************)
EXTENDS Compute

CONSTANTS
  MaxLen,      \* bound: the longest body a POST carries
  MaxAlloc,    \* bound: how far strlen reads when no NUL comes before
  TestTask,    \* the task scheduled every 1.5 seconds
  UpdateTask,  \* a live update, which accesses storage like a task
  NoReply,
  NoHeir       \* there has been no update

ASSUME ContentAssumption ==
  /\ MaxLen \in Nat /\ MaxAlloc \in Nat
  /\ MaxLen < MaxAlloc /\ 3 <= MaxAlloc
  /\ {TestTask, UpdateTask} \subseteq Tasks
  /\ TestTask # UpdateTask
  /\ VMs \cap {"none", "sent", "done"} = {}

VARIABLES
  request,   \* the request each VM serves: its method and body (Get if none)
  reply,     \* what storage_call gave the handler, NoReply before it returns
  cont,      \* the bytes of the allocation `cont' points to
  cont_len,  \* how many of them are content
  fetch,     \* how far the task's fetch is: the VM that serves it, or
             \* "none", "sent" to no VM yet, "done"
  heir       \* what the successor has of the content

contentVars == <<request, reply, cont, cont_len, fetch, heir>>
vars == <<computeVars, contentVars>>

NUL == 0
Other == 1
Bytes == {NUL, Other}

BytesOfLength(n) == [1..n -> Bytes]
Bodies == UNION {BytesOfLength(n) : n \in 0..MaxLen}
Contents == UNION {BytesOfLength(n) : n \in 0..MaxAlloc}

Get == [method |-> "GET", body |-> <<>>]
Requests == {Get} \cup {[method |-> "POST", body |-> b] : b \in Bodies}

(* "Hello World!" and its terminator: two letters stand for the twelve.    *)
Hello == <<Other, Other, NUL>>

TypeOK ==
  /\ ComputeTypeOK
  /\ request \in [VMs -> Requests]
  /\ \A v \in VMs : reply[v] = NoReply \/ reply[v] \in Seq(Bytes)
  /\ DOMAIN reply = VMs
  /\ cont \in Contents
  /\ cont_len \in 0..Len(cont)
  /\ fetch \in {"none", "sent", "done"} \cup VMs
  /\ heir # NoHeir => /\ heir.cont \in Contents
                      /\ heir.cont_len \in 0..Len(heir.cont)

(* main: the first content is created, its length is not set.  In a        *)
(* successor on_resume_update has replaced it by what its predecessor      *)
(* handed over, and the length is not set either.                          *)
Init ==
  /\ ComputeInit
  /\ request = [v \in VMs |-> Get]
  /\ reply = [v \in VMs |-> NoReply]
  /\ cont \in {Hello} \cup Contents
  /\ cont_len = 0
  /\ fetch = "none"
  /\ heir = NoHeir

-----------------------------------------------------------------------------
(* Storage functions, each executed by the VM that holds storage.          *)

(* Variant: the new length is forgotten.                                   *)
ModifyContentOnly(v) ==
  /\ \E junk \in Bytes : cont' = Append(request[v].body, junk)
  /\ reply' = [reply EXCEPT ![v] = <<>>]
  /\ LeaveStorage(v)
  /\ UNCHANGED <<request, cont_len, fetch, heir>>

(* The new buffer has room for a terminator, but the zero is written one   *)
(* byte past it: the terminator's own byte keeps what malloc left there.   *)
ModifyContent(v) ==
  LET body == request[v].body IN
  /\ \E junk \in Bytes : cont' = Append(body, junk)
  /\ cont_len' = Len(body)
  /\ reply' = [reply EXCEPT ![v] = <<>>]
  /\ LeaveStorage(v)
  /\ UNCHANGED <<request, fetch, heir>>

GetContent(v) ==
  /\ reply' = [reply EXCEPT ![v] = SubSeq(cont, 1, cont_len)]
  /\ LeaveStorage(v)
  /\ UNCHANGED <<request, cont, cont_len, fetch, heir>>

(* Variant: modify_content does not return to its caller.                  *)
StorageFunctionHangs(v) ==
  /\ holder = v
  /\ request[v].method = "GET"
  /\ GetContent(v)

StorageFunction(v) ==
  /\ holder = v
  /\ IF request[v].method = "GET" THEN GetContent(v) ELSE ModifyContent(v)

-----------------------------------------------------------------------------
(* The request handlers: one storage call, then the response.              *)

TakeRequest(v, r) ==
  /\ heir = NoHeir
  /\ Receive(v)
  /\ request' = [request EXCEPT ![v] = r]
  /\ UNCHANGED <<reply, cont, cont_len, fetch, heir>>

Handler(v) ==
  /\ reply[v] = NoReply
  /\ CallStorage(v)
  /\ UNCHANGED contentVars

(* A request that ends also ends the fetch that waits for it.              *)
FetchReturns(v) ==
  fetch' = IF fetch = v THEN "done" ELSE fetch

Answer(v) ==
  /\ reply[v] # NoReply
  /\ Respond(v)
  /\ FetchReturns(v)
  /\ reply' = [reply EXCEPT ![v] = NoReply]
  /\ request' = [request EXCEPT ![v] = Get]
  /\ UNCHANGED <<cont, cont_len, heir>>

Expire(v) ==
  /\ TimeOut(v)
  /\ reply' = [reply EXCEPT ![v] = NoReply]
  /\ request' = [request EXCEPT ![v] = Get]
  /\ UNCHANGED <<cont, cont_len, fetch, heir>>

GenericError(v) ==
  /\ RespondError(v)
  /\ FetchReturns(v)
  /\ UNCHANGED <<request, reply, cont, cont_len, heir>>

-----------------------------------------------------------------------------
(* The periodic task `test' sends a GET to its own program and stays in    *)
(* storage until that ends.                                                *)

ScheduleTask(t) ==
  /\ t = UpdateTask => heir = NoHeir
  /\ Schedule(t)
  /\ UNCHANGED contentVars

Enter(a) == EnterStorage(a) /\ UNCHANGED contentVars

TestFetches ==
  /\ holder = TestTask
  /\ fetch = "none"
  /\ fetch' = "sent"
  /\ UNCHANGED <<computeVars, request, reply, cont, cont_len, heir>>

TakeFetch(v) ==
  /\ fetch = "sent" /\ heir = NoHeir
  /\ Receive(v)
  /\ fetch' = v
  /\ request' = [request EXCEPT ![v] = Get]
  /\ UNCHANGED <<reply, cont, cont_len, heir>>

(* The successor serves the fetch, or nobody does.                         *)
FetchElsewhere ==
  /\ fetch = "sent" /\ heir # NoHeir
  /\ fetch' = "done"
  /\ UNCHANGED <<computeVars, request, reply, cont, cont_len, heir>>

(* sys_fetch gives up, also on a request that a VM has taken: the VM goes  *)
(* on with it, and nobody waits for its answer.                            *)
FetchFails ==
  /\ fetch \in {"sent"} \cup VMs
  /\ fetch' = "done"
  /\ UNCHANGED <<computeVars, request, reply, cont, cont_len, heir>>

(* Variant: the task does not wait for its fetch.                          *)
TestReturnsEarly ==
  /\ fetch # "none"
  /\ LeaveStorage(TestTask)
  /\ UNCHANGED contentVars

TestReturns ==
  /\ fetch = "done"
  /\ LeaveStorage(TestTask)
  /\ fetch' = "none"
  /\ UNCHANGED <<request, reply, cont, cont_len, heir>>

-----------------------------------------------------------------------------
(* A live update: on_live_update in this program, main and then            *)
(* on_resume_update in its successor.                                      *)

(* What strlen takes for the string: it reads on past an allocation that   *)
(* holds no NUL, and may find one right behind it or further away.         *)
Strings(bytes) ==
  LET nuls == {i \in 1..Len(bytes) : bytes[i] = NUL}
  IN  IF nuls = {}
      THEN {bytes} \cup {b \in {Append(bytes, Other)} : Len(bytes) < MaxAlloc}
      ELSE {SubSeq(bytes, 1, i - 1) : i \in {j \in nuls : \A k \in nuls : j <= k}}

HandOver(string, len) ==
  /\ heir' = [cont |-> string, cont_len |-> len]
  /\ LeaveStorage(UpdateTask)
  /\ UNCHANGED <<request, reply, cont, cont_len, fetch>>

(* Variant: the successor takes over the length as well.                   *)
LiveUpdateKeepsLength ==
  \E string \in Strings(cont) : HandOver(string, cont_len)

(* The content is copied into an allocation of exactly its length, and     *)
(* cont_len stays what main left it.                                       *)
LiveUpdate ==
  \E string \in Strings(cont) : HandOver(string, 0)

-----------------------------------------------------------------------------

Next ==
  \/ \E v \in VMs : \/ \E r \in Requests : TakeRequest(v, r)
                    \/ TakeFetch(v)
                    \/ Handler(v)
                    \/ StorageFunction(v)
                    \/ Answer(v)
                    \/ Expire(v)
                    \/ GenericError(v)
  \/ \E t \in {TestTask, UpdateTask} : ScheduleTask(t)
  \/ \E a \in Agents : Enter(a)
  \/ TestFetches \/ FetchElsewhere \/ FetchFails \/ TestReturns
  \/ LiveUpdate

(* Guest code that can run does run; the host ends every request within    *)
(* max_request_time and leaves no request, the task's own included,        *)
(* waiting for a VM for ever.  Visitors, timers and failures of a fetch    *)
(* are not fair.                                                           *)
Fairness ==
  /\ \A v \in VMs : /\ WF_vars(Handler(v))
                    /\ WF_vars(StorageFunction(v))
                    /\ WF_vars(Answer(v))
                    /\ WF_vars(Expire(v))
                    /\ WF_vars(GenericError(v))
                    /\ SF_vars(TakeFetch(v))
  /\ WF_vars(\E a \in Agents : Enter(a))
  /\ WF_vars(TestFetches) /\ WF_vars(FetchElsewhere) /\ WF_vars(TestReturns)
  /\ WF_vars(LiveUpdate)

Spec == Init /\ [][Next]_vars

FairSpec == Spec /\ Fairness

-----------------------------------------------------------------------------

Served == SubSeq(cont, 1, cont_len)

(* Seen through its requests the program is a register: what a GET answers *)
(* with is the body of the last POST, whole, or nothing if this program    *)
(* has had none, however requests, timeouts, the task and an update        *)
(* interleave (get_content and modify_content).                            *)
Register == INSTANCE ContentRegister
              WITH Idle <- Get, Initial <- <<>>, value <- Served

ImplementsRegister == Register!Spec

(* The program's steps are steps the host allows.                          *)
RunsOnHost == ComputeSpec

(* Whoever enters storage leaves it, so that nobody is shut out for ever:  *)
(* the task's own fetch ends up in the queue behind the task, and only the *)
(* time limit of a queued request opens the circle (`test', on_get).       *)
StorageIsReleased == (holder # Nobody) ~> (holder = Nobody)

(* As long as the task waits for the request it sent to its own program,   *)
(* that request does not get at the content: the task keeps storage until  *)
(* the fetch is over or given up (`test').                                 *)
SelfFetchGetsNothing ==
  \A v \in VMs : fetch = v => reply[v] = NoReply

(* c/storage.c:61 "Remembering 'cont' across live program updates": what   *)
(* the successor serves is what was served before the update.              *)
RemembersContent ==
  [][heir' # heir => SubSeq(heir'.cont, 1, heir'.cont_len) = Served]_vars

===============================================================================
