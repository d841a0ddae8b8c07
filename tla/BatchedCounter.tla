----------------------------- MODULE BatchedCounter ----------------------------
(***************************************************************************)
(* cpp/minimal: every GET is counted.  A request VM keeps its memory       *)
(* between requests ("ephemeral" false), counts in local_counter, and adds *)
(* that to the counter in storage once it has reached COMMIT_COUNT.  The   *)
(* storage functions are linked to the storage program and called without  *)
(* the queue of storage_call, so that VMs execute them side by side.       *)
(*                                                                         *)
(* A live update starts the next generation of the program: its storage    *)
(* gets the counter of the one before, its request VMs start anew, and     *)
(* requests still running finish in the old one.                           *)
(***************************************************************************)
EXTENDS Handlers, Naturals, FiniteSets

CONSTANTS
  Requests,     \* the GET requests; finite, which bounds the model
  CommitCount,  \* COMMIT_COUNT, 16 in the code
  MaxGen        \* bound: the live updates of a behaviour

ASSUME CounterAssumption ==
  /\ IsFiniteSet(Requests)
  /\ CommitCount \in Nat \ {0}
  /\ MaxGen \in Nat

VARIABLES
  serving,       \* the request each VM serves, or served last
  local_counter, \* of each VM
  counter,       \* in the storage of each generation
  gen,           \* the generation that takes new requests
  home,          \* the generation each VM belongs to
  answer,        \* the last number each VM answered with, 0 in a new one
  (* What the numbers stand for:                                           *)
  arrived,       \* every request so far
  pending,       \* the requests each local_counter has counted
  counted        \* the requests each storage counter has counted

vars == <<pc, serving, local_counter, counter, gen, home, answer,
          arrived, pending, counted>>

Generations == 0..MaxGen

TypeOK ==
  /\ pc \in [VMs -> {"waiting", "count", "commit", "clear", "read", "respond"}]
  /\ serving \in [VMs -> SUBSET Requests]
  /\ local_counter \in [VMs -> Nat]
  /\ counter \in [Generations -> Nat]
  /\ gen \in Generations
  /\ home \in [VMs -> Generations]
  /\ answer \in [VMs -> Nat]
  /\ arrived \in SUBSET Requests
  /\ pending \in [VMs -> SUBSET Requests]
  /\ counted \in [Generations -> SUBSET Requests]

Init ==
  /\ pc = [v \in VMs |-> "waiting"]
  /\ serving = [v \in VMs |-> {}]
  /\ local_counter = [v \in VMs |-> 0]
  /\ counter = [g \in Generations |-> 0]
  /\ gen = 0
  /\ home = [v \in VMs |-> 0]
  /\ answer = [v \in VMs |-> 0]
  /\ arrived = {}
  /\ pending = [v \in VMs |-> {}]
  /\ counted = [g \in Generations |-> {}]

Arrive(v, r) ==
  /\ r \notin arrived
  /\ Go(v, "waiting", "count")
  /\ serving' = [serving EXCEPT ![v] = {r}]
  /\ arrived' = arrived \cup {r}
  /\ UNCHANGED <<local_counter, counter, gen, home, answer, pending, counted>>

(* Variant: one request too many before a commit.                          *)
CountLate(v) ==
  /\ Go(v, "count", IF local_counter[v] + 1 > CommitCount THEN "commit" ELSE "read")
  /\ local_counter' = [local_counter EXCEPT ![v] = @ + 1]
  /\ pending' = [pending EXCEPT ![v] = @ \cup serving[v]]
  /\ UNCHANGED <<serving, counter, gen, home, answer, arrived, counted>>

(* local_counter ++ and the comparison with COMMIT_COUNT.                  *)
Count(v) ==
  /\ Go(v, "count", IF local_counter[v] + 1 >= CommitCount THEN "commit" ELSE "read")
  /\ local_counter' = [local_counter EXCEPT ![v] = @ + 1]
  /\ pending' = [pending EXCEPT ![v] = @ \cup serving[v]]
  /\ UNCHANGED <<serving, counter, gen, home, answer, arrived, counted>>

(* Variant: the addition is a plain store.                                 *)
CommitStores(v) ==
  /\ Go(v, "commit", "clear")
  /\ counter' = [counter EXCEPT ![home[v]] = local_counter[v]]
  /\ counted' = [counted EXCEPT ![home[v]] = @ \cup pending[v]]
  /\ pending' = [pending EXCEPT ![v] = {}]
  /\ UNCHANGED <<serving, local_counter, gen, home, answer, arrived>>

(* storage_add_counter: one atomic addition in the storage of the VM's own *)
(* generation.                                                             *)
Commit(v) ==
  /\ Go(v, "commit", "clear")
  /\ counter' = [counter EXCEPT ![home[v]] = @ + local_counter[v]]
  /\ counted' = [counted EXCEPT ![home[v]] = @ \cup pending[v]]
  /\ pending' = [pending EXCEPT ![v] = {}]
  /\ UNCHANGED <<serving, local_counter, gen, home, answer, arrived>>

(* Variant: local_counter keeps its value.                                 *)
ClearNothing(v) ==
  /\ Go(v, "clear", "read")
  /\ UNCHANGED <<serving, local_counter, counter, gen, home, answer, arrived, pending, counted>>

Clear(v) ==
  /\ Go(v, "clear", "read")
  /\ local_counter' = [local_counter EXCEPT ![v] = 0]
  /\ UNCHANGED <<serving, counter, gen, home, answer, arrived, pending, counted>>

(* storage_counter, and the sum that is answered.                          *)
Read(v) ==
  /\ Go(v, "read", "respond")
  /\ answer' = [answer EXCEPT ![v] = local_counter[v] + counter[home[v]]]
  /\ UNCHANGED <<serving, local_counter, counter, gen, home, arrived, pending, counted>>

(* The VMs S are replaced by VMs of generation g, with the memory main     *)
(* left.  What they had counted and not committed is gone.                 *)
Replace(S, g) ==
  /\ home' = [v \in VMs |-> IF v \in S THEN g ELSE home[v]]
  /\ local_counter' = [v \in VMs |-> IF v \in S THEN 0 ELSE local_counter[v]]
  /\ pending' = [v \in VMs |-> IF v \in S THEN {} ELSE pending[v]]
  /\ answer' = [v \in VMs |-> IF v \in S THEN 0 ELSE answer[v]]

(* The response concludes the request; a VM of a retired generation ends   *)
(* with it.                                                                *)
Respond(v) ==
  /\ Go(v, "respond", "waiting")
  /\ Replace(IF home[v] = gen THEN {} ELSE {v}, gen)
  /\ UNCHANGED <<serving, counter, gen, arrived, counted>>

(* The request is terminated and its VM reset.                             *)
Terminate(v) ==
  /\ pc[v] # "waiting"
  /\ pc' = [pc EXCEPT ![v] = "waiting"]
  /\ Replace({v}, gen)
  /\ UNCHANGED <<serving, counter, gen, arrived, counted>>

(* on_live_update returns the counter, on_resume_update has it copied into *)
(* the new program's counter; idle VMs are replaced at once.               *)
LiveUpdate ==
  /\ gen < MaxGen
  /\ gen' = gen + 1
  /\ counter' = [counter EXCEPT ![gen + 1] = counter[gen]]
  /\ counted' = [counted EXCEPT ![gen + 1] = counted[gen]]
  /\ Replace({v \in VMs : pc[v] = "waiting"}, gen + 1)
  /\ UNCHANGED <<pc, serving, arrived>>

Next ==
  \/ \E v \in VMs : \/ \E r \in Requests : Arrive(v, r)
                    \/ Count(v) \/ Commit(v) \/ Clear(v) \/ Read(v) \/ Respond(v)
                    \/ Terminate(v)
  \/ LiveUpdate

Spec == Init /\ [][Next]_vars

-----------------------------------------------------------------------------

(* The counter in storage is the number of distinct requests added to it:  *)
(* no addition is lost between VMs, none is made twice, and none of those  *)
(* requests is still counted in a local_counter of the same generation     *)
(* (storage_add_counter, and the reset of local_counter after it).         *)
ExactCount ==
  /\ \A g \in Generations : counter[g] = Cardinality(counted[g])
  /\ \A v \in VMs :
       /\ pc[v] # "clear" => local_counter[v] = Cardinality(pending[v])
       /\ \A g \in Generations : pending[v] \cap counted[g] = {}
  /\ \A v, w \in VMs : v # w => pending[v] \cap pending[w] = {}

(* An answer counts each request at most once and only requests that came: *)
(* commits and clears of the other VMs, terminated requests and updates    *)
(* never inflate it (on_get's local_counter + storage_counter()).          *)
NeverOverReports == \A v \in VMs : answer[v] <= Cardinality(arrived)

(* A VM holds back fewer than COMMIT_COUNT requests when it is idle, and   *)
(* that is all an update or a terminated request can lose with it.         *)
BoundedBacklog ==
  \A v \in VMs :
    /\ Cardinality(pending[v]) <= CommitCount
    /\ pc[v] # "commit" => Cardinality(pending[v]) < CommitCount

(* A request that reads its answer gets a greater number than the request  *)
(* its VM answered before, since the VM was last started or reset: every   *)
(* request adds one, the counter in storage never moves back, and neither  *)
(* moving a batch there nor another VM's batch loses any of it (on_get of  *)
(* minimal.cpp, lines 8 to 18).                                            *)
AnswersGrow ==
  [][\A v \in VMs : pc[v] # "respond" /\ pc'[v] = "respond" => answer'[v] > answer[v]]_vars

===============================================================================
