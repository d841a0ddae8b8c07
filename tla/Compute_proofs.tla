----------------------------- MODULE Compute_proofs ----------------------------
(***************************************************************************)
(* For any VMs and tasks: facts about the host, and about its queue, that  *)
(* the proofs about the programs on it use.                                *)
(***************************************************************************)
EXTENDS Compute, SequenceTheorems, TLAPS

(* The queue without its entry k: the entries before it, then those after. *)
LEMMA RemoveAtEntries ==
  ASSUME NEW S, NEW s \in Seq(S), NEW k \in 1..Len(s)
  PROVE  /\ RemoveAt(s, k) \in Seq(S)
         /\ Len(RemoveAt(s, k)) = Len(s) - 1
         /\ \A i \in 1..(Len(s) - 1) :
              RemoveAt(s, k)[i] = IF i < k THEN s[i] ELSE s[i + 1]
<1> DEFINE before == SubSeq(s, 1, k - 1)
           after  == SubSeq(s, k + 1, Len(s))
<1>1. /\ before \in Seq(S) /\ Len(before) = k - 1
      /\ \A i \in 1..(k - 1) : before[i] = s[i]
  BY SubSeqProperties
<1>2. /\ after \in Seq(S) /\ Len(after) = Len(s) - k
      /\ \A i \in 1..(Len(s) - k) : after[i] = s[k + i]
  BY SubSeqProperties
<1>3. RemoveAt(s, k) = before \o after
  BY DEF RemoveAt
<1> HIDE DEF before, after
<1>4. before \o after \in Seq(S) /\ Len(before \o after) = Len(s) - 1
  BY <1>1, <1>2
<1>5. ASSUME NEW i \in 1..(Len(s) - 1)
      PROVE  (before \o after)[i] = IF i < k THEN s[i] ELSE s[i + 1]
  <2>1. (before \o after)[i] = IF i <= Len(before) THEN before[i] ELSE after[i - Len(before)]
    BY <1>1, <1>2, ConcatProperties
  <2>2. CASE i < k
    <3>1. i <= Len(before) /\ before[i] = s[i]
      BY <2>2, <1>1
    <3> QED BY <2>1, <2>2, <3>1
  <2>3. CASE i >= k
    <3> DEFINE j == i - Len(before)
    <3>1. ~(i <= Len(before)) /\ ~(i < k) /\ j \in 1..(Len(s) - k) /\ k + j = i + 1
      BY <2>3, <1>1
    <3>2. after[j] = s[k + j]
      BY <1>2, <3>1
    <3>3. s[k + j] = s[i + 1]
      BY <3>1
    <3>4. (before \o after)[i] = after[j]
      BY <2>1, <3>1
    <3>5. (IF i < k THEN s[i] ELSE s[i + 1]) = s[i + 1]
      BY <3>1
    <3> HIDE DEF j
    <3>6. (before \o after)[i] = s[i + 1]
      BY <3>2, <3>3, <3>4, Zenon
    <3> QED BY <3>5, <3>6, Zenon
  <2>4. i < k \/ i >= k
    BY <1>1
  <2> QED BY <2>2, <2>3, <2>4, Zenon
<1> QED BY <1>3, <1>4, <1>5

(* A prefix, entry by entry.                                               *)
LEMMA PrefixEntries ==
  ASSUME NEW S, NEW s \in Seq(S), NEW t \in Seq(S)
  PROVE  IsPrefix(s, t)
           <=> Len(s) <= Len(t) /\ \A i \in 1..Len(s) : s[i] = t[i]
<1>1. CASE Len(s) <= Len(t)
  <2>1. /\ Len(SubSeq(s, 1, Len(s))) = Len(s) /\ Len(SubSeq(t, 1, Len(s))) = Len(s)
        /\ SubSeq(s, 1, Len(s)) \in Seq(S) /\ SubSeq(t, 1, Len(s)) \in Seq(S)
        /\ \A i \in 1..Len(s) : /\ SubSeq(s, 1, Len(s))[i] = s[i]
                                /\ SubSeq(t, 1, Len(s))[i] = t[i]
    BY <1>1
  <2>2. SubSeq(s, 1, Len(s)) = SubSeq(t, 1, Len(s))
          <=> \A i \in 1..Len(s) : s[i] = t[i]
    BY <2>1, SeqEqual
  <2> QED BY <1>1, <2>2 DEF IsPrefix
<1> QED BY <1>1 DEF IsPrefix

(* A step of the host keeps the types.                                     *)
LEMMA ComputeTypeStep == ComputeTypeOK /\ [ComputeStep]_computeVars => ComputeTypeOK'
<1> SUFFICES ASSUME ComputeTypeOK, [ComputeStep]_computeVars
             PROVE  ComputeTypeOK'
  OBVIOUS
<1> USE DEF ComputeTypeOK, Phases, Move
<1>1. ASSUME NEW v \in VMs, Receive(v)
      PROVE  ComputeTypeOK'
  BY <1>1 DEF Receive
<1>2. ASSUME NEW v \in VMs, CallStorage(v)
      PROVE  ComputeTypeOK'
  BY <1>2 DEF CallStorage, Agents
<1>3. ASSUME NEW v \in VMs, Respond(v) \/ RespondError(v)
      PROVE  ComputeTypeOK'
  BY <1>3 DEF Respond, RespondError
<1>4. ASSUME NEW v \in VMs, TimeOut(v)
      PROVE  ComputeTypeOK'
  <2>1. queue' \in Seq(Agents)
    BY <1>4, RemoveAtEntries DEF TimeOut
  <2> QED BY <1>4, <2>1 DEF TimeOut
<1>5. ASSUME NEW t \in Tasks, Schedule(t)
      PROVE  ComputeTypeOK'
  BY <1>5 DEF Schedule, Agents
<1>6. ASSUME NEW a \in Agents, EnterStorage(a)
      PROVE  ComputeTypeOK'
  BY <1>6 DEF EnterStorage
<1>7. ASSUME NEW a \in Agents, LeaveStorage(a)
      PROVE  ComputeTypeOK'
  BY <1>7 DEF LeaveStorage
<1>8. CASE UNCHANGED computeVars
  BY <1>8 DEF computeVars
<1> QED BY <1>1, <1>2, <1>3, <1>4, <1>5, <1>6, <1>7, <1>8 DEF ComputeStep

(* Every variable of the host keeps its type.                              *)
THEOREM ComputeTypeCorrect == ComputeSpec => []ComputeTypeOK
<1>1. ComputeInit => ComputeTypeOK
  BY DEF ComputeInit, ComputeTypeOK, Phases
<1> QED BY <1>1, ComputeTypeStep, PTL DEF ComputeSpec

-----------------------------------------------------------------------------

(* A step of the host keeps storage exclusive.                             *)
LEMMA ExclusiveStep ==
  ComputeTypeOK /\ ExclusiveStorage /\ [ComputeStep]_computeVars => ExclusiveStorage'
<1> USE ComputeAssumption
<1> SUFFICES ASSUME ComputeTypeOK, ExclusiveStorage, [ComputeStep]_computeVars
             PROVE  ExclusiveStorage'
  OBVIOUS
<1> USE DEF ComputeTypeOK, Move
<1>1. ASSUME NEW v \in VMs, Receive(v)
      PROVE  ExclusiveStorage'
  BY <1>1 DEF Receive, ExclusiveStorage, Queued
<1>2. ASSUME NEW v \in VMs, CallStorage(v)
      PROVE  ExclusiveStorage'
  BY <1>2 DEF CallStorage, ExclusiveStorage, Queued, Agents
<1>3. ASSUME NEW v \in VMs, Respond(v) \/ RespondError(v)
      PROVE  ExclusiveStorage'
  BY <1>3 DEF Respond, RespondError, ExclusiveStorage, Queued
<1>4. ASSUME NEW v \in VMs, TimeOut(v)
      PROVE  ExclusiveStorage'
  <2>1. CASE phase[v] = "handling"
    BY <1>4, <2>1 DEF TimeOut, ExclusiveStorage, Queued
  <2>2. CASE phase[v] = "queued"
    <3>1. PICK k \in 1..Len(queue) : queue[k] = v /\ queue' = RemoveAt(queue, k)
      BY <1>4, <2>2 DEF TimeOut
    <3>2. /\ Len(queue') = Len(queue) - 1
          /\ \A i \in 1..(Len(queue) - 1) :
               queue'[i] = IF i < k THEN queue[i] ELSE queue[i + 1]
      BY <3>1, RemoveAtEntries
    <3> DEFINE old(i) == IF i < k THEN i ELSE i + 1
               new(i) == IF i < k THEN i ELSE i - 1
    <3>a. \A i \in 1..Len(queue') :
            old(i) \in 1..Len(queue) /\ old(i) # k /\ queue'[i] = queue[old(i)]
      BY <3>2
    <3>b. \A i \in 1..Len(queue) :
            i # k => new(i) \in 1..Len(queue') /\ queue'[new(i)] = queue[i]
      BY <3>2
    <3>c. \A i \in 1..Len(queue) : queue[i] = v => i = k
      BY <3>1 DEF ExclusiveStorage
    <3>d. \A i, j \in 1..Len(queue') : old(i) = old(j) => i = j
      BY <3>2
    <3>3. \A a : Queued(a)' <=> Queued(a) /\ a # v
      <4> HIDE DEF old, new
      <4>1. ASSUME NEW a, Queued(a)'
            PROVE  Queued(a) /\ a # v
        BY <4>1, <3>a, <3>c DEF Queued
      <4>2. ASSUME NEW a, Queued(a), a # v
            PROVE  Queued(a)'
        BY <4>2, <3>b, <3>1 DEF Queued
      <4> QED BY <4>1, <4>2
    <3>4. \A i, j \in 1..Len(queue') : queue'[i] = queue'[j] => i = j
      <4> HIDE DEF old, new
      <4> QED BY <3>a, <3>d DEF ExclusiveStorage
    <3> HIDE DEF old, new
    <3> QED BY <1>4, <2>2, <3>3, <3>4 DEF TimeOut, ExclusiveStorage
  <2> QED BY <1>4, <2>1, <2>2 DEF TimeOut
<1>5. ASSUME NEW t \in Tasks, Schedule(t)
      PROVE  ExclusiveStorage'
  BY <1>5 DEF Schedule, ExclusiveStorage, Queued, Agents
<1>6. ASSUME NEW a \in Agents, EnterStorage(a)
      PROVE  ExclusiveStorage'
  <2>1. /\ Len(queue) >= 1 /\ queue[1] = a
        /\ Len(queue') = Len(queue) - 1
        /\ \A i \in 1..Len(queue') : queue'[i] = queue[i + 1]
    BY <1>6, HeadTailProperties DEF EnterStorage
  <2>2. \A i \in 1..Len(queue) : queue[i] = a => i = 1
    BY <2>1 DEF ExclusiveStorage
  <2>3. \A i \in 1..Len(queue) : i # 1 => i - 1 \in 1..Len(queue') /\ queue'[i - 1] = queue[i]
    BY <2>1
  <2>4. \A b : Queued(b)' <=> Queued(b) /\ b # a
    <3>1. ASSUME NEW b, Queued(b)'
          PROVE  Queued(b) /\ b # a
      BY <3>1, <2>1, <2>2 DEF Queued
    <3>2. ASSUME NEW b, Queued(b), b # a
          PROVE  Queued(b)'
      BY <3>2, <2>1, <2>3 DEF Queued
    <3> QED BY <3>1, <3>2
  <2>5. \A i, j \in 1..Len(queue') : queue'[i] = queue'[j] => i = j
    BY <2>1 DEF ExclusiveStorage
  <2> QED BY <1>6, <2>4, <2>5 DEF EnterStorage, ExclusiveStorage, Agents
<1>7. ASSUME NEW a \in Agents, LeaveStorage(a)
      PROVE  ExclusiveStorage'
  BY <1>7 DEF LeaveStorage, ExclusiveStorage, Queued, Agents
<1>8. CASE UNCHANGED computeVars
  BY <1>8 DEF computeVars, ExclusiveStorage, Queued
<1> QED BY <1>1, <1>2, <1>3, <1>4, <1>5, <1>6, <1>7, <1>8 DEF ComputeStep

(* ExclusiveStorage is inductive, so that the proofs about programs on this *)
(* host may use it.                                                        *)
LEMMA StorageIsExclusive == ComputeSpec => []ExclusiveStorage
<1> USE ComputeAssumption
<1>1. ComputeInit => ExclusiveStorage
  BY DEF ComputeInit, ExclusiveStorage, Queued
<1> QED BY <1>1, ExclusiveStep, ComputeTypeCorrect, PTL DEF ComputeSpec

(* Who is given storage has waited for it.                                 *)
LEMMA HeadIsQueued ==
  ASSUME ComputeTypeOK, ExclusiveStorage, NEW v \in VMs, EnterStorage(v)
  PROVE  phase[v] = "queued"
<1>1. /\ queue \in Seq(Agents) /\ queue # <<>> /\ v = Head(queue)
  BY DEF EnterStorage, ComputeTypeOK
<1>2. 1 \in 1..Len(queue) /\ queue[1] = v
  BY <1>1, HeadTailProperties
<1> QED BY <1>2 DEF ExclusiveStorage, Queued

===============================================================================
