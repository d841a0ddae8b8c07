---------------------------- MODULE Counters_proofs ----------------------------
(***************************************************************************)
(* Programs that count requests, for any number of VMs and requests: the   *)
(* counters in storage (BatchedCounter), those in shared memory            *)
(* (ShmCounter) and the map of the collector (Collector) lose nothing and  *)
(* count nothing twice.                                                    *)
(***************************************************************************)
EXTENDS BatchedCounter, ShmCounter, Collector, Integers, FiniteSetTheorems,
        SequenceTheorems, TLAPS

-----------------------------------------------------------------------------
(* BatchedCounter.                                                         *)

(* Every variable keeps its type (on_get, the storage functions, updates). *)
THEOREM TypeCorrect == Spec => []TypeOK
<1> USE CounterAssumption DEF TypeOK
<1>1. Init => TypeOK
  <2>1. ASSUME Init
        PROVE  /\ pc \in [VMs -> {"waiting", "count", "commit", "clear", "read", "respond"}]
               /\ serving \in [VMs -> SUBSET Requests]
               /\ pending \in [VMs -> SUBSET Requests]
               /\ counted \in [Generations -> SUBSET Requests]
               /\ arrived \in SUBSET Requests
    <3>1. {} \in SUBSET Requests
      OBVIOUS
    <3> QED BY <2>1, <3>1 DEF Init
  <2>2. ASSUME Init
        PROVE  /\ local_counter \in [VMs -> Nat] /\ answer \in [VMs -> Nat]
               /\ counter \in [Generations -> Nat] /\ gen \in Generations
               /\ home \in [VMs -> Generations]
    BY <2>2 DEF Init, Generations
  <2> QED BY <2>1, <2>2
<1>2. TypeOK /\ [Next]_vars => TypeOK'
  <2> SUFFICES ASSUME TypeOK, [Next]_vars
               PROVE  TypeOK'
    OBVIOUS
  <2> USE DEF Go
  <2>1. ASSUME NEW v \in VMs, NEW r \in Requests, Arrive(v, r)
        PROVE  TypeOK'
    <3>1. {r} \in SUBSET Requests /\ arrived \cup {r} \in SUBSET Requests
      OBVIOUS
    <3> QED BY <2>1, <3>1 DEF Arrive
  <2>2. ASSUME NEW v \in VMs, Count(v)
        PROVE  TypeOK'
    <3>1. pending[v] \cup serving[v] \in SUBSET Requests
      OBVIOUS
    <3> QED BY <2>2, <3>1 DEF Count
  <2>3. ASSUME NEW v \in VMs, Commit(v)
        PROVE  TypeOK'
    <3>1. counted[home[v]] \cup pending[v] \in SUBSET Requests /\ {} \in SUBSET Requests
      OBVIOUS
    <3>2. counter[home[v]] + local_counter[v] \in Nat
      OBVIOUS
    <3> QED BY <2>3, <3>1, <3>2 DEF Commit
  <2>4. ASSUME NEW v \in VMs, Clear(v) \/ Read(v)
        PROVE  TypeOK'
    BY <2>4 DEF Clear, Read
  <2>5. ASSUME NEW S \in SUBSET VMs, NEW g \in Generations, Replace(S, g)
        PROVE  /\ home' \in [VMs -> Generations] /\ local_counter' \in [VMs -> Nat]
               /\ pending' \in [VMs -> SUBSET Requests] /\ answer' \in [VMs -> Nat]
    <3>1. {} \in SUBSET Requests
      OBVIOUS
    <3> QED BY <2>5, <3>1 DEF Replace
  <2>6. ASSUME NEW v \in VMs, Respond(v) \/ Terminate(v)
        PROVE  TypeOK'
    BY <2>5, <2>6 DEF Respond, Terminate
  <2>7. CASE LiveUpdate
    <3>1. gen + 1 \in Generations
      BY <2>7 DEF LiveUpdate, Generations
    <3>2. \A S \in SUBSET VMs : Replace(S, gen + 1) =>
               /\ home' \in [VMs -> Generations] /\ local_counter' \in [VMs -> Nat]
               /\ pending' \in [VMs -> SUBSET Requests] /\ answer' \in [VMs -> Nat]
      BY <2>5, <3>1
    <3> QED BY <2>7, <3>1, <3>2 DEF LiveUpdate
  <2>8. CASE UNCHANGED vars
    BY <2>8 DEF vars
  <2> QED BY <2>1, <2>2, <2>3, <2>4, <2>6, <2>7, <2>8 DEF Next
<1> QED BY <1>1, <1>2, PTL DEF Spec

-----------------------------------------------------------------------------
(* The argument: a request is in at most one place, so that the numbers    *)
(* are cardinalities of disjoint sets of requests.                         *)

OnePlace ==
  /\ \A v \in VMs : serving[v] \subseteq arrived /\ pending[v] \subseteq arrived
  /\ \A g \in Generations : counted[g] \subseteq arrived
  /\ \A v, w \in VMs : v # w => pending[v] \cap pending[w] = {}
  /\ \A v \in VMs, g \in Generations : pending[v] \cap counted[g] = {}
  /\ \A v \in VMs : pc[v] = "clear" => pending[v] = {}
  /\ \A v \in VMs : pc[v] = "count" =>
       /\ \E r \in Requests : serving[v] = {r}
       /\ \A w \in VMs : serving[v] \cap pending[w] = {}
       /\ \A w \in VMs : w # v /\ pc[w] = "count" => serving[v] \cap serving[w] = {}
       /\ \A g \in Generations : serving[v] \cap counted[g] = {}

LEMMA RequestsInOnePlace == Spec => []OnePlace
<1> USE CounterAssumption
<1>1. Init => OnePlace
  BY DEF Init, OnePlace
<1>2. TypeOK /\ OnePlace /\ [Next]_vars => OnePlace'
  <2> SUFFICES ASSUME TypeOK, OnePlace, [Next]_vars
               PROVE  OnePlace'
    OBVIOUS
  <2> USE DEF TypeOK, OnePlace, Go
  <2>1. ASSUME NEW v \in VMs, NEW r \in Requests, Arrive(v, r)
        PROVE  OnePlace'
    BY <2>1 DEF Arrive
  <2>2. ASSUME NEW v \in VMs, Count(v)
        PROVE  OnePlace'
    BY <2>2 DEF Count
  <2>3. ASSUME NEW v \in VMs, Commit(v)
        PROVE  OnePlace'
    BY <2>3 DEF Commit
  <2>4. ASSUME NEW v \in VMs, Clear(v) \/ Read(v)
        PROVE  OnePlace'
    BY <2>4 DEF Clear, Read
  <2>5. ASSUME NEW v \in VMs, Respond(v) \/ Terminate(v)
        PROVE  OnePlace'
    <3>1. UNCHANGED <<serving, arrived, counted>>
      BY <2>5 DEF Respond, Terminate
    <3>2. \A w \in VMs : pc'[w] = pc[w] \/ pc'[w] = "waiting"
      BY <2>5 DEF Respond, Terminate
    <3>3. \A w \in VMs : pending'[w] = pending[w] \/ pending'[w] = {}
      BY <2>5 DEF Respond, Terminate, Replace
    <3>4. \A w \in VMs : serving'[w] \subseteq arrived' /\ pending'[w] \subseteq arrived'
      BY <3>1, <3>3
    <3>5. \A g \in Generations : counted'[g] \subseteq arrived'
      BY <3>1
    <3>6. \A u, w \in VMs : u # w => pending'[u] \cap pending'[w] = {}
      BY <3>3
    <3>7. \A w \in VMs, g \in Generations : pending'[w] \cap counted'[g] = {}
      BY <3>1, <3>3
    <3>8. \A w \in VMs : pc'[w] = "clear" => pending'[w] = {}
      BY <3>2, <3>3
    <3>9. ASSUME NEW w \in VMs, pc'[w] = "count"
          PROVE  /\ \E r \in Requests : serving'[w] = {r}
                 /\ \A u \in VMs : serving'[w] \cap pending'[u] = {}
                 /\ \A u \in VMs : u # w /\ pc'[u] = "count"
                                     => serving'[w] \cap serving'[u] = {}
                 /\ \A g \in Generations : serving'[w] \cap counted'[g] = {}
      <4>1. pc[w] = "count" /\ \A u \in VMs : pc'[u] = "count" => pc[u] = "count"
        BY <3>2, <3>9
      <4>2. serving' = serving /\ counted' = counted
        BY <3>1
      <4>3. \A u \in VMs : serving'[w] \cap pending'[u] = {}
        BY <4>1, <4>2, <3>3
      <4> QED BY <4>1, <4>2, <4>3
    <3> QED BY <3>4, <3>5, <3>6, <3>7, <3>8, <3>9
  <2>6. CASE LiveUpdate
    <3>1. gen \in Generations /\ gen + 1 \in Generations
      BY <2>6 DEF LiveUpdate, Generations
    <3> QED BY <2>6, <3>1 DEF LiveUpdate, Replace
  <2>7. CASE UNCHANGED vars
    BY <2>7 DEF vars
  <2> QED BY <2>1, <2>2, <2>3, <2>4, <2>5, <2>6, <2>7 DEF Next
<1> QED BY <1>1, <1>2, TypeCorrect, PTL DEF Spec

-----------------------------------------------------------------------------
(* The counters are the cardinalities of these sets.                       *)

LEMMA DisjointUnion ==
  ASSUME NEW S \in SUBSET Requests, NEW T \in SUBSET Requests, S \cap T = {}
  PROVE  /\ Cardinality(S) \in Nat
         /\ Cardinality(T) \in Nat
         /\ Cardinality(S \cup T) = Cardinality(S) + Cardinality(T)
<1>1. IsFiniteSet(S) /\ IsFiniteSet(T)
  BY CounterAssumption, FS_Subset
<1>2. Cardinality(S) \in Nat /\ Cardinality(T) \in Nat
  BY <1>1, FS_CardinalityType
<1>3. Cardinality(S \cup T) = Cardinality(S) + Cardinality(T) - Cardinality(S \cap T)
  BY <1>1, FS_Union
<1> QED BY <1>2, <1>3, FS_EmptySet

Tallies ==
  /\ \A g \in Generations : counter[g] = Cardinality(counted[g])
  /\ \A v \in VMs : pc[v] # "clear" => local_counter[v] = Cardinality(pending[v])

(* No request is lost between VMs or counted twice: every counter is the   *)
(* number of requests it stands for (ExactCount).                          *)
THEOREM CountIsExact == Spec => []ExactCount
<1> USE CounterAssumption
<1>1. Init => Tallies
  BY FS_EmptySet DEF Init, Tallies
<1>2. TypeOK /\ OnePlace /\ Tallies /\ [Next]_vars => Tallies'
  <2> SUFFICES ASSUME TypeOK, OnePlace, Tallies, [Next]_vars
               PROVE  Tallies'
    OBVIOUS
  <2> USE DEF TypeOK, Tallies, Go
  <2>1. ASSUME NEW v \in VMs, NEW r \in Requests, Arrive(v, r)
        PROVE  Tallies'
    BY <2>1 DEF Arrive
  <2>2. ASSUME NEW v \in VMs, Count(v)
        PROVE  Tallies'
    <3>1. PICK r \in Requests : serving[v] = {r} /\ r \notin pending[v]
      BY <2>2 DEF Count, OnePlace
    <3>2. Cardinality(pending[v] \cup serving[v]) = Cardinality(pending[v]) + 1
      BY <3>1, FS_AddElement, FS_Subset
    <3>3. local_counter'[v] = Cardinality(pending'[v])
      BY <2>2, <3>2 DEF Count
    <3>4. \A w \in VMs : w # v => /\ local_counter'[w] = local_counter[w]
                                  /\ pending'[w] = pending[w] /\ pc'[w] = pc[w]
      BY <2>2 DEF Count
    <3>5. UNCHANGED <<counter, counted>>
      BY <2>2 DEF Count
    <3> QED BY <3>3, <3>4, <3>5
  <2>3. ASSUME NEW v \in VMs, Commit(v)
        PROVE  Tallies'
    <3>1. Cardinality(counted[home[v]] \cup pending[v])
            = Cardinality(counted[home[v]]) + Cardinality(pending[v])
      BY DisjointUnion DEF OnePlace
    <3>2. counter'[home[v]] = Cardinality(counted'[home[v]])
      BY <2>3, <3>1 DEF Commit
    <3>3. \A g \in Generations : g # home[v] =>
            counter'[g] = counter[g] /\ counted'[g] = counted[g]
      BY <2>3 DEF Commit
    <3>4. \A w \in VMs : pc'[w] # "clear" =>
            w # v /\ pc[w] # "clear" /\ local_counter'[w] = local_counter[w]
              /\ pending'[w] = pending[w]
      BY <2>3 DEF Commit
    <3> QED BY <3>2, <3>3, <3>4
  <2>4. ASSUME NEW v \in VMs, Clear(v)
        PROVE  Tallies'
    <3>1. local_counter'[v] = 0 /\ pending'[v] = {}
      BY <2>4 DEF Clear, OnePlace
    <3> QED BY <2>4, <3>1, FS_EmptySet DEF Clear
  <2>5. ASSUME NEW v \in VMs, Read(v)
        PROVE  Tallies'
    BY <2>5 DEF Read
  <2>6. ASSUME NEW v \in VMs, Respond(v) \/ Terminate(v)
        PROVE  Tallies'
    <3>1. \A w \in VMs :
            \/ local_counter'[w] = 0 /\ pending'[w] = {}
            \/ /\ local_counter'[w] = local_counter[w] /\ pending'[w] = pending[w]
               /\ pc'[w] # "clear" => pc[w] # "clear"
      BY <2>6 DEF Respond, Terminate, Replace
    <3>2. UNCHANGED <<counter, counted>>
      BY <2>6 DEF Respond, Terminate
    <3> QED BY <3>1, <3>2, FS_EmptySet
  <2>7. CASE LiveUpdate
    <3>1. gen \in Generations /\ gen + 1 \in Generations
      BY <2>7 DEF LiveUpdate, Generations
    <3> QED BY <2>7, <3>1, FS_EmptySet DEF LiveUpdate, Replace
  <2>8. CASE UNCHANGED vars
    BY <2>8 DEF vars
  <2> QED BY <2>1, <2>2, <2>3, <2>4, <2>5, <2>6, <2>7, <2>8 DEF Next
<1>3. OnePlace /\ Tallies => ExactCount
  BY DEF OnePlace, Tallies, ExactCount
<1> QED BY <1>1, <1>2, <1>3, TypeCorrect, RequestsInOnePlace, PTL DEF Spec

(* An answer never exceeds the requests that arrived (NeverOverReports):   *)
(* what it adds up are disjoint sets of them.                              *)
THEOREM NoOverReporting == Spec => []NeverOverReports
<1> USE CounterAssumption
<1>0. TypeOK => Cardinality(arrived) \in Nat
  BY FS_Subset, FS_CardinalityType DEF TypeOK
<1>1. Init => NeverOverReports
  <2>1. Cardinality({}) = 0
    BY FS_EmptySet
  <2>2. ASSUME Init, NEW v \in VMs
        PROVE  answer[v] <= Cardinality(arrived)
    <3>1. answer[v] = 0 /\ Cardinality(arrived) = 0
      BY <2>1, <2>2 DEF Init
    <3> QED BY <3>1
  <2> QED BY <2>2 DEF NeverOverReports
<1>2. TypeOK /\ TypeOK' /\ OnePlace /\ ExactCount /\ NeverOverReports /\ [Next]_vars
        => NeverOverReports'
  <2> SUFFICES ASSUME TypeOK, TypeOK', OnePlace, ExactCount, NeverOverReports, [Next]_vars
               PROVE  NeverOverReports'
    OBVIOUS
  <2> USE DEF NeverOverReports, Go
  <2>1. ASSUME NEW v \in VMs, NEW r \in Requests, Arrive(v, r)
        PROVE  NeverOverReports'
    <3>1. Cardinality(arrived') = Cardinality(arrived) + 1
      BY <2>1, FS_AddElement, FS_Subset DEF Arrive, TypeOK
    <3> QED BY <2>1, <3>1, <1>0 DEF Arrive, TypeOK
  <2>2. ASSUME NEW v \in VMs, Count(v) \/ Commit(v) \/ Clear(v)
        PROVE  NeverOverReports'
    BY <2>2 DEF Count, Commit, Clear
  <2>3. ASSUME NEW v \in VMs, Read(v)
        PROVE  NeverOverReports'
    <3> DEFINE P == pending[v]
               C == counted[home[v]]
    <3>1. P \in SUBSET arrived /\ C \in SUBSET arrived /\ P \cap C = {}
      BY DEF OnePlace, TypeOK
    <3>2. Cardinality(P \cup C) = Cardinality(P) + Cardinality(C)
      BY <3>1, DisjointUnion DEF TypeOK
    <3>3. Cardinality(P \cup C) <= Cardinality(arrived)
      BY <3>1, FS_Subset DEF TypeOK
    <3>4. answer'[v] = Cardinality(P) + Cardinality(C)
      BY <2>3 DEF Read, ExactCount, TypeOK
    <3> HIDE DEF P, C
    <3>5. answer'[v] <= Cardinality(arrived)
      BY <3>2, <3>3, <3>4
    <3> QED BY <2>3, <3>5 DEF Read, TypeOK
  <2>4. ASSUME NEW v \in VMs, Respond(v) \/ Terminate(v)
        PROVE  NeverOverReports'
    BY <2>4, <1>0 DEF Respond, Terminate, Replace, TypeOK
  <2>5. CASE LiveUpdate
    BY <2>5, <1>0 DEF LiveUpdate, Replace, TypeOK
  <2>6. CASE UNCHANGED vars
    BY <2>6 DEF vars
  <2> QED BY <2>1, <2>2, <2>3, <2>4, <2>5, <2>6 DEF Next
<1> QED BY <1>1, <1>2, TypeCorrect, RequestsInOnePlace, CountIsExact, PTL DEF Spec

(* A VM holds back at most COMMIT_COUNT requests, and fewer than that      *)
(* except on the way to storage (BoundedBacklog; on_get's comparison).     *)
THEOREM BacklogIsBounded == Spec => []BoundedBacklog
<1> USE CounterAssumption
<1>1. Init => BoundedBacklog
  <2>1. Cardinality({}) = 0
    BY FS_EmptySet
  <2>2. ASSUME Init, NEW v \in VMs
        PROVE  Cardinality(pending[v]) <= CommitCount /\ Cardinality(pending[v]) < CommitCount
    <3>1. Cardinality(pending[v]) = 0
      BY <2>1, <2>2 DEF Init
    <3> QED BY <3>1
  <2> QED BY <2>2 DEF BoundedBacklog
<1>2. TypeOK /\ OnePlace /\ ExactCount /\ BoundedBacklog /\ [Next]_vars => BoundedBacklog'
  <2> SUFFICES ASSUME TypeOK, OnePlace, ExactCount, BoundedBacklog, [Next]_vars
               PROVE  BoundedBacklog'
    OBVIOUS
  <2>0. ASSUME \A w \in VMs : \/ pending'[w] = pending[w] /\ pc[w] # "commit"
                              \/ pending'[w] = pending[w] /\ pc'[w] = pc[w]
                              \/ pending'[w] = {}
        PROVE  BoundedBacklog'
    <3> SUFFICES ASSUME NEW w \in VMs
                 PROVE  /\ Cardinality(pending'[w]) <= CommitCount
                        /\ pc'[w] # "commit" => Cardinality(pending'[w]) < CommitCount
      BY DEF BoundedBacklog
    <3>1. CASE pending'[w] = {}
      BY <3>1, FS_EmptySet
    <3>2. CASE pending'[w] = pending[w]
      BY <2>0, <3>1, <3>2 DEF BoundedBacklog
    <3> QED BY <2>0, <3>1, <3>2
  <2> USE DEF BoundedBacklog, Go, TypeOK
  <2>1. ASSUME NEW v \in VMs, NEW r \in Requests, Arrive(v, r)
        PROVE  BoundedBacklog'
    BY <2>1 DEF Arrive
  <2>2. ASSUME NEW v \in VMs, Count(v)
        PROVE  BoundedBacklog'
    <3>1. PICK r \in Requests : serving[v] = {r} /\ r \notin pending[v]
      BY <2>2 DEF Count, OnePlace
    <3>2. /\ Cardinality(pending[v]) \in Nat
          /\ Cardinality(pending[v] \cup serving[v]) = Cardinality(pending[v]) + 1
      BY <3>1, FS_AddElement, FS_Subset, FS_CardinalityType
    <3>3. local_counter[v] = Cardinality(pending[v])
      BY <2>2 DEF Count, ExactCount
    <3>4. /\ pending'[v] = pending[v] \cup serving[v]
          /\ pc'[v] = IF local_counter[v] + 1 >= CommitCount THEN "commit" ELSE "read"
          /\ Cardinality(pending[v]) < CommitCount
      BY <2>2 DEF Count
    <3>5. /\ Cardinality(pending'[v]) <= CommitCount
          /\ pc'[v] # "commit" => Cardinality(pending'[v]) < CommitCount
      BY <3>2, <3>3, <3>4
    <3>6. \A w \in VMs : w # v => pending'[w] = pending[w] /\ pc'[w] = pc[w]
      BY <2>2 DEF Count
    <3> QED BY <3>5, <3>6
  <2>3. ASSUME NEW v \in VMs, Commit(v)
        PROVE  BoundedBacklog'
    BY <2>3, FS_EmptySet DEF Commit
  <2>4. ASSUME NEW v \in VMs, Clear(v) \/ Read(v)
        PROVE  BoundedBacklog'
    BY <2>4 DEF Clear, Read
  <2>5. ASSUME NEW v \in VMs, Respond(v) \/ Terminate(v)
        PROVE  BoundedBacklog'
    <3>1. \A w \in VMs : \/ pending'[w] = pending[w] /\ pc[w] # "commit"
                         \/ pending'[w] = pending[w] /\ pc'[w] = pc[w]
                         \/ pending'[w] = {}
      BY <2>5 DEF Respond, Terminate, Replace
    <3> QED BY <2>0, <3>1
  <2>6. CASE LiveUpdate
    <3>1. pc' = pc
      BY <2>6 DEF LiveUpdate
    <3>2. pending' = [v \in VMs |-> IF v \in {w \in VMs : pc[w] = "waiting"}
                                   THEN {} ELSE pending[v]]
      BY <2>6 DEF LiveUpdate, Replace
    <3>3. \A w \in VMs : pending'[w] = pending[w] \/ pending'[w] = {}
      BY <3>2, Zenon
    <3> QED BY <2>0, <3>1, <3>3
  <2>7. CASE UNCHANGED vars
    BY <2>7 DEF vars
  <2> QED BY <2>1, <2>2, <2>3, <2>4, <2>5, <2>6, <2>7 DEF Next
<1> QED BY <1>1, <1>2, TypeCorrect, RequestsInOnePlace, CountIsExact, PTL DEF Spec

-----------------------------------------------------------------------------

(* What a VM's next answer is at least: its own count, as far as it is not *)
(* committed, and the counter it reads.                                    *)
Total(v) == (IF pc[v] = "clear" THEN 0 ELSE local_counter[v]) + counter[home[v]]

AnswerBehindTotal ==
  /\ \A v \in VMs : home[v] <= gen
  /\ \A v \in VMs :
       /\ answer[v] <= Total(v)
       /\ pc[v] \in {"commit", "clear", "read"} => answer[v] < Total(v)

LEMMA AnswersAreBehindTotals == Spec => []AnswerBehindTotal
<1> USE CounterAssumption
<1>1. Init => AnswerBehindTotal
  BY DEF Init, AnswerBehindTotal, Total, Generations
<1>2. TypeOK /\ AnswerBehindTotal /\ [Next]_vars => AnswerBehindTotal'
  <2> SUFFICES ASSUME TypeOK, AnswerBehindTotal, [Next]_vars
               PROVE  AnswerBehindTotal'
    OBVIOUS
  <2> USE DEF TypeOK, AnswerBehindTotal, Go, Generations
  <2>1. ASSUME NEW v \in VMs, NEW r \in Requests, Arrive(v, r)
        PROVE  AnswerBehindTotal'
    BY <2>1 DEF Arrive, Total
  <2>2. ASSUME NEW v \in VMs, Count(v)
        PROVE  AnswerBehindTotal'
    BY <2>2 DEF Count, Total
  <2>3. ASSUME NEW v \in VMs, Commit(v)
        PROVE  AnswerBehindTotal'
    <3>1. /\ home' = home /\ gen' = gen /\ answer' = answer /\ local_counter' = local_counter
          /\ pc[v] = "commit" /\ pc'[v] = "clear"
          /\ \A w \in VMs \ {v} : pc'[w] = pc[w]
      BY <2>3 DEF Commit
    <3>2. /\ counter'[home[v]] = counter[home[v]] + local_counter[v]
          /\ \A w \in VMs : counter[home[w]] <= counter'[home[w]]
      BY <2>3 DEF Commit
    <3>3. Total(v)' = Total(v)
      BY <3>1, <3>2 DEF Total
    <3>4. ASSUME NEW w \in VMs
          PROVE  /\ counter[home[w]] \in Nat /\ counter'[home[w]] \in Nat
                 /\ counter[home[w]] <= counter'[home[w]]
                 /\ local_counter[w] \in Nat /\ answer[w] \in Nat
      BY <2>3, <3>2 DEF Commit
    <3> HIDE DEF TypeOK
    <3>5. ASSUME NEW w \in VMs \ {v}
          PROVE  /\ Total(w) \in Nat /\ Total(w)' \in Nat /\ Total(w) <= Total(w)'
                 /\ pc'[w] = pc[w] /\ answer'[w] = answer[w] /\ answer[w] \in Nat
      <4> DEFINE own == IF pc[w] = "clear" THEN 0 ELSE local_counter[w]
      <4>1. own \in Nat /\ Total(w) = own + counter[home[w]]
        BY <3>4 DEF Total
      <4>2. Total(w)' = own + counter'[home[w]]
        BY <3>1 DEF Total
      <4> HIDE DEF own
      <4> QED BY <3>1, <3>4, <4>1, <4>2
    <3>6. answer'[v] < Total(v)' /\ answer'[v] <= Total(v)'
      BY <3>1, <3>3
    <3>7. ASSUME NEW w \in VMs \ {v}
          PROVE  /\ answer'[w] <= Total(w)'
                 /\ pc'[w] \in {"commit", "clear", "read"} => answer'[w] < Total(w)'
      BY <3>5
    <3>8. \A w \in VMs : home'[w] <= gen'
      BY <3>1
    <3> QED BY <3>6, <3>7, <3>8
  <2>4. ASSUME NEW v \in VMs, Clear(v)
        PROVE  AnswerBehindTotal'
    BY <2>4 DEF Clear, Total
  <2>5. ASSUME NEW v \in VMs, Read(v)
        PROVE  AnswerBehindTotal'
    BY <2>5 DEF Read, Total
  <2>6. ASSUME NEW v \in VMs, Respond(v) \/ Terminate(v)
        PROVE  AnswerBehindTotal'
    <3>1. \A w \in VMs :
            \/ /\ home'[w] = gen /\ local_counter'[w] = 0 /\ answer'[w] = 0
               /\ pc'[w] = "waiting"
            \/ /\ home'[w] = home[w] /\ local_counter'[w] = local_counter[w]
               /\ answer'[w] = answer[w]
               /\ \/ pc'[w] = pc[w]
                  \/ pc[w] = "respond" /\ pc'[w] = "waiting"
      BY <2>6 DEF Respond, Terminate, Replace
    <3>2. UNCHANGED <<counter, gen>>
      BY <2>6 DEF Respond, Terminate
    <3>3. ASSUME NEW w \in VMs
          PROVE  /\ home'[w] <= gen'
                 /\ answer'[w] <= Total(w)'
                 /\ pc'[w] \in {"commit", "clear", "read"} => answer'[w] < Total(w)'
      <4>1. counter[gen] \in Nat /\ gen \in Nat
        OBVIOUS
      <4>2. CASE /\ home'[w] = gen /\ local_counter'[w] = 0 /\ answer'[w] = 0
                 /\ pc'[w] = "waiting"
        BY <4>1, <4>2, <3>2 DEF Total
      <4>3. CASE /\ home'[w] = home[w] /\ local_counter'[w] = local_counter[w]
                 /\ answer'[w] = answer[w]
                 /\ \/ pc'[w] = pc[w]
                    \/ pc[w] = "respond" /\ pc'[w] = "waiting"
        BY <4>3, <3>2 DEF Total
      <4> QED BY <3>1, <4>2, <4>3
    <3> QED BY <3>3
  <2>7. CASE LiveUpdate
    BY <2>7 DEF LiveUpdate, Replace, Total
  <2>8. CASE UNCHANGED vars
    BY <2>8 DEF vars, Total
  <2> QED BY <2>1, <2>2, <2>3, <2>4, <2>5, <2>6, <2>7, <2>8 DEF Next
<1> QED BY <1>1, <1>2, TypeCorrect, PTL DEF Spec

(* A VM's answers are strictly increasing between two resets of it         *)
(* (AnswersGrow): the commits and clears of any VM between two requests    *)
(* make no later answer equal to an earlier one, or smaller.               *)
THEOREM AnswersAlwaysGrow == Spec => AnswersGrow
<1>1. TypeOK /\ AnswerBehindTotal /\ [Next]_vars
        => [\A v \in VMs : pc[v] # "respond" /\ pc'[v] = "respond"
                             => answer'[v] > answer[v]]_vars
  <2> SUFFICES ASSUME TypeOK, AnswerBehindTotal, Next, NEW w \in VMs,
                      pc[w] # "respond", pc'[w] = "respond"
               PROVE  answer'[w] > answer[w]
    OBVIOUS
  <2> USE DEF TypeOK, Go
  <2>1. ASSUME NEW v \in VMs, Read(v)
        PROVE  answer'[w] > answer[w]
    BY <2>1 DEF Read, AnswerBehindTotal, Total
  <2>2. ASSUME NEW v \in VMs, \/ \E r \in Requests : Arrive(v, r)
                              \/ Count(v) \/ Commit(v) \/ Clear(v)
                              \/ Respond(v) \/ Terminate(v)
        PROVE  FALSE
    BY <2>2 DEF Arrive, Count, Commit, Clear, Respond, Terminate
  <2>3. CASE LiveUpdate
    BY <2>3 DEF LiveUpdate
  <2> QED BY <2>1, <2>2, <2>3 DEF Next
<1> QED BY <1>1, TypeCorrect, AnswersAreBehindTotals, PTL DEF Spec, AnswersGrow

-----------------------------------------------------------------------------
(* Division.                                                               *)

LEMMA Quotient ==
  ASSUME NEW a \in Nat, NEW m \in Nat \ {0}
  PROVE  /\ a = m * (a \div m) + (a % m)
         /\ a % m \in 0..(m - 1) /\ a \div m \in Nat
OBVIOUS

LEMMA Smaller ==
  ASSUME NEW a \in Nat, NEW m \in Nat \ {0}
  PROVE  a % m <= a
OBVIOUS

LEMMA Unique ==
  ASSUME NEW m \in Nat \ {0}, NEW q \in Int, NEW r \in 0..(m - 1)
  PROVE  (m * q + r) % m = r
OBVIOUS

LEMMA Multiple ==
  ASSUME NEW m \in Nat \ {0}, NEW q \in Int
  PROVE  (q * m) % m = 0
OBVIOUS

LEMMA Small ==
  ASSUME NEW a \in Nat, NEW m \in Nat \ {0}, a < m
  PROVE  a % m = a
OBVIOUS

LEMMA OneMore ==
  ASSUME NEW a \in Nat, NEW m \in Nat \ {0}
  PROVE  ((a % m) + 1) % m = (a + 1) % m
<1> DEFINE q == a \div m
           r == a % m
<1>1. a = m * q + r /\ r \in 0..(m - 1) /\ q \in Nat
  BY Quotient
<1>2. CASE r + 1 < m
  <2>1. r + 1 \in 0..(m - 1) /\ a + 1 = m * q + (r + 1)
    BY <1>1, <1>2
  <2>2. (m * q + (r + 1)) % m = r + 1
    BY <1>1, <2>1, Unique
  <2>3. (r + 1) % m = r + 1
    BY <2>1, Small
  <2> QED BY <2>1, <2>2, <2>3
<1>3. CASE r + 1 = m
  <2>1. a + 1 = (q + 1) * m /\ q + 1 \in Int
    BY <1>1, <1>3
  <2>2. ((q + 1) * m) % m = 0
    BY <2>1, Multiple
  <2>3. (r + 1) % m = 0
    BY <1>3
  <2> QED BY <2>1, <2>2, <2>3
<1> QED BY <1>1, <1>2, <1>3

-----------------------------------------------------------------------------
(* ShmCounter.  The argument for the allocator: it only moves on.  For the *)
(* counter: requests between an addition and the reading do no harm, since *)
(* the counter only grows until it wraps around.                           *)

(* Rounding up (the address of an allocation).                             *)
LEMMA Aligned ==
  ASSUME NEW n \in Nat, NEW align \in Nat \ {0}
  PROVE  /\ AlignUp(n, align) \in Nat /\ n <= AlignUp(n, align)
         /\ AlignUp(n, align) % align = 0
<1> DEFINE q == (n + (align - 1)) \div align
<1>1. q \in Nat /\ q * align >= n
  OBVIOUS
<1>2. q * align \in Nat
  BY <1>1
<1>3. (q * align) % align = 0
  BY <1>1, Multiple
<1> QED BY <1>1, <1>2, <1>3 DEF AlignUp

LEMMA SetIsFunction ==
  ASSUME NEW S, NEW f \in [CounterRequests -> S], NEW v, NEW value \in S
  PROVE  Set(f, v, value) \in [CounterRequests -> S]
BY DEF Set

(* Every variable of the allocator and the counters keeps its type; the    *)
(* counter stays within its width (internal_shm_alloc, on_get).            *)
THEOREM ShmTypeCorrect == ShmSpec => []ShmTypeOK
<1> DEFINE Numbers == 0..(Word - 1) \cup {Unset}
<1>1. ShmInit => ShmTypeOK
  <2> SUFFICES ASSUME ShmInit PROVE ShmTypeOK
    OBVIOUS
  <2>1. {} \in SUBSET CounterRequests /\ <<>> \in Seq(Block)
    OBVIOUS
  <2>2. Unset \in Numbers /\ 0 \in 0..(Word - 1)
    BY ShmAssumption
  <2>3. /\ pc \in [VMs -> {"waiting", "add", "read", "respond"}]
        /\ serves \in [VMs -> SUBSET CounterRequests] /\ ticket \in [CounterRequests -> Nat]
    BY <2>1 DEF ShmInit
  <2>4. answered \in [CounterRequests -> Numbers]
    BY <2>2 DEF ShmInit
  <2> QED BY <2>1, <2>2, <2>3, <2>4 DEF ShmInit, ShmTypeOK
<1>2. ShmTypeOK /\ [ShmNext]_shmVars => ShmTypeOK'
  <2> SUFFICES ASSUME ShmTypeOK, [ShmNext]_shmVars
               PROVE  ShmTypeOK'
    OBVIOUS
  <2> USE DEF ShmTypeOK
  <2>1. ASSUME NEW s \in Shapes, Allocate(s)
        PROVE  ShmTypeOK'
    <3> DEFINE from == IF info.ptr = 0 THEN area ELSE info
               p == AlignUp(from.ptr, s.align)
               b == [p |-> IF p + s.size <= from.end THEN p ELSE NULL,
                     size |-> s.size, align |-> s.align]
    <3>1. from \in [ptr : Nat, end : Nat] /\ s.size \in Nat /\ s.align \in Nat \ {0}
      BY ShmAssumption
    <3>2. p \in Nat
      BY <3>1, Aligned
    <3>3. b \in Block
      BY <3>1, <3>2 DEF Block, NULL
    <3>4. info' = [from EXCEPT !.ptr = p + s.size] /\ blocks' = Append(blocks, b)
      BY <2>1 DEF Allocate
    <3>5. info' \in [ptr : Nat, end : Nat]
      <4>1. p + s.size \in Nat
        BY <3>1, <3>2
      <4> HIDE DEF from, p
      <4> QED BY <3>1, <3>4, <4>1
    <3>6. blocks' \in Seq(Block)
      BY <3>3, <3>4
    <3> QED BY <2>1, <3>5, <3>6 DEF Allocate, countVars
  <2>2. CASE WaitForRequests
    BY <2>2 DEF WaitForRequests, allocVars, countVars
  <2>3. ASSUME NEW v \in VMs, NEW r \in CounterRequests, ShmArrive(v, r)
        PROVE  ShmTypeOK'
    <3>1. {r} \in SUBSET CounterRequests
      OBVIOUS
    <3> QED BY <2>3, <3>1 DEF ShmArrive, Go, allocVars
  <2>4. ASSUME NEW v \in VMs, Add(v)
        PROVE  ShmTypeOK'
    <3>1. cell' \in 0..(Word - 1) /\ added' \in Nat
      BY <2>4, Quotient, ShmAssumption DEF Add
    <3>2. ticket' \in [CounterRequests -> Nat]
      BY <2>4, <3>1, SetIsFunction DEF Add
    <3>3. cell % Shown \in Numbers
      <4>1. cell \in Nat /\ cell <= Word - 1 /\ Word \in Nat /\ Shown \in Nat \ {0}
        BY ShmAssumption
      <4>2. cell % Shown \in Nat
        BY ONLY <4>1, Quotient
      <4>3. cell % Shown <= cell
        BY <4>1, Smaller
      <4> QED BY <4>1, <4>2, <4>3
    <3>4. answered' \in [CounterRequests -> Numbers]
      BY <2>4, <3>3, SetIsFunction DEF Add
    <3> QED BY <2>4, <3>1, <3>2, <3>4 DEF Add, Go, allocVars
  <2>5. ASSUME NEW v \in VMs, ReadAgain(v)
        PROVE  ShmTypeOK'
    <3>1. answered' \in [CounterRequests -> Numbers]
      BY <2>5, SetIsFunction DEF ReadAgain
    <3> QED BY <2>5, <3>1 DEF ReadAgain, Go, allocVars
  <2>6. ASSUME NEW v \in VMs, ShmRespond(v) \/ ShmTerminate(v)
        PROVE  ShmTypeOK'
    <3>1. {} \in SUBSET CounterRequests
      OBVIOUS
    <3> QED BY <2>6, <3>1 DEF ShmRespond, ShmTerminate, Go, allocVars
  <2>7. CASE UNCHANGED shmVars
    BY <2>7 DEF shmVars, allocVars, countVars
  <2> QED BY <2>1, <2>2, <2>3, <2>4, <2>5, <2>6, <2>7 DEF ShmNext
<1> QED BY <1>1, <1>2, PTL DEF ShmSpec

(* The counter is the number of additions up to its width, while terminated *)
(* requests take none back (__sync_fetch_and_add).                          *)
CellCounts == cell = added % Word

LEMMA CellAlwaysCounts == ShmSpec => []CellCounts
<1> USE DEF CellCounts
<1>1. ShmInit => CellCounts
  BY Small, ShmAssumption DEF ShmInit
<1>2. ShmTypeOK /\ CellCounts /\ [ShmNext]_shmVars => CellCounts'
  <2> SUFFICES ASSUME ShmTypeOK, CellCounts, [ShmNext]_shmVars
               PROVE  CellCounts'
    OBVIOUS
  <2>1. ASSUME NEW v \in VMs, Add(v)
        PROVE  CellCounts'
    <3>1. added \in Nat /\ Word \in Nat \ {0}
      BY ShmAssumption DEF ShmTypeOK
    <3>2. cell' = ((added % Word) + 1) % Word /\ added' = added + 1
      BY <2>1 DEF Add
    <3> QED BY <3>1, <3>2, OneMore
  <2>2. CASE UNCHANGED <<cell, added>>
    BY <2>2
  <2>3. ASSUME NEW s \in Shapes, Allocate(s)
        PROVE  UNCHANGED <<cell, added>>
    BY <2>3 DEF Allocate, countVars
  <2> QED BY <2>1, <2>2, <2>3
          DEF ShmNext, WaitForRequests, ShmArrive, ReadAgain, ShmRespond,
              ShmTerminate, shmVars, countVars
<1>3. ShmSpec => []ShmTypeOK
  BY ShmTypeCorrect
<1> QED BY <1>1, <1>2, <1>3, PTL DEF ShmSpec

(* The number of a request is no larger than the counter, and a request    *)
(* that is yet to add, which one VM serves, has no answer.                 *)
CountInv ==
  /\ CountsItself
  /\ \A r \in CounterRequests : ticket[r] <= added
  /\ \A v, w \in VMs : v # w => serves[v] \cap serves[w] = {}
  /\ program = "counter" =>
       \A v \in VMs : pc[v] = "add" => \A r \in serves[v] : answered[r] = Unset

LEMMA CountStep ==
  ASSUME ShmTypeOK, CellCounts, CountInv, [ShmNext]_shmVars
  PROVE  CountInv'
<1> USE DEF CountInv, CountsItself
<1>0. /\ added \in Nat /\ Word \in Nat \ {0} /\ cell \in 0..(Word - 1)
      /\ ticket \in [CounterRequests -> Nat] /\ DOMAIN answered = CounterRequests
      /\ pc \in [VMs -> {"waiting", "add", "read", "respond"}]
      /\ serves \in [VMs -> SUBSET CounterRequests]
      /\ Unset \notin 0..(Word - 1)
  BY ShmAssumption DEF ShmTypeOK, Unset
<1>a. \A r \in CounterRequests : answered[r] # Unset => answered[r] \in Nat
  BY DEF ShmTypeOK
<1>1. ASSUME UNCHANGED countVars, UNCHANGED program
      PROVE  CountInv'
  BY <1>1 DEF countVars, Unset
<1>2. ASSUME NEW v \in VMs, NEW q \in CounterRequests, ShmArrive(v, q)
      PROVE  CountInv'
  <2>1. /\ UNCHANGED <<program, added, ticket, answered>> /\ answered[q] = Unset
        /\ \A w \in VMs : q \notin serves[w]
    BY <1>2 DEF ShmArrive
  <2>2. /\ \A w \in VMs : serves'[w] = IF w = v THEN {q} ELSE serves[w]
        /\ \A w \in VMs : w # v => pc'[w] = pc[w]
    BY <1>0, <1>2 DEF ShmArrive, Go
  <2>3. \A u, w \in VMs : u # w => serves'[u] \cap serves'[w] = {}
    BY <2>1, <2>2
  <2>4. \A w \in VMs : pc'[w] = "add" /\ program = "counter"
                         => \A r \in serves'[w] : answered[r] = Unset
    BY <2>1, <2>2
  <2> QED BY <2>1, <2>3, <2>4 DEF Unset
<1>3. ASSUME NEW v \in VMs, Add(v)
      PROVE  CountInv'
  <2>1. /\ added' = added + 1 /\ UNCHANGED <<program, serves>>
        /\ \A r \in CounterRequests : ticket'[r] = IF r \in serves[v] THEN added + 1 ELSE ticket[r]
    BY <1>3 DEF Add, Set
  <2>2. \A r \in CounterRequests : ticket'[r] <= added'
    BY <1>0, <2>1
  <2>3. ASSUME program = "counter"
        PROVE  /\ answered' = answered /\ pc[v] = "add"
               /\ \A w \in VMs : pc'[w] = "add" => pc[w] = "add"
    BY <1>0, <1>3, <2>3 DEF Add, Go
  <2>4. ASSUME program = "counter", NEW r \in CounterRequests,
               answered'[r] # Unset, added' < Word
        PROVE  ticket'[r] <= answered'[r] /\ answered'[r] <= added'
    <3>1. r \notin serves[v] /\ answered'[r] = answered[r] /\ ticket'[r] = ticket[r]
      BY <2>1, <2>3, <2>4
    <3>2. ticket[r] <= answered[r] /\ answered[r] <= added /\ answered[r] \in Nat
      BY <1>0, <1>a, <2>1, <2>4, <3>1
    <3> QED BY <1>0, <2>1, <3>1, <3>2
  <2>5. program = "counter" =>
          \A w \in VMs : pc'[w] = "add" => \A r \in serves'[w] : answered'[r] = Unset
    BY <2>1, <2>3
  <2> QED BY <2>1, <2>2, <2>4, <2>5 DEF Unset
<1>4. ASSUME NEW v \in VMs, ReadAgain(v)
      PROVE  CountInv'
  <2>1. /\ UNCHANGED <<program, serves, added, ticket>> /\ pc[v] = "read"
        /\ \A r \in CounterRequests : answered'[r] = IF r \in serves[v] THEN cell ELSE answered[r]
        /\ \A w \in VMs : pc'[w] = "add" => pc[w] = "add" /\ w # v
    BY <1>0, <1>4 DEF ReadAgain, Go, Set
  <2>2. added < Word => cell = added
    BY <1>0, Small DEF CellCounts
  <2>3. ASSUME program = "counter", NEW r \in CounterRequests,
               answered'[r] # Unset, added < Word
        PROVE  ticket[r] <= answered'[r] /\ answered'[r] <= added
    <3>1. CASE r \in serves[v]
      BY <1>0, <2>1, <2>2, <2>3, <3>1
    <3>2. CASE r \notin serves[v]
      BY <2>1, <2>3, <3>2
    <3> QED BY <3>1, <3>2
  <2>4. ASSUME program = "counter", NEW w \in VMs, pc'[w] = "add", NEW r \in serves[w]
        PROVE  answered'[r] = Unset
    <3>1. r \in CounterRequests /\ r \notin serves[v] /\ answered[r] = Unset
      BY <1>0, <2>1, <2>4
    <3> QED BY <2>1, <3>1
  <2> QED BY <2>1, <2>3, <2>4 DEF Unset
<1>5. ASSUME NEW v \in VMs, ShmRespond(v) \/ ShmTerminate(v)
      PROVE  CountInv'
  <2>1. /\ UNCHANGED <<program, added, ticket, answered>>
        /\ \A w \in VMs : serves'[w] = IF w = v THEN {} ELSE serves[w]
        /\ \A w \in VMs : pc'[w] = "add" => pc[w] = "add"
    BY <1>0, <1>5 DEF ShmRespond, ShmTerminate, Go
  <2>2. \A u, w \in VMs : u # w => serves'[u] \cap serves'[w] = {}
    BY <2>1
  <2>3. \A w \in VMs : pc'[w] = "add" /\ program = "counter"
                         => \A r \in serves'[w] : answered[r] = Unset
    BY <2>1
  <2> QED BY <2>1, <2>2, <2>3 DEF Unset
<1>6. ASSUME NEW s \in Shapes, Allocate(s)
      PROVE  UNCHANGED countVars /\ UNCHANGED program
  BY <1>6 DEF Allocate
<1> QED BY <1>1, <1>2, <1>3, <1>4, <1>5, <1>6 DEF ShmNext, WaitForRequests, shmVars

(* While the counter has not wrapped around, an answer of c/counter.c lies *)
(* between the number of its own request and the number of additions,      *)
(* whoever adds between the addition and the reading (on_get).             *)
THEOREM AnswersCountThemselves == ShmSpec => []CountsItself
<1>1. ShmInit => CountInv
  <2>1. \A r \in CounterRequests : 0 <= 0
    OBVIOUS
  <2> QED BY DEF ShmInit, CountInv, CountsItself
<1>2. ShmTypeOK /\ CellCounts /\ CountInv /\ [ShmNext]_shmVars => CountInv'
  BY CountStep
<1>3. CountInv => CountsItself
  BY DEF CountInv
<1>4. ShmSpec => []ShmTypeOK /\ []CellCounts
  BY ShmTypeCorrect, CellAlwaysCounts
<1> QED BY <1>1, <1>2, <1>3, <1>4, PTL DEF ShmSpec

(* A request of cpp/shared_counter has an answer only with a number of its *)
(* own, and while no number has come round, the answer is that number less *)
(* one.                                                                    *)
NumberInv ==
  /\ \A r \in CounterRequests : ticket[r] <= added
  /\ \A r, s \in CounterRequests : r # s /\ ticket[r] = ticket[s] => ticket[r] = 0
  /\ \A v \in VMs : \A r, s \in serves[v] : r = s
  /\ program = "shared_counter" =>
       /\ \A v \in VMs : pc[v] # "read"
       /\ \A r \in CounterRequests : answered[r] # Unset => ticket[r] # 0
       /\ added <= Shown /\ added <= Word =>
            \A r \in CounterRequests : answered[r] # Unset => answered[r] = ticket[r] - 1

LEMMA NumberStep ==
  ASSUME ShmTypeOK, CellCounts, NumberInv, [ShmNext]_shmVars
  PROVE  NumberInv'
<1> USE DEF NumberInv
<1>0. /\ added \in Nat /\ Word \in Nat \ {0} /\ Shown \in Nat \ {0} /\ cell \in 0..(Word - 1)
      /\ ticket \in [CounterRequests -> Nat]
      /\ pc \in [VMs -> {"waiting", "add", "read", "respond"}]
      /\ serves \in [VMs -> SUBSET CounterRequests]
  BY ShmAssumption DEF ShmTypeOK
<1>1. ASSUME UNCHANGED countVars, UNCHANGED program
      PROVE  NumberInv'
  BY <1>1 DEF countVars, Unset
<1>2. ASSUME NEW v \in VMs, UNCHANGED <<program, added, ticket, answered>>,
             \A w \in VMs : serves'[w] = serves[w] \/ \A r, s \in serves'[w] : r = s,
             \A w \in VMs : pc'[w] = "read" => pc[w] = "read"
      PROVE  NumberInv'
  BY <1>2 DEF Unset
<1>3. ASSUME NEW v \in VMs, Add(v)
      PROVE  NumberInv'
  <2>1. /\ added' = added + 1 /\ UNCHANGED <<program, serves>>
        /\ \A r \in CounterRequests : ticket'[r] = IF r \in serves[v] THEN added + 1 ELSE ticket[r]
    BY <1>3 DEF Add, Set
  <2>2. \A r \in CounterRequests : ticket'[r] <= added'
    BY <1>0, <2>1
  <2>3. ASSUME NEW r \in CounterRequests, NEW s \in CounterRequests,
               r # s, ticket'[r] = ticket'[s]
        PROVE  ticket'[r] = 0
    <3>1. ~(r \in serves[v] /\ s \in serves[v])
      BY <2>3
    <3>2. ticket[r] <= added /\ ticket[s] <= added /\ ticket[r] \in Nat /\ ticket[s] \in Nat
      BY <1>0
    <3> QED BY <1>0, <2>1, <2>3, <3>1, <3>2
  <2>4. ASSUME program = "shared_counter"
        PROVE  /\ \A w \in VMs : pc'[w] # "read"
               /\ \A r \in CounterRequests :
                    answered'[r] = IF r \in serves[v] THEN cell % Shown ELSE answered[r]
    BY <1>0, <1>3, <2>4 DEF Add, Go, Set
  <2>5. ASSUME program = "shared_counter", NEW r \in CounterRequests, answered'[r] # Unset
        PROVE  /\ ticket'[r] # 0
               /\ added' <= Shown /\ added' <= Word => answered'[r] = ticket'[r] - 1
    <3>1. CASE r \in serves[v]
      <4>1. ticket'[r] = added + 1 /\ answered'[r] = cell % Shown
        BY <2>1, <2>4, <2>5, <3>1
      <4>2. ASSUME added' <= Shown, added' <= Word
            PROVE  cell % Shown = added
        <5>1. added < Word /\ added < Shown
          BY <1>0, <2>1, <4>2
        <5>2. cell = added
          BY <1>0, <5>1, Small DEF CellCounts
        <5> QED BY <1>0, <5>1, <5>2, Small
      <4> QED BY <1>0, <4>1, <4>2
    <3>2. CASE r \notin serves[v]
      <4>1. ticket'[r] = ticket[r] /\ answered'[r] = answered[r]
        BY <2>1, <2>4, <2>5, <3>2
      <4>2. added' <= Shown /\ added' <= Word => added <= Shown /\ added <= Word
        BY <1>0, <2>1
      <4> QED BY <2>5, <4>1, <4>2
    <3> QED BY <3>1, <3>2
  <2> QED BY <2>1, <2>2, <2>3, <2>4, <2>5 DEF Unset
<1>4. ASSUME NEW v \in VMs, ReadAgain(v)
      PROVE  NumberInv'
  <2>1. /\ UNCHANGED <<program, serves, added, ticket>> /\ pc[v] = "read"
    BY <1>4 DEF ReadAgain, Go
  <2>2. program # "shared_counter"
    BY <2>1
  <2> QED BY <2>1, <2>2
<1>5. ASSUME NEW v \in VMs, NEW q \in CounterRequests, ShmArrive(v, q)
      PROVE  NumberInv'
  <2>1. /\ UNCHANGED <<program, added, ticket, answered>>
        /\ \A w \in VMs : serves'[w] = serves[w] \/ serves'[w] = {q}
        /\ \A w \in VMs : pc'[w] = "read" => pc[w] = "read"
    BY <1>0, <1>5 DEF ShmArrive, Go
  <2> QED BY <1>2, <2>1
<1>6. ASSUME NEW v \in VMs, ShmRespond(v) \/ ShmTerminate(v)
      PROVE  NumberInv'
  <2>1. /\ UNCHANGED <<program, added, ticket, answered>>
        /\ \A w \in VMs : serves'[w] = serves[w] \/ serves'[w] = {}
        /\ \A w \in VMs : pc'[w] = "read" => pc[w] = "read"
    BY <1>0, <1>6 DEF ShmRespond, ShmTerminate, Go
  <2> QED BY <1>2, <2>1
<1>7. ASSUME NEW s \in Shapes, Allocate(s)
      PROVE  UNCHANGED countVars /\ UNCHANGED program
  BY <1>7 DEF Allocate
<1> QED BY <1>1, <1>3, <1>4, <1>5, <1>6, <1>7 DEF ShmNext, WaitForRequests, shmVars

(* No two requests are answered alike by cpp/shared_counter until it has   *)
(* shown every number once (NumbersApart): the answer is what the          *)
(* request's own addition returned, whoever adds in the meantime.          *)
THEOREM SharedNumbersAreApart == ShmSpec => []NumbersApart
<1>1. ShmInit => NumberInv
  <2>1. ShmInit => \A v \in VMs : serves[v] = {} /\ pc[v] = "waiting"
    BY DEF ShmInit
  <2> QED BY <2>1 DEF ShmInit, NumberInv
<1>2. ShmTypeOK /\ CellCounts /\ NumberInv /\ [ShmNext]_shmVars => NumberInv'
  BY NumberStep
<1>3. ShmTypeOK /\ NumberInv => NumbersApart
  <2> SUFFICES ASSUME ShmTypeOK, NumberInv, program = "shared_counter", added <= Shown, added <= Word,
                      NEW r \in CounterRequests, NEW s \in CounterRequests,
                      r # s, answered[r] # Unset, answered[s] # Unset
               PROVE  answered[r] # answered[s]
    BY DEF NumbersApart
  <2>1. /\ answered[r] = ticket[r] - 1 /\ answered[s] = ticket[s] - 1
        /\ ticket[r] # 0 /\ ticket[r] \in Nat /\ ticket[s] \in Nat
    BY DEF NumberInv, ShmTypeOK
  <2>2. ticket[r] # ticket[s]
    BY <2>1 DEF NumberInv
  <2> QED BY <2>1, <2>2
<1>4. ShmSpec => []ShmTypeOK /\ []CellCounts
  BY ShmTypeCorrect, CellAlwaysCounts
<1> QED BY <1>1, <1>2, <1>3, <1>4, PTL DEF ShmSpec

(* The allocator has passed all it allocated, in order, and once it has    *)
(* refused it is past the end of the area.                                 *)
AllocInv ==
  /\ info.ptr = 0 => blocks = <<>>
  /\ info.ptr # 0 => info.end = area.end /\ area.ptr <= info.ptr
  /\ \A i \in 1..Len(blocks) :
       /\ blocks[i].p = NULL => info.ptr > area.end
       /\ blocks[i].p # NULL =>
            /\ blocks[i].p % blocks[i].align = 0
            /\ area.ptr <= blocks[i].p
            /\ blocks[i].p + blocks[i].size <= area.end
            /\ blocks[i].p + blocks[i].size <= info.ptr
  /\ \A i, j \in 1..Len(blocks) :
       i < j /\ blocks[j].p # NULL =>
         blocks[i].p # NULL /\ blocks[i].p + blocks[i].size <= blocks[j].p

LEMMA AllocStep ==
  ASSUME ShmTypeOK, AllocInv, NEW s \in Shapes, Allocate(s)
  PROVE  AllocInv'
<1> DEFINE from == IF info.ptr = 0 THEN area ELSE info
           p == AlignUp(from.ptr, s.align)
           fits == p + s.size <= from.end
           b == [p |-> IF fits THEN p ELSE NULL, size |-> s.size, align |-> s.align]
           L == Len(blocks)
<1>1. /\ area \in [ptr : Nat, end : Nat] /\ info \in [ptr : Nat, end : Nat]
      /\ s.size \in Nat \ {0} /\ s.align \in Nat \ {0} /\ blocks \in Seq(Block)
      /\ area.ptr = 0 => area.end = 0
  BY ShmAssumption DEF ShmTypeOK
<1>2. /\ from.ptr \in Nat /\ from.end = area.end /\ area.ptr <= from.ptr
      /\ info.ptr # 0 => from.ptr = info.ptr
      /\ info.ptr = 0 => L = 0
  BY <1>1 DEF AllocInv
<1>3. p \in Nat /\ from.ptr <= p /\ p % s.align = 0
  BY <1>1, <1>2, Aligned
<1>4. area' = area /\ info'.ptr = p + s.size /\ info'.end = area.end
  <2>1. from \in [ptr : Nat, end : Nat] /\ info' = [from EXCEPT !.ptr = p + s.size]
    BY <1>1 DEF Allocate
  <2> HIDE DEF from, p
  <2> QED BY <2>1, <1>2 DEF Allocate
<1>5. blocks' = Append(blocks, b)
  BY DEF Allocate
<1>6. /\ L \in Nat /\ Len(blocks') = L + 1 /\ blocks'[L + 1] = b
      /\ \A i \in 1..L : blocks'[i] = blocks[i] /\ blocks[i] \in Block
  <2> HIDE DEF b
  <2> QED BY <1>1, <1>5
(* A block that fits is not at address 0.                                  *)
<1>7. fits => p # NULL
  BY <1>1, <1>2, <1>3 DEF NULL
<1>8. b.p = (IF fits THEN p ELSE NULL) /\ b.size = s.size /\ b.align = s.align
  OBVIOUS
<1>9. p + s.size \in Nat /\ from.ptr <= p + s.size /\ p + s.size # 0
  BY <1>1, <1>2, <1>3
<1> HIDE DEF from, p, b, fits, L
<1>10. ASSUME NEW i \in 1..L
       PROVE  /\ blocks[i].p \in Nat /\ blocks[i].size \in Nat
              /\ blocks[i].p = NULL => from.ptr > area.end
              /\ blocks[i].p # NULL =>
                   /\ blocks[i].p % blocks[i].align = 0
                   /\ area.ptr <= blocks[i].p
                   /\ blocks[i].p + blocks[i].size <= area.end
                   /\ blocks[i].p + blocks[i].size <= from.ptr
  BY <1>2, <1>6 DEF AllocInv, L, Block
<1>11. fits <=> p + s.size <= area.end
  BY <1>2 DEF fits
<1>12. ASSUME NEW i \in 1..(L + 1)
       PROVE  /\ blocks'[i].p = NULL => p + s.size > area.end
              /\ blocks'[i].p # NULL =>
                   /\ blocks'[i].p % blocks'[i].align = 0
                   /\ area.ptr <= blocks'[i].p
                   /\ blocks'[i].p + blocks'[i].size <= area.end
                   /\ blocks'[i].p + blocks'[i].size <= p + s.size
  <2>1. CASE i \in 1..L
    <3>1. blocks'[i] = blocks[i] /\ area.end \in Nat /\ from.ptr \in Nat
      BY <1>1, <1>2, <1>6, <2>1
    <3>2. from.ptr > area.end => p + s.size > area.end
      BY <1>9, <3>1
    <3>3. blocks[i].p + blocks[i].size <= from.ptr =>
            blocks[i].p + blocks[i].size <= p + s.size
      BY <1>9, <1>10, <2>1, <3>1
    <3> QED BY <1>10, <2>1, <3>1, <3>2, <3>3
  <2>2. CASE i = L + 1
    BY <1>1, <1>2, <1>3, <1>6, <1>7, <1>8, <1>11, <2>2
  <2> QED BY <1>6, <2>1, <2>2
<1>13. ASSUME NEW i \in 1..(L + 1), NEW j \in 1..(L + 1), i < j, blocks'[j].p # NULL
       PROVE  blocks'[i].p # NULL /\ blocks'[i].p + blocks'[i].size <= blocks'[j].p
  <2>1. i \in 1..L
    BY <1>6, <1>13
  <2>2. CASE j \in 1..L
    BY <1>6, <1>13, <2>1, <2>2 DEF AllocInv, L
  <2>3. CASE j = L + 1
    <3>1. fits /\ blocks'[j].p = p
      BY <1>6, <1>8, <1>13, <2>3
    <3>2. blocks[i].p # NULL
      BY <1>1, <1>2, <1>9, <1>10, <1>11, <2>1, <3>1
    <3>3. blocks'[i] = blocks[i]
      BY <1>6, <2>1
    <3>4. blocks[i].p + blocks[i].size <= from.ptr
      BY <1>10, <2>1, <3>2
    <3>5. blocks[i].p + blocks[i].size \in Nat /\ from.ptr \in Nat /\ p \in Nat /\ from.ptr <= p
      BY <1>2, <1>3, <1>10, <2>1
    <3>6. blocks[i].p + blocks[i].size <= p
      BY ONLY <3>4, <3>5
    <3> QED BY <3>1, <3>2, <3>3, <3>6
  <2> QED BY <1>6, <2>2, <2>3
<1> QED BY <1>4, <1>6, <1>9, <1>12, <1>13, <1>2, <1>1 DEF AllocInv

LEMMA AllocInvImplies ==
  ASSUME ShmTypeOK, AllocInv
  PROVE  BlocksApart
<1> SUFFICES ASSUME NEW i \in 1..Len(blocks), NEW j \in 1..Len(blocks),
                    i < j, blocks[j].p # NULL
             PROVE  Bytes(blocks[i]) \cap Bytes(blocks[j]) = {}
  BY DEF BlocksApart, AllocInv
<1>1. /\ blocks[i].p \in Nat /\ blocks[i].size \in Nat
      /\ blocks[j].p \in Nat /\ blocks[j].size \in Nat
  <2>1. blocks[i] \in Block /\ blocks[j] \in Block
    BY DEF ShmTypeOK
  <2> QED BY <2>1 DEF Block
<1>2. blocks[i].p + blocks[i].size <= blocks[j].p
  BY DEF AllocInv
<1> QED BY <1>1, <1>2 DEF Bytes

(* Whatever is allocated, with any sizes and alignments, and refused in    *)
(* between: blocks lie in the area, aligned and apart                      *)
(* (internal_shm_alloc).                                                   *)
THEOREM SharedBlocksAreApart == ShmSpec => []BlocksApart
<1>1. ShmInit => AllocInv
  BY DEF ShmInit, AllocInv
<1>2. ShmTypeOK /\ AllocInv /\ [ShmNext]_shmVars => AllocInv'
  <2> SUFFICES ASSUME ShmTypeOK, AllocInv, [ShmNext]_shmVars
               PROVE  AllocInv'
    OBVIOUS
  <2>1. ASSUME UNCHANGED <<area, info, blocks>>
        PROVE  AllocInv'
    BY <2>1 DEF AllocInv
  <2> QED BY <2>1, AllocStep
          DEF ShmNext, WaitForRequests, ShmArrive, Add, ReadAgain, ShmRespond,
              ShmTerminate, shmVars, allocVars
<1>3. ShmTypeOK /\ AllocInv => BlocksApart
  BY AllocInvImplies
<1>4. ShmSpec => []ShmTypeOK
  BY ShmTypeCorrect
<1> QED BY <1>1, <1>2, <1>3, <1>4, PTL DEF ShmSpec

-----------------------------------------------------------------------------
(* Sums over finite sets.  A set of subsets of a finite set has a smallest *)
(* element; a claim about sums that fails for some subset fails for a      *)
(* smallest one, and one element fewer contradicts that.                   *)

(* The element a sum over s adds last.                                     *)
Pick(s) == CHOOSE x \in s : TRUE

(* h is the sum of f over each of the subsets of T, computed one element   *)
(* at a time as the library does.                                          *)
IsSum(h, f, T) ==
  h = [s \in SUBSET T |-> IF s = {} THEN 0 ELSE f[Pick(s)] + h[s \ {Pick(s)}]]

LEMMA SumUnfolds ==
  ASSUME NEW f
  PROVE  SumFunction(f) = (CHOOSE h : IsSum(h, f, DOMAIN f))[DOMAIN f]
BY DEF SumFunction, SumFunctionOnSet, FoldFunctionOnSet,
       MapThenFoldSet, Pick, IsSum

LEMMA PickIsElement ==
  ASSUME NEW s, s # {}
  PROVE  Pick(s) \in s
BY DEF Pick

(* Among subsets of a finite set there is a smallest one.                  *)
LEMMA SmallestSubset ==
  ASSUME NEW S, IsFiniteSet(S), NEW B \in SUBSET SUBSET S, B # {}
  PROVE  \E s \in B : \A t \in B : t \subseteq s => t = s
<1> DEFINE R == StrictSubsetOrdering(S)
<1>1. IsWellFoundedOn(R, SUBSET S)
  BY FS_StrictSubsetOrderingWellFounded, FS_FiniteSubsetsOfFinite
<1>2. PICK s \in B : \A t \in B : ~(<<t, s>> \in R)
  <2> HIDE DEF R
  <2> QED BY <1>1, WFMin
<1>3. ASSUME NEW t \in B, t \subseteq s, t # s
      PROVE  FALSE
  <2>1. <<t, s>> \in R
    BY <1>3 DEF StrictSubsetOrdering
  <2> QED BY <1>2, <2>1
<1> QED BY <1>2, <1>3

LEMMA SumStep ==
  ASSUME NEW T, NEW f, NEW h, IsSum(h, f, T), NEW s \in SUBSET T
  PROVE  /\ s = {} => h[s] = 0
         /\ s # {} => h[s] = f[Pick(s)] + h[s \ {Pick(s)}]
BY DEF IsSum

(* Sums over subsets of two sets agree where both are defined.             *)
LEMMA SumsAgree ==
  ASSUME NEW S, IsFiniteSet(S), NEW A \in SUBSET S, NEW B \in SUBSET S,
         NEW f, NEW h, NEW k, IsSum(h, f, A), IsSum(k, f, B),
         NEW r, r \subseteq A, r \subseteq B
  PROVE  h[r] = k[r]
<1> DEFINE Bad == {s \in SUBSET S : s \subseteq A /\ s \subseteq B /\ h[s] # k[s]}
<1> SUFFICES ASSUME Bad # {} PROVE FALSE
  OBVIOUS
<1>1. PICK s \in Bad : \A t \in Bad : t \subseteq s => t = s
  <2>1. Bad \in SUBSET SUBSET S
    OBVIOUS
  <2> HIDE DEF Bad
  <2> QED BY <2>1, SmallestSubset
<1>2. s # {}
  BY SumStep
<1>3. Pick(s) \in s
  BY <1>2, PickIsElement
<1> DEFINE t == s \ {Pick(s)}
<1>4. t \notin Bad
  BY <1>1, <1>3
<1>5. h[t] = k[t]
  BY <1>4
<1>6. h[s] = f[Pick(s)] + h[t] /\ k[s] = f[Pick(s)] + k[t]
  BY <1>2, SumStep
<1> QED BY <1>5, <1>6

LEMMA SumExists ==
  ASSUME NEW S, IsFiniteSet(S), NEW f
  PROVE  \E h : IsSum(h, f, S)
<1> DEFINE Bad == {T \in SUBSET S : ~ \E h : IsSum(h, f, T)}
<1> SUFFICES ASSUME Bad # {} PROVE FALSE
  OBVIOUS
<1>1. PICK T \in Bad : \A t \in Bad : t \subseteq T => t = T
  <2>1. Bad \in SUBSET SUBSET S
    OBVIOUS
  <2> HIDE DEF Bad
  <2> QED BY <2>1, SmallestSubset
<1> DEFINE g(t) == CHOOSE k : IsSum(k, f, t)
           rest(s) == s \ {Pick(s)}
           h == [s \in SUBSET T |-> IF s = {} THEN 0 ELSE f[Pick(s)] + g(rest(s))[rest(s)]]
<1>2. ASSUME NEW t \in SUBSET T, t # T
      PROVE  IsSum(g(t), f, t)
  <2>1. t \in SUBSET S /\ t \notin Bad
    BY <1>1, <1>2
  <2>2. \E k : IsSum(k, f, t)
    BY <2>1
  <2> QED BY <2>2
<1>3. ASSUME NEW s \in SUBSET T, s # {}
      PROVE  /\ rest(s) \in SUBSET T /\ rest(s) \in SUBSET s
             /\ rest(s) # T /\ rest(s) # s
  BY <1>3, PickIsElement
<1>4. ASSUME NEW t \in SUBSET T, t # T
      PROVE  h[t] = g(t)[t]
  <2>1. IsSum(g(t), f, t)
    BY <1>2, <1>4
  <2>2. CASE t = {}
    <3>1. h[t] = 0
      BY <2>2
    <3>2. g(t)[t] = 0
      BY <2>1, <2>2, SumStep
    <3> QED BY <3>1, <3>2
  <2>3. CASE t # {}
    <3> DEFINE r == rest(t)
    <3>1. r \in SUBSET T /\ r \in SUBSET t /\ r # T
      BY <1>3, <2>3
    <3>2. IsSum(g(r), f, r)
      BY <1>2, <3>1
    <3>3. g(r)[r] = g(t)[r]
      <4>1. t \in SUBSET S /\ r \in SUBSET S /\ r \subseteq r /\ r \subseteq t
        BY <3>1
      <4> HIDE DEF g, r
      <4> QED BY <2>1, <3>2, <4>1, SumsAgree
    <3>4. g(t)[t] = f[Pick(t)] + g(t)[r]
      <4> HIDE DEF g
      <4> QED BY <2>1, <2>3, SumStep
    <3>5. h[t] = f[Pick(t)] + g(r)[r]
      <4> HIDE DEF g
      <4> QED BY <2>3
    <3> QED BY <3>3, <3>4, <3>5
  <2> QED BY <2>2, <2>3
<1>5. h = [s \in SUBSET T |-> IF s = {} THEN 0 ELSE f[Pick(s)] + h[s \ {Pick(s)}]]
  <2>1. ASSUME NEW s \in SUBSET T, s # {}
        PROVE  g(rest(s))[rest(s)] = h[rest(s)]
    BY <2>1, <1>3, <1>4
  <2> HIDE DEF g
  <2> QED BY <2>1
<1>6. IsSum(h, f, T)
  BY <1>5 DEF IsSum
<1> QED BY <1>6

(* If two functions differ at x only, so do their sums.                    *)
LEMMA SumsDiffer ==
  ASSUME NEW S, IsFiniteSet(S), NEW f \in [S -> Nat], NEW g \in [S -> Nat],
         NEW x \in S, \A y \in S : y # x => f[y] = g[y],
         NEW h, NEW k, IsSum(h, f, S), IsSum(k, g, S), NEW r \in SUBSET S
  PROVE  /\ h[r] \in Nat /\ k[r] \in Nat
         /\ x \in r => k[r] + f[x] = h[r] + g[x]
         /\ x \notin r => k[r] = h[r]
<1> DEFINE Good(s) == /\ h[s] \in Nat /\ k[s] \in Nat
                      /\ x \in s => k[s] + f[x] = h[s] + g[x]
                      /\ x \notin s => k[s] = h[s]
           Bad == {s \in SUBSET S : ~ Good(s)}
<1> SUFFICES ASSUME Bad # {} PROVE FALSE
  OBVIOUS
<1>1. PICK s \in Bad : \A t \in Bad : t \subseteq s => t = s
  <2>1. Bad \in SUBSET SUBSET S
    OBVIOUS
  <2> HIDE DEF Bad
  <2> QED BY <2>1, SmallestSubset
<1>2. s # {}
  <2>1. s \in SUBSET S
    OBVIOUS
  <2> HIDE DEF Bad, Good
  <2>2. s = {} => h[s] = 0
    BY <2>1 DEF IsSum
  <2>3. s = {} => k[s] = 0
    BY <2>1 DEF IsSum
  <2>4. ~ Good(s)
    BY DEF Bad
  <2> QED BY <2>2, <2>3, <2>4 DEF Good
<1> DEFINE y == Pick(s)
           t == s \ {y}
<1>3. y \in s /\ y \in S
  BY <1>2, PickIsElement
<1>4. Good(t)
  <2>1. t \in SUBSET S /\ t \subseteq s /\ t # s
    BY <1>3
  <2> HIDE DEF t, Good
  <2> QED BY <1>1, <2>1
<1>5. h[s] = f[y] + h[t] /\ k[s] = g[y] + k[t]
  <2>1. s \in SUBSET S
    OBVIOUS
  <2> HIDE DEF Bad, Good
  <2>2. h[s] = f[Pick(s)] + h[s \ {Pick(s)}]
    BY <1>2, <2>1, SumStep
  <2>3. k[s] = g[Pick(s)] + k[s \ {Pick(s)}]
    BY <1>2, <2>1, SumStep
  <2> QED BY <2>2, <2>3
<1>6. f[y] \in Nat /\ g[y] \in Nat /\ f[x] \in Nat /\ g[x] \in Nat
  BY <1>3
<1>7. CASE y = x
  <2>1. x \in s /\ x \notin t
    BY <1>3, <1>7
  <2>2. h[t] \in Nat /\ k[t] = h[t]
    BY <1>4, <2>1
  <2> HIDE DEF t, y
  <2>3. Good(s)
    BY <1>5, <1>6, <1>7, <2>1, <2>2
  <2> QED BY <2>3
<1>8. CASE y # x
  <2>1. (x \in s <=> x \in t) /\ f[y] = g[y]
    BY <1>3, <1>8
  <2>2. /\ h[t] \in Nat /\ k[t] \in Nat
        /\ x \in s => k[t] + f[x] = h[t] + g[x]
        /\ x \notin s => k[t] = h[t]
    BY <1>4, <2>1
  <2> HIDE DEF t, y
  <2>3. Good(s)
    BY <1>5, <1>6, <2>1, <2>2
  <2> QED BY <2>3
<1> QED BY <1>7, <1>8

LEMMA SumIsSum ==
  ASSUME NEW S, IsFiniteSet(S), NEW f \in [S -> Nat]
  PROVE  \E h : IsSum(h, f, S) /\ SumFunction(f) = h[S]
<1>1. \E h : IsSum(h, f, S)
  BY SumExists
<1>2. DOMAIN f = S
  OBVIOUS
<1> QED BY <1>1, <1>2, SumUnfolds

(* What the sum of a function is after a change at one place.              *)
LEMMA SumChange ==
  ASSUME NEW S, IsFiniteSet(S), NEW f \in [S -> Nat], NEW g \in [S -> Nat],
         NEW x \in S, \A y \in S : y # x => f[y] = g[y]
  PROVE  /\ SumFunction(f) \in Nat /\ SumFunction(g) \in Nat
         /\ SumFunction(g) + f[x] = SumFunction(f) + g[x]
<1>1. PICK h : IsSum(h, f, S) /\ SumFunction(f) = h[S]
  BY SumIsSum
<1>2. PICK k : IsSum(k, g, S) /\ SumFunction(g) = k[S]
  BY SumIsSum
<1>3. /\ h[S] \in Nat /\ k[S] \in Nat
      /\ k[S] + f[x] = h[S] + g[x]
  <2>1. S \in SUBSET S /\ x \in S
    OBVIOUS
  <2> QED BY <1>1, <1>2, <2>1, SumsDiffer
<1> QED BY <1>1, <1>2, <1>3

LEMMA SumOfZeros ==
  ASSUME NEW S, IsFiniteSet(S)
  PROVE  SumFunction([x \in S |-> 0]) = 0
<1> DEFINE f == [x \in S |-> 0]
<1>1. PICK h : IsSum(h, f, S) /\ SumFunction(f) = h[S]
  <2>1. f \in [S -> Nat]
    OBVIOUS
  <2> HIDE DEF f
  <2> QED BY <2>1, SumIsSum
<1> DEFINE Bad == {s \in SUBSET S : h[s] # 0}
<1>2. Bad = {}
  <2> SUFFICES ASSUME Bad # {} PROVE FALSE
    OBVIOUS
  <2>1. PICK s \in Bad : \A t \in Bad : t \subseteq s => t = s
    <3>1. Bad \in SUBSET SUBSET S
      OBVIOUS
    <3> HIDE DEF Bad
    <3> QED BY <3>1, SmallestSubset
  <2>2. IsSum(h, f, S)
    BY <1>1
  <2>3. s # {}
    <3>1. s \in SUBSET S /\ h[s] # 0
      OBVIOUS
    <3> HIDE DEF f, Bad
    <3> QED BY <2>2, <3>1, SumStep
  <2> DEFINE y == Pick(s)
             t == s \ {y}
  <2>4. y \in s
    BY <2>3, PickIsElement
  <2>5. h[t] = 0
    BY <2>1, <2>4
  <2>6. h[s] = f[y] + h[t]
    <3>1. s \in SUBSET S
      OBVIOUS
    <3> HIDE DEF f, Bad
    <3> QED BY <2>2, <2>3, <3>1, SumStep
  <2>7. f[y] = 0
    BY <2>4
  <2> HIDE DEF t, y, f
  <2> QED BY <2>5, <2>6, <2>7
<1> QED BY <1>1, <1>2

-----------------------------------------------------------------------------
(* Collector.  The argument: a batch is collected by the owner of the      *)
(* mutex alone, up to where it has come; and a step moves a request from   *)
(* one place to another.                                                   *)

(* Where and how often a URL occurs in a part of a batch.                  *)
Places(batch, from, to, u) == {i \in from..to : batch[i] = u}
Occurrences(batch, from, to, u) == Cardinality(Places(batch, from, to, u))

LEMMA OccurrencesFinite ==
  ASSUME NEW batch, NEW from \in Nat, NEW to \in Nat, NEW u
  PROVE  /\ IsFiniteSet(Places(batch, from, to, u))
         /\ Occurrences(batch, from, to, u) \in Nat
<1>1. IsFiniteSet(from..to)
  BY FS_Interval
<1>2. Places(batch, from, to, u) \in SUBSET (from..to)
  BY DEF Places
<1>3. IsFiniteSet(Places(batch, from, to, u))
  BY <1>1, <1>2, FS_Subset
<1> QED BY <1>3, FS_CardinalityType DEF Occurrences

LEMMA NoOccurrences ==
  ASSUME NEW batch, NEW from \in Nat, NEW to \in Nat, NEW u, to < from
  PROVE  Occurrences(batch, from, to, u) = 0
<1>1. Places(batch, from, to, u) = {}
  BY DEF Places
<1> QED BY <1>1, FS_EmptySet DEF Occurrences

(* One place more, at the end or before the beginning.                     *)
LEMMA OneMoreOccurrence ==
  ASSUME NEW batch, NEW from \in Nat, NEW to \in Nat, NEW u, from <= to + 1
  PROVE  /\ Occurrences(batch, from, to + 1, u)
              = Occurrences(batch, from, to, u) + (IF batch[to + 1] = u THEN 1 ELSE 0)
<1> DEFINE S == Places(batch, from, to, u)
           T == Places(batch, from, to + 1, u)
<1>1. T = IF batch[to + 1] = u THEN S \cup {to + 1} ELSE S
  BY DEF Places
<1>2. IsFiniteSet(S) /\ to + 1 \notin S
  <2>1. to + 1 \notin S
    BY DEF Places
  <2>2. IsFiniteSet(S)
    BY OccurrencesFinite
  <2> QED BY <2>1, <2>2
<1> HIDE DEF S, T
<1>3. Cardinality(S \cup {to + 1}) = Cardinality(S) + 1
  BY <1>2, FS_AddElement
<1>4. Cardinality(S) \in Nat
  BY <1>2, FS_CardinalityType
<1>5. Cardinality(T) = Cardinality(S) + (IF batch[to + 1] = u THEN 1 ELSE 0)
  BY <1>1, <1>3, <1>4
<1> QED BY <1>5 DEF Occurrences, S, T

LEMMA OneFewerOccurrence ==
  ASSUME NEW batch, NEW from \in Nat, NEW to \in Nat, NEW u, from <= to
  PROVE  Occurrences(batch, from, to, u)
           = Occurrences(batch, from + 1, to, u) + (IF batch[from] = u THEN 1 ELSE 0)
<1> DEFINE S == Places(batch, from + 1, to, u)
           T == Places(batch, from, to, u)
<1>1. T = IF batch[from] = u THEN S \cup {from} ELSE S
  BY DEF Places
<1>2. IsFiniteSet(S) /\ from \notin S
  <2>3. from + 1 \in Nat
    OBVIOUS
  <2>1. from \notin S
    BY DEF Places
  <2>2. IsFiniteSet(S)
    BY OccurrencesFinite, <2>3
  <2> QED BY <2>1, <2>2
<1> HIDE DEF S, T
<1>3. Cardinality(S \cup {from}) = Cardinality(S) + 1
  BY <1>2, FS_AddElement
<1>4. Cardinality(S) \in Nat
  BY <1>2, FS_CardinalityType
<1>5. Cardinality(T) = Cardinality(S) + (IF batch[from] = u THEN 1 ELSE 0)
  BY <1>1, <1>3, <1>4
<1> QED BY <1>5 DEF Occurrences, S, T

LEMMA SameOccurrences ==
  ASSUME NEW b1, NEW b2, NEW from \in Nat, NEW to \in Nat, NEW u,
         \A i \in from..to : b1[i] = b2[i]
  PROVE  Occurrences(b1, from, to, u) = Occurrences(b2, from, to, u)
<1>1. Places(b1, from, to, u) = Places(b2, from, to, u)
  BY DEF Places
<1> QED BY <1>1 DEF Occurrences

LEMMA CountsOfBatch ==
  ASSUME NEW batch, NEW u \in Urls
  PROVE  Counts(batch)[u] = Occurrences(batch, 1, Len(batch), u)
<1> DEFINE C(w) == Cardinality({i \in 1..Len(batch) : batch[i] = w})
<1>1. Counts(batch) = [w \in Urls |-> C(w)]
  BY Zenon DEF Counts
<1>2. C(u) = Occurrences(batch, 1, Len(batch), u)
  BY Zenon DEF Occurrences, Places
<1> HIDE DEF C
<1> QED BY <1>1, <1>2

LEMMA CountsOfRest ==
  ASSUME NEW batch \in Seq(Urls), NEW n \in Nat \ {0}, n <= Len(batch) + 1, NEW u \in Urls
  PROVE  Counts(SubSeq(batch, n, Len(batch)))[u] = Occurrences(batch, n, Len(batch), u)
<1> DEFINE L == Len(batch)
           rest == SubSeq(batch, n, L)
           K == L - (n - 1)
           S == Places(rest, 1, K, u)
           T == Places(batch, n, L, u)
<1>1. L \in Nat /\ K \in Nat
  OBVIOUS
<1>2. Len(rest) = K /\ \A i \in 1..K : rest[i] = batch[i + (n - 1)]
  BY <1>1, SubSeqProperties
<1> HIDE DEF L, rest
<1>3. T = {i + (n - 1) : i \in S}
  <2>1. ASSUME NEW i \in T
        PROVE  \E j \in S : i = j + (n - 1)
    <3>1. i - (n - 1) \in 1..K /\ i = (i - (n - 1)) + (n - 1)
      BY <1>1 DEF Places, L
    <3>2. rest[i - (n - 1)] = batch[i]
      BY <1>2, <3>1
    <3> QED BY <3>1, <3>2 DEF Places
  <2>2. ASSUME NEW j \in S
        PROVE  j + (n - 1) \in T
    BY <1>1, <1>2 DEF Places
  <2> QED BY <2>1, <2>2
<1>4. IsFiniteSet(S) /\ IsFiniteSet(T)
  BY <1>1, OccurrencesFinite
<1>5. Cardinality(S) = Cardinality(T)
  <2> DEFINE shift == [i \in S |-> i + (n - 1)]
  <2>1. shift \in Bijection(S, T)
    <3>1. shift \in [S -> T]
      BY <1>3
    <3>2. \A i, j \in S : shift[i] = shift[j] => i = j
      BY <1>1 DEF Places
    <3>3. \A t \in T : \E i \in S : shift[i] = t
      BY <1>3
    <3> HIDE DEF shift, S, T
    <3> QED BY <3>1, <3>2, <3>3 DEF Bijection, Injection, IsInjective, Surjection
  <2>2. ExistsBijection(S, T)
    BY <2>1 DEF ExistsBijection
  <2> HIDE DEF S, T
  <2> QED BY <1>4, <2>2, FS_Bijection
<1>6. Counts(rest)[u] = Cardinality(S)
  BY <1>2, CountsOfBatch DEF Occurrences
<1> QED BY <1>5, <1>6 DEF Occurrences, rest, L

LEMMA CountsIsTally ==
  ASSUME NEW batch \in Seq(Urls)
  PROVE  Counts(batch) \in Tally
<1> DEFINE C(w) == Cardinality({i \in 1..Len(batch) : batch[i] = w})
<1>1. Counts(batch) = [w \in Urls |-> C(w)]
  BY Zenon DEF Counts
<1>2. ASSUME NEW w \in Urls
      PROVE  Counts(batch)[w] \in Nat
  <2>1. Len(batch) \in Nat
    OBVIOUS
  <2> QED BY <2>1, OccurrencesFinite, CountsOfBatch
<1> HIDE DEF C
<1> QED BY <1>1, <1>2 DEF Tally

LEMMA PlusIsTally ==
  ASSUME NEW f \in Tally, NEW g \in Tally
  PROVE  /\ Plus(f, g) \in Tally
         /\ \A u \in Urls : Plus(f, g)[u] = f[u] + g[u]
BY DEF Tally, Plus

LEMMA IncrementIsTally ==
  ASSUME NEW f \in Tally, NEW u \in Urls
  PROVE  /\ [f EXCEPT ![u] = @ + 1] \in Tally
         /\ \A w \in Urls : [f EXCEPT ![u] = @ + 1][w] = f[w] + (IF w = u THEN 1 ELSE 0)
BY DEF Tally

LEMMA ZeroIsTally == Zero \in Tally
BY DEF Zero, Tally

(* A batch is collected once it is full.                                   *)
BatchInv ==
  \A v \in VMs :
    /\ pc[v] \in {"waiting", "lockReport", "copy", "respond"} => Len(urls[v]) < MaxLocalUrls
    /\ pc[v] = "collect" => next[v] <= Len(urls[v]) + 1

CollectTypeInv == CollectTypeOK /\ BatchInv

LEMMA CollectTypeStep ==
  ASSUME CollectTypeInv, [CollectNext]_collectVars
  PROVE  CollectTypeInv'
<1> USE DEF CollectTypeInv, BatchInv, CollectTypeOK, Go
<1> DEFINE Max == MaxLocalUrls
<1>0. MaxLocalUrls \in Nat \ {0} /\ \A v \in VMs : Len(urls[v]) \in Nat
  BY CollectorAssumption
<1>1. ASSUME NEW v \in VMs, NEW u \in Urls, Visit(v, u)
      PROVE  CollectTypeInv'
  <2>1. /\ urls' \in [VMs -> Seq(Urls)] /\ pc[v] = "waiting"
        /\ \A w \in VMs : Len(urls'[w]) = IF w = v THEN Len(urls[v]) + 1 ELSE Len(urls[w])
    <3>1. urls' = [urls EXCEPT ![v] = Append(urls[v], u)]
      BY <1>1 DEF Visit
    <3>2. Append(urls[v], u) \in Seq(Urls) /\ Len(Append(urls[v], u)) = Len(urls[v]) + 1
      OBVIOUS
    <3> QED BY <1>1, <3>1, <3>2 DEF Visit
  <2>2. visits' \in Tally
    BY <1>1, IncrementIsTally DEF Visit
  <2>3. /\ \A w \in VMs : w # v => pc'[w] = pc[w]
        /\ pc'[v] = IF Len(urls[v]) + 1 >= MaxLocalUrls THEN "lock" ELSE "respond"
        /\ pc' \in [VMs -> {"waiting", "lock", "collect", "clear", "lockReport",
                               "copy", "respond"}]
    BY <1>1 DEF Visit
  <2>4. /\ UNCHANGED <<next, collection, mtx, copy, lost, whole>>
        /\ \A w \in VMs : Len(urls'[w]) <= MaxLocalUrls
    BY <1>0, <1>1, <2>1 DEF Visit
  <2>5. BatchInv'
    BY <1>0, <2>1, <2>3, <2>4
  <2> QED BY <2>1, <2>2, <2>3, <2>4, <2>5
<1>2. ASSUME NEW v \in VMs, LockCollect(v)
      PROVE  CollectTypeInv'
  BY <1>0, <1>2 DEF LockCollect
<1>3. ASSUME NEW v \in VMs, CollectOne(v)
      PROVE  CollectTypeInv'
  <2>1. next[v] \in 1..Len(urls[v]) /\ next[v] + 1 <= Len(urls[v]) + 1
    BY <1>0, <1>3 DEF CollectOne
  <2>2. urls[v][next[v]] \in Urls
    BY <2>1
  <2>3. collection' \in Tally
    BY <1>3, <2>2, IncrementIsTally DEF CollectOne
  <2>4. next' \in [VMs -> 1..(MaxLocalUrls + 1)]
    BY <1>0, <1>3, <2>1 DEF CollectOne
  <2>5. \A w \in VMs : next'[w] = IF w = v THEN next[v] + 1 ELSE next[w]
    BY <1>3 DEF CollectOne
  <2> QED BY <1>0, <1>3, <2>1, <2>3, <2>4, <2>5 DEF CollectOne
<1>4. ASSUME NEW v \in VMs, UnlockCollect(v)
      PROVE  CollectTypeInv'
  <2>1. whole' \in Tally
    BY <1>4, CountsIsTally, PlusIsTally DEF UnlockCollect
  <2> QED BY <1>0, <1>4, <2>1 DEF UnlockCollect
<1>5. ASSUME NEW v \in VMs, ClearUrls(v)
      PROVE  CollectTypeInv'
  <2>1. <<>> \in Seq(Urls) /\ Len(<<>>) = 0
    OBVIOUS
  <2> QED BY <1>0, <1>5, <2>1 DEF ClearUrls
<1>6. ASSUME NEW v \in VMs, AskReport(v) \/ LockReport(v)
      PROVE  CollectTypeInv'
  BY <1>0, <1>6 DEF AskReport, LockReport
<1>7. ASSUME NEW v \in VMs, CopyReport(v) \/ CollectRespond(v)
      PROVE  CollectTypeInv'
  BY <1>0, <1>7, ZeroIsTally DEF CopyReport, CollectRespond, NoReport
<1>8. ASSUME NEW v \in VMs, CollectTerminate(v)
      PROVE  CollectTypeInv'
  <2>1. <<>> \in Seq(Urls) /\ Len(<<>>) = 0
    OBVIOUS
  <2>2. Uncollected(v) \in Seq(Urls)
    BY <2>1 DEF Uncollected
  <2>3. lost' \in Tally
    BY <1>8, <2>2, CountsIsTally, PlusIsTally DEF CollectTerminate
  <2> QED BY <1>0, <1>8, <2>1, <2>3, ZeroIsTally DEF CollectTerminate, NoReport
<1>9. CASE UNCHANGED collectVars
  BY <1>9 DEF collectVars
<1> QED BY <1>1, <1>2, <1>3, <1>4, <1>5, <1>6, <1>7, <1>8, <1>9 DEF CollectNext

LEMMA CollectTypeInvariant == CollectSpec => []CollectTypeInv
<1>1. CollectInit => CollectTypeInv
  <2> SUFFICES ASSUME CollectInit PROVE CollectTypeInv
    OBVIOUS
  <2>1. <<>> \in Seq(Urls) /\ Len(<<>>) = 0 /\ MaxLocalUrls \in Nat \ {0}
    BY CollectorAssumption
  <2>2. 1 \in 1..(MaxLocalUrls + 1)
    BY <2>1
  <2> QED BY <2>1, <2>2, ZeroIsTally
          DEF CollectInit, CollectTypeInv, BatchInv, CollectTypeOK, NoReport
<1>2. CollectTypeInv /\ [CollectNext]_collectVars => CollectTypeInv'
  BY CollectTypeStep
<1> QED BY <1>1, <1>2, PTL DEF CollectSpec

(* Every variable of the collector keeps its type; no batch grows past     *)
(* MAX_LOCAL_URLS (on_get, storage_collect, storage_report).               *)
THEOREM CollectTypeCorrect == CollectSpec => []CollectTypeOK
<1>1. CollectTypeInv => CollectTypeOK
  BY DEF CollectTypeInv
<1> QED BY <1>1, CollectTypeInvariant, PTL

(* While nobody collects, storage holds whole batches.  A mutex that was   *)
(* left locked keeps everybody out.                                        *)
MutexInv ==
  /\ \A v \in VMs : pc[v] \in {"collect", "copy"} => mtx = v
  /\ mtx = Nobody => collection = whole
  /\ \A v \in VMs : pc[v] = "copy" => collection = whole
  /\ \A v \in VMs : pc[v] = "collect" =>
       \A u \in Urls :
         collection[u] = whole[u] + Occurrences(urls[v], 1, next[v] - 1, u)

LEMMA MutexStep ==
  ASSUME CollectTypeInv, MutexInv,
         [CollectNext]_collectVars
  PROVE  MutexInv'
<1> USE DEF MutexInv, Go
<1>0. /\ collection \in [Urls -> Nat] /\ whole \in [Urls -> Nat]
      /\ \A v \in VMs : /\ urls[v] \in Seq(Urls) /\ Len(urls[v]) \in Nat
                        /\ next[v] \in Nat \ {0}
      /\ Nobody \notin VMs
      /\ pc \in [VMs -> {"waiting", "lock", "collect", "clear", "lockReport",
                            "copy", "respond"}]
      /\ urls \in [VMs -> Seq(Urls)] /\ DOMAIN next = VMs
  BY CollectorAssumption DEF CollectTypeInv, CollectTypeOK, Tally
(* Steps that leave storage and the mutex alone.                           *)
<1>1. ASSUME NEW v \in VMs, UNCHANGED <<next, collection, mtx, whole>>,
             \A w \in VMs : w # v => pc'[w] = pc[w] /\ urls'[w] = urls[w],
             pc'[v] \notin {"collect", "copy"}
      PROVE  MutexInv'
  BY <1>1
<1>2. ASSUME NEW v \in VMs,
             ClearUrls(v) \/ AskReport(v) \/ CollectRespond(v)
               \/ CollectTerminate(v) \/ \E u \in Urls : Visit(v, u)
      PROVE  MutexInv'
  <2>1. /\ UNCHANGED <<next, collection, mtx, whole>>
        /\ \A w \in VMs : w # v => pc'[w] = pc[w]
        /\ pc'[v] \notin {"collect", "copy"}
    BY <1>0, <1>2 DEF ClearUrls, AskReport, CollectRespond,
                      CollectTerminate, Visit
  <2>2. \A w \in VMs : w # v => urls'[w] = urls[w]
    BY <1>0, <1>2 DEF ClearUrls, AskReport, CollectRespond,
                      CollectTerminate, Visit
  <2> QED BY <1>1, <2>1, <2>2
<1>3. ASSUME NEW v \in VMs, LockCollect(v)
      PROVE  MutexInv'
  <2>1. /\ mtx = Nobody /\ mtx' = v /\ UNCHANGED <<urls, collection, whole>>
        /\ next'[v] = 1 /\ pc'[v] = "collect"
        /\ \A w \in VMs : w # v => pc'[w] = pc[w]
    BY <1>0, <1>3 DEF LockCollect
  <2>2. \A w \in VMs : w # v => pc'[w] \notin {"collect", "copy"}
    BY <1>0, <2>1
  <2>3. \A u \in Urls : collection[u] = whole[u] + Occurrences(urls[v], 1, 1 - 1, u)
    <3>1. 1 - 1 \in Nat /\ 1 \in Nat /\ 1 - 1 < 1
      OBVIOUS
    <3>2. \A u \in Urls : Occurrences(urls[v], 1, 1 - 1, u) = 0
      BY <3>1, NoOccurrences
    <3> QED BY <1>0, <2>1, <3>2
  <2> QED BY <1>0, <2>1, <2>2, <2>3
<1>4. ASSUME NEW v \in VMs, CollectOne(v)
      PROVE  MutexInv'
  <2> DEFINE n == next[v]
             x == urls[v][n]
  <2>1. /\ pc[v] = "collect" /\ mtx = v
        /\ UNCHANGED <<pc, urls, mtx, whole>> /\ next'[v] = n + 1
        /\ x \in Urls
    BY <1>0, <1>4 DEF CollectOne
  <2>2. \A u \in Urls : collection'[u] = collection[u] + (IF u = x THEN 1 ELSE 0)
    BY <1>0, <1>4, <2>1 DEF CollectOne
  <2>3. \A w \in VMs : w # v => pc[w] \notin {"collect", "copy"}
    BY <2>1
  <2>4. ASSUME NEW u \in Urls
        PROVE  collection'[u] = whole[u] + Occurrences(urls[v], 1, next'[v] - 1, u)
    <3>1. n \in Nat /\ n - 1 \in Nat /\ 1 <= (n - 1) + 1 /\ (n - 1) + 1 = n /\ (n + 1) - 1 = n
      BY <1>0
    <3>2. Occurrences(urls[v], 1, (n - 1) + 1, u)
            = Occurrences(urls[v], 1, n - 1, u) + (IF urls[v][(n - 1) + 1] = u THEN 1 ELSE 0)
      BY <3>1, OneMoreOccurrence
    <3>3. Occurrences(urls[v], 1, n - 1, u) \in Nat
      BY <3>1, OccurrencesFinite
    <3>4. collection[u] = whole[u] + Occurrences(urls[v], 1, n - 1, u)
      BY <2>1
    <3>5. next'[v] - 1 = n
      BY <2>1, <3>1
    <3>6. collection[u] \in Nat /\ whole[u] \in Nat
      BY <1>0
    <3> HIDE DEF n
    <3>7. Occurrences(urls[v], 1, n, u)
            = Occurrences(urls[v], 1, n - 1, u) + (IF x = u THEN 1 ELSE 0)
      BY <3>1, <3>2
    <3> HIDE DEF x
    <3> QED BY <2>2, <3>3, <3>4, <3>5, <3>6, <3>7
  <2> QED BY <1>0, <2>1, <2>3, <2>4
<1>5. ASSUME NEW v \in VMs, UnlockCollect(v)
      PROVE  MutexInv'
  <2>1. /\ pc[v] = "collect" /\ mtx = v /\ next[v] = Len(urls[v]) + 1
        /\ pc'[v] = "clear" /\ \A w \in VMs : w # v => pc'[w] = pc[w]
        /\ UNCHANGED <<urls, next, collection>> /\ mtx' = Nobody
    BY <1>0, <1>5 DEF UnlockCollect, CollectTypeInv, BatchInv
  <2>2. \A w \in VMs : pc'[w] \notin {"collect", "copy"}
    BY <2>1
  <2>3. /\ whole' \in [Urls -> Nat]
        /\ \A u \in Urls : whole'[u] = whole[u] + Counts(urls[v])[u]
    <3>1. Counts(urls[v]) \in Tally /\ whole \in Tally
      BY <1>0, CountsIsTally DEF Tally
    <3>2. whole' = Plus(whole, Counts(urls[v]))
      BY <1>5 DEF UnlockCollect
    <3>3. /\ whole' \in Tally
          /\ \A u \in Urls : whole'[u] = whole[u] + Counts(urls[v])[u]
      BY <3>1, <3>2, PlusIsTally
    <3> QED BY <3>3 DEF Tally
  <2>4. ASSUME NEW u \in Urls
        PROVE  collection[u] = whole'[u]
    <3>1. next[v] - 1 = Len(urls[v])
      BY <1>0, <2>1
    <3>2. collection[u] = whole[u] + Occurrences(urls[v], 1, Len(urls[v]), u)
      BY <2>1, <3>1
    <3> QED BY <2>3, <3>2, CountsOfBatch
  <2>5. collection = whole'
    BY <1>0, <2>3, <2>4
  <2> QED BY <2>1, <2>2, <2>5
<1>6. ASSUME NEW v \in VMs, LockReport(v)
      PROVE  MutexInv'
  <2>1. /\ mtx = Nobody /\ mtx' = v /\ UNCHANGED <<urls, next, collection, whole>>
        /\ pc'[v] = "copy"
        /\ \A w \in VMs : w # v => pc'[w] = pc[w]
    BY <1>0, <1>6 DEF LockReport
  <2>2. \A w \in VMs : w # v => pc'[w] \notin {"collect", "copy"}
    BY <1>0, <2>1
  <2> QED BY <1>0, <2>1, <2>2
<1>7. ASSUME NEW v \in VMs, CopyReport(v)
      PROVE  MutexInv'
  <2>1. /\ mtx = v /\ mtx' = Nobody /\ UNCHANGED <<urls, next, collection, whole>>
        /\ collection = whole /\ pc'[v] = "respond"
        /\ \A w \in VMs : w # v => pc'[w] = pc[w]
    BY <1>0, <1>7 DEF CopyReport
  <2>2. \A w \in VMs : pc'[w] \notin {"collect", "copy"}
    BY <2>1
  <2> QED BY <2>1, <2>2
<1>8. CASE UNCHANGED collectVars
  BY <1>8 DEF collectVars
<1> QED BY <1>2, <1>3, <1>4, <1>5, <1>6, <1>7, <1>8 DEF CollectNext

(* For any number of VMs and any batches, wherever requests are            *)
(* terminated: what a report copies holds whole batches only (the scoped   *)
(* locks of storage_collect and storage_report).                           *)
THEOREM ReportsShowWholeBatches == CollectSpec => []ReportsWholeBatches
<1>1. CollectInit => MutexInv
  BY DEF CollectInit, MutexInv
<1>2. CollectTypeInv /\ MutexInv /\ [CollectNext]_collectVars => MutexInv'
  BY MutexStep
<1>3. MutexInv => ReportsWholeBatches
  BY DEF MutexInv, ReportsWholeBatches
<1>4. CollectSpec => []CollectTypeInv
  BY CollectTypeInvariant
<1> QED BY <1>1, <1>2, <1>3, <1>4, PTL DEF CollectSpec

(* How many of the requests for u each VM holds, and how many all of them. *)
Held(u) == [v \in VMs |-> Counts(Uncollected(v))[u]]
HeldByAll(u) == SumFunction(Held(u))

LEMMA UncollectedIsBatch ==
  ASSUME CollectTypeInv, NEW v \in VMs
  PROVE  Uncollected(v) \in Seq(Urls)
BY DEF CollectTypeInv, CollectTypeOK, Uncollected

LEMMA HeldIsFunction ==
  ASSUME CollectTypeInv, NEW u \in Urls
  PROVE  Held(u) \in [VMs -> Nat]
<1>1. ASSUME NEW v \in VMs
      PROVE  Counts(Uncollected(v))[u] \in Nat
  BY UncollectedIsBatch, CountsIsTally DEF Tally
<1> QED BY <1>1 DEF Held

(* What of a batch is in no storage, by where its VM is and how much of it *)
(* is collected.                                                           *)
Rest(where, batch, n) ==
  CASE where = "clear"   -> <<>>
    [] where = "collect" -> SubSeq(batch, n, Len(batch))
    [] OTHER             -> batch

InRest(where, batch, n, u) ==
  IF where = "clear" THEN 0
  ELSE Occurrences(batch, IF where = "collect" THEN n ELSE 1, Len(batch), u)

LEMMA RestCounts ==
  ASSUME NEW where, NEW batch \in Seq(Urls), NEW n \in Nat \ {0}, NEW u \in Urls,
         where = "collect" => n <= Len(batch) + 1
  PROVE  Counts(Rest(where, batch, n))[u] = InRest(where, batch, n, u)
<1>1. CASE where = "clear"
  <2>1. Rest(where, batch, n) = <<>> /\ Len(<<>>) = 0
    BY <1>1 DEF Rest
  <2>2. Occurrences(<<>>, 1, 0, u) = 0
    BY NoOccurrences
  <2>3. Counts(<<>>)[u] = Occurrences(<<>>, 1, Len(<<>>), u)
    BY CountsOfBatch
  <2> QED BY <1>1, <2>1, <2>2, <2>3 DEF InRest
<1>2. CASE where = "collect"
  <2>1. Rest(where, batch, n) = SubSeq(batch, n, Len(batch))
    BY <1>2 DEF Rest
  <2> QED BY <1>2, <2>1, CountsOfRest DEF InRest
<1>3. CASE where \notin {"clear", "collect"}
  <2>1. Rest(where, batch, n) = batch
    BY <1>3 DEF Rest
  <2> QED BY <1>3, <2>1, CountsOfBatch DEF InRest
<1> QED BY <1>1, <1>2, <1>3

(* A step of one VM changes what this VM holds, and the sum by as much.    *)
LEMMA HeldChange ==
  ASSUME CollectTypeInv, CollectTypeInv', NEW u \in Urls,
         NEW v \in VMs,
         \A w \in VMs : w # v => /\ pc'[w] = pc[w] /\ urls'[w] = urls[w]
                                 /\ next'[w] = next[w]
  PROVE  /\ HeldByAll(u) \in Nat /\ HeldByAll(u)' \in Nat
         /\ InRest(pc[v], urls[v], next[v], u) \in Nat
         /\ InRest(pc'[v], urls'[v], next'[v], u) \in Nat
         /\ HeldByAll(u)' + InRest(pc[v], urls[v], next[v], u)
              = HeldByAll(u) + InRest(pc'[v], urls'[v], next'[v], u)
<1>1. Held(u) \in [VMs -> Nat] /\ Held(u)' \in [VMs -> Nat]
  <2>1. Held(u) \in [VMs -> Nat]
    BY HeldIsFunction
  <2>2. ASSUME NEW w \in VMs
        PROVE  Counts(Uncollected(w)')[u] \in Nat
    <3>1. Uncollected(w)' \in Seq(Urls)
      BY DEF CollectTypeInv, CollectTypeOK, Uncollected
    <3> QED BY <3>1, CountsIsTally DEF Tally
  <2> QED BY <2>1, <2>2 DEF Held
<1>2. \A w \in VMs : w # v => Held(u)[w] = Held(u)'[w]
  BY DEF Held, Uncollected
<1>3. IsFiniteSet(VMs)
  BY CollectorAssumption
<1> DEFINE f == Held(u)
           g == Held(u)'
<1>4. /\ SumFunction(f) \in Nat /\ SumFunction(g) \in Nat
      /\ SumFunction(g) + f[v] = SumFunction(f) + g[v]
  <2>1. f \in [VMs -> Nat] /\ g \in [VMs -> Nat] /\ \A w \in VMs : w # v => f[w] = g[w]
    BY <1>1, <1>2
  <2> HIDE DEF f, g
  <2> QED BY <1>3, <2>1, SumChange
<1>5. f[v] = InRest(pc[v], urls[v], next[v], u)
  <2>1. /\ urls[v] \in Seq(Urls) /\ next[v] \in Nat \ {0}
        /\ pc[v] = "collect" => next[v] <= Len(urls[v]) + 1
    BY DEF CollectTypeInv, CollectTypeOK, BatchInv
  <2>2. f[v] = Counts(Rest(pc[v], urls[v], next[v]))[u]
    BY DEF Held, Uncollected, Rest
  <2> QED BY <2>1, <2>2, RestCounts
<1>6. g[v] = InRest(pc'[v], urls'[v], next'[v], u)
  <2>1. /\ urls'[v] \in Seq(Urls) /\ next'[v] \in Nat \ {0}
        /\ pc'[v] = "collect" => next'[v] <= Len(urls'[v]) + 1
    BY DEF CollectTypeInv, CollectTypeOK, BatchInv
  <2>2. g[v] = Counts(Rest(pc'[v], urls'[v], next'[v]))[u]
    BY DEF Held, Uncollected, Rest
  <2> QED BY <2>1, <2>2, RestCounts
<1>7. f[v] \in Nat /\ g[v] \in Nat
  BY <1>1
<1> QED BY <1>4, <1>5, <1>6, <1>7 DEF HeldByAll

(* The step of one VM moves what it moves from one place to another.       *)
LEMMA LedgerStep ==
  ASSUME CollectTypeInv, CollectTypeInv',
         EveryVisitOnce, [CollectNext]_collectVars, NEW u \in Urls
  PROVE  visits'[u] = collection'[u] + lost'[u] + HeldByAll(u)'
<1> USE DEF Go
<1> DEFINE In(v) == InRest(pc[v], urls[v], next[v], u)
           InNow(v) == InRest(pc'[v], urls'[v], next'[v], u)
<1>0. /\ visits \in [Urls -> Nat] /\ collection \in [Urls -> Nat] /\ lost \in [Urls -> Nat]
      /\ visits[u] = collection[u] + lost[u] + HeldByAll(u)
      /\ urls \in [VMs -> Seq(Urls)] /\ \A v \in VMs : Len(urls[v]) \in Nat
      /\ DOMAIN pc = VMs /\ DOMAIN next = VMs
      /\ \A v \in VMs : next[v] \in Nat \ {0}
  <2>1. visits[u] = collection[u] + lost[u] + HeldByAll(u)
    BY Zenon DEF EveryVisitOnce, HeldByAll, Held
  <2>2. /\ visits \in Tally /\ collection \in Tally /\ lost \in Tally
        /\ urls \in [VMs -> Seq(Urls)] /\ DOMAIN pc = VMs
        /\ next \in [VMs -> 1..(MaxLocalUrls + 1)]
    BY DEF CollectTypeInv, CollectTypeOK
  <2>3. \A v \in VMs : Len(urls[v]) \in Nat
    BY <2>2
  <2>4. DOMAIN next = VMs /\ \A v \in VMs : next[v] \in Nat \ {0}
    BY <2>2
  <2> QED BY <2>1, <2>2, <2>3, <2>4 DEF Tally
(* It is enough to look at the VM that takes the step.                     *)
<1>1. ASSUME NEW v \in VMs,
             \A w \in VMs : w # v => /\ pc'[w] = pc[w] /\ urls'[w] = urls[w]
                                     /\ next'[w] = next[w],
             NEW more \in Nat, visits'[u] = visits[u] + more,
             NEW stored \in Nat, collection'[u] = collection[u] + stored,
             NEW gone \in Nat, lost'[u] = lost[u] + gone,
             In(v) + more = InNow(v) + stored + gone
      PROVE  visits'[u] = collection'[u] + lost'[u] + HeldByAll(u)'
  <2>1. /\ HeldByAll(u) \in Nat /\ HeldByAll(u)' \in Nat
        /\ In(v) \in Nat /\ InNow(v) \in Nat
        /\ HeldByAll(u)' + In(v) = HeldByAll(u) + InNow(v)
    BY <1>1, HeldChange
  <2>2. visits[u] \in Nat /\ collection[u] \in Nat /\ lost[u] \in Nat
    BY <1>0
  <2> HIDE DEF In, InNow
  <2>3. visits[u] = collection[u] + lost[u] + HeldByAll(u)
    BY <1>0
  <2>4. HeldByAll(u)' = HeldByAll(u) + (InNow(v) - In(v))
    BY <2>1
  <2>5. InNow(v) - In(v) = more - stored - gone
    <3>1. In(v) + more = InNow(v) + stored + gone
      BY ONLY <1>1, Zenon
    <3>2. In(v) \in Nat /\ InNow(v) \in Nat
      BY <2>1
    <3>3. more \in Nat /\ stored \in Nat /\ gone \in Nat
      OBVIOUS
    <3> QED BY ONLY <3>1, <3>2, <3>3
  <2>6. visits[u] + more = (collection[u] + stored) + (lost[u] + gone) + HeldByAll(u)'
    BY <1>1, <2>1, <2>2, <2>3, <2>4, <2>5
  <2> QED BY <1>1, <2>6
<1>2. 0 \in Nat /\ 1 \in Nat
  OBVIOUS
<1>3. ASSUME NEW v \in VMs, NEW x \in Urls, Visit(v, x)
      PROVE  visits'[u] = collection'[u] + lost'[u] + HeldByAll(u)'
  <2> DEFINE one == IF x = u THEN 1 ELSE 0
             L == Len(urls[v])
  <2>1. /\ pc[v] = "waiting" /\ pc'[v] \in {"lock", "respond"}
        /\ \A w \in VMs : w # v => /\ pc'[w] = pc[w] /\ urls'[w] = urls[w]
                                   /\ next'[w] = next[w]
        /\ UNCHANGED <<collection, lost>> /\ urls'[v] = Append(urls[v], x)
    BY <1>0, <1>3 DEF Visit
  <2>2. visits'[u] = visits[u] + one
    BY <1>0, <1>3, IncrementIsTally DEF Visit, Tally
  <2>3. /\ Len(urls'[v]) = L + 1 /\ urls'[v][L + 1] = x
        /\ \A i \in 1..L : urls'[v][i] = urls[v][i]
    BY <1>0, <2>1
  <2>4. /\ In(v) = Occurrences(urls[v], 1, L, u)
        /\ InNow(v) = Occurrences(urls'[v], 1, L + 1, u)
    BY <2>1, <2>3 DEF InRest
  <2>5. Occurrences(urls'[v], 1, L + 1, u) = Occurrences(urls'[v], 1, L, u) + one
    <3>1. L \in Nat /\ 1 <= L + 1
      BY <1>0
    <3> DEFINE b == urls'[v]
    <3>2. b[L + 1] = x
      BY <2>3
    <3> HIDE DEF L, b
    <3>3. Occurrences(b, 1, L + 1, u)
            = Occurrences(b, 1, L, u) + (IF b[L + 1] = u THEN 1 ELSE 0)
      BY <1>2, <3>1, OneMoreOccurrence
    <3> QED BY <3>2, <3>3 DEF b
  <2>6. Occurrences(urls'[v], 1, L, u) = Occurrences(urls[v], 1, L, u)
    <3>1. L \in Nat
      BY <1>0
    <3> DEFINE b == urls[v]
               bNow == urls'[v]
    <3>2. \A i \in 1..L : bNow[i] = b[i]
      BY <2>3
    <3> HIDE DEF L, b, bNow
    <3>3. Occurrences(bNow, 1, L, u) = Occurrences(b, 1, L, u)
      BY <1>2, <3>1, <3>2, SameOccurrences
    <3> QED BY <3>3 DEF b, bNow
  <2>7. In(v) \in Nat /\ one \in Nat
    <3>1. L \in Nat
      BY <1>0
    <3> HIDE DEF L
    <3> QED BY <1>2, <2>4, <3>1, OccurrencesFinite
  <2>8. In(v) + one = InNow(v) + 0 + 0
    <3> HIDE DEF In, InNow
    <3> QED BY <2>4, <2>5, <2>6, <2>7
  <2>9. collection'[u] = collection[u] + 0 /\ lost'[u] = lost[u] + 0
    BY <1>0, <2>1
  <2> HIDE DEF In, InNow, one
  <2> QED BY <1>1, <1>2, <2>1, <2>2, <2>7, <2>8, <2>9
<1>4. ASSUME NEW v \in VMs, CollectOne(v)
      PROVE  visits'[u] = collection'[u] + lost'[u] + HeldByAll(u)'
  <2> DEFINE n == next[v]
             L == Len(urls[v])
             x == urls[v][n]
             one == IF x = u THEN 1 ELSE 0
  <2>1. /\ pc[v] = "collect" /\ pc' = pc /\ urls' = urls /\ n <= L /\ n \in Nat \ {0}
        /\ \A w \in VMs : w # v => next'[w] = next[w]
        /\ next'[v] = n + 1 /\ UNCHANGED <<visits, lost>> /\ L \in Nat
        /\ x \in Urls
    BY <1>0, <1>4 DEF CollectOne
  <2>2. collection'[u] = collection[u] + one
    BY <1>0, <1>4, <2>1 DEF CollectOne
  <2>3. In(v) = Occurrences(urls[v], n, L, u) /\ InNow(v) = Occurrences(urls[v], n + 1, L, u)
    BY <2>1 DEF InRest
  <2>4. /\ Occurrences(urls[v], n, L, u) = Occurrences(urls[v], n + 1, L, u) + one
        /\ Occurrences(urls[v], n + 1, L, u) \in Nat
    <3>1. n \in Nat /\ n + 1 \in Nat /\ L \in Nat /\ n <= L
      BY <2>1
    <3> HIDE DEF n, L
    <3> QED BY <3>1, OneFewerOccurrence, OccurrencesFinite
  <2>5. one \in Nat
    OBVIOUS
  <2>6. In(v) + 0 = InNow(v) + one + 0
    <3> HIDE DEF In, InNow, one
    <3> QED BY <2>3, <2>4, <2>5
  <2>7. visits'[u] = visits[u] + 0 /\ lost'[u] = lost[u] + 0
    BY <1>0, <2>1
  <2> HIDE DEF In, InNow, one, n, L
  <2> QED BY <1>1, <1>2, <2>1, <2>2, <2>5, <2>6, <2>7
<1>5. ASSUME NEW v \in VMs, CollectTerminate(v)
      PROVE  visits'[u] = collection'[u] + lost'[u] + HeldByAll(u)'
  <2> DEFINE gone == Counts(Uncollected(v))[u]
  <2>1. /\ pc'[v] = "waiting" /\ urls'[v] = <<>>
        /\ \A w \in VMs : w # v => pc'[w] = pc[w] /\ urls'[w] = urls[w]
        /\ UNCHANGED <<next, visits, collection>>
    BY <1>0, <1>5 DEF CollectTerminate
  <2>2. lost'[u] = lost[u] + gone /\ gone \in Nat
    <3>1. Counts(Uncollected(v)) \in Tally /\ lost \in Tally
      BY <1>0, UncollectedIsBatch, CountsIsTally DEF Tally
    <3>2. lost' = Plus(lost, Counts(Uncollected(v)))
      BY <1>5 DEF CollectTerminate
    <3>3. gone \in Nat
      BY <3>1 DEF Tally
    <3> QED BY <3>1, <3>2, <3>3, PlusIsTally
  <2>3. In(v) = gone
    <3>1. /\ urls[v] \in Seq(Urls) /\ next[v] \in Nat \ {0}
          /\ pc[v] = "collect" => next[v] <= Len(urls[v]) + 1
      BY <1>0 DEF CollectTypeInv, BatchInv
    <3>2. Uncollected(v) = Rest(pc[v], urls[v], next[v])
      BY DEF Uncollected, Rest
    <3> QED BY <3>1, <3>2, RestCounts
  <2>4. InNow(v) = 0
    <3>1. InNow(v) = Occurrences(<<>>, 1, 0, u)
      BY <2>1 DEF InRest
    <3> QED BY <1>2, <3>1, NoOccurrences
  <2>5. In(v) + 0 = InNow(v) + 0 + gone
    <3> HIDE DEF In, InNow, gone
    <3> QED BY <2>2, <2>3, <2>4
  <2>6. visits'[u] = visits[u] + 0 /\ collection'[u] = collection[u] + 0
    BY <1>0, <2>1
  <2> HIDE DEF In, InNow, gone
  <2> QED BY <1>1, <1>2, <2>1, <2>2, <2>5, <2>6
(* The other steps change nothing of what a VM holds.                      *)
<1>6. ASSUME NEW v \in VMs, InNow(v) = In(v), UNCHANGED <<visits, collection, lost>>,
             \A w \in VMs : w # v => /\ pc'[w] = pc[w] /\ urls'[w] = urls[w]
                                     /\ next'[w] = next[w]
      PROVE  visits'[u] = collection'[u] + lost'[u] + HeldByAll(u)'
  <2>1. In(v) \in Nat
    BY <1>6, HeldChange
  <2>2. In(v) + 0 = InNow(v) + 0 + 0
    <3> HIDE DEF In, InNow
    <3> QED BY <1>6, <2>1
  <2>3. /\ visits'[u] = visits[u] + 0 /\ collection'[u] = collection[u] + 0
        /\ lost'[u] = lost[u] + 0
    BY <1>0, <1>6
  <2> HIDE DEF In, InNow
  <2> QED BY <1>1, <1>2, <1>6, <2>2, <2>3
<1>7. ASSUME NEW v \in VMs, UnlockCollect(v)
      PROVE  visits'[u] = collection'[u] + lost'[u] + HeldByAll(u)'
  <2>1. /\ pc[v] = "collect" /\ pc'[v] = "clear" /\ next[v] > Len(urls[v])
        /\ \A w \in VMs : w # v => pc'[w] = pc[w]
        /\ UNCHANGED <<urls, next, visits, collection, lost>>
    BY <1>0, <1>7 DEF UnlockCollect
  <2>2. In(v) = 0
    <3>1. Occurrences(urls[v], next[v], Len(urls[v]), u) = 0
      BY <1>0, <2>1, NoOccurrences
    <3> QED BY <2>1, <3>1 DEF InRest
  <2>3. InNow(v) = 0
    BY <2>1 DEF InRest
  <2> HIDE DEF In, InNow
  <2> QED BY <1>6, <2>1, <2>2, <2>3
<1>8. ASSUME NEW v \in VMs, ClearUrls(v)
      PROVE  visits'[u] = collection'[u] + lost'[u] + HeldByAll(u)'
  <2>1. /\ pc[v] = "clear" /\ pc'[v] = "respond" /\ urls'[v] = <<>>
        /\ \A w \in VMs : w # v => pc'[w] = pc[w] /\ urls'[w] = urls[w]
        /\ UNCHANGED <<next, visits, collection, lost>>
    BY <1>0, <1>8 DEF ClearUrls
  <2>2. In(v) = 0
    BY <2>1 DEF InRest
  <2>3. InNow(v) = 0
    <3>1. InNow(v) = Occurrences(<<>>, 1, 0, u)
      BY <2>1 DEF InRest
    <3> QED BY <1>2, <3>1, NoOccurrences
  <2> HIDE DEF In, InNow
  <2> QED BY <1>6, <2>1, <2>2, <2>3
<1>9. ASSUME NEW v \in VMs, LockCollect(v)
      PROVE  visits'[u] = collection'[u] + lost'[u] + HeldByAll(u)'
  <2>1. /\ pc[v] = "lock" /\ pc'[v] = "collect" /\ next'[v] = 1
        /\ \A w \in VMs : w # v => pc'[w] = pc[w] /\ next'[w] = next[w]
        /\ UNCHANGED <<urls, visits, collection, lost>>
    BY <1>0, <1>9 DEF LockCollect
  <2>2. InNow(v) = In(v)
    BY <2>1 DEF InRest
  <2> HIDE DEF In, InNow
  <2> QED BY <1>6, <2>1, <2>2
<1>10. ASSUME NEW v \in VMs,
              AskReport(v) \/ LockReport(v) \/ CopyReport(v)
                \/ CollectRespond(v)
       PROVE  visits'[u] = collection'[u] + lost'[u] + HeldByAll(u)'
  <2>1. /\ pc[v] \notin {"clear", "collect"} /\ pc'[v] \notin {"clear", "collect"}
        /\ \A w \in VMs : w # v => pc'[w] = pc[w]
        /\ UNCHANGED <<urls, next, visits, collection, lost>>
    BY <1>0, <1>10 DEF AskReport, LockReport, CopyReport,
                       CollectRespond
  <2>2. InNow(v) = In(v)
    BY <2>1 DEF InRest
  <2> HIDE DEF In, InNow
  <2> QED BY <1>6, <2>1, <2>2
<1>11. CASE UNCHANGED collectVars
  <2>1. HeldByAll(u)' = HeldByAll(u)
    BY <1>11 DEF collectVars, HeldByAll, Held, Uncollected
  <2> QED BY <1>0, <1>11, <2>1 DEF collectVars
<1> QED BY <1>3, <1>4, <1>5, <1>7, <1>8, <1>9, <1>10, <1>11 DEF CollectNext

(* For any number of VMs and any batches, every request for a URL is in    *)
(* storage, in one batch or lost with a terminated request, and in no two  *)
(* of these (on_get, storage_collect).                                     *)
THEOREM EveryVisitIsSomewhereOnce == CollectSpec => []EveryVisitOnce
<1>1. CollectInit => EveryVisitOnce
  <2> SUFFICES ASSUME CollectInit, NEW u \in Urls
               PROVE  visits[u] = collection[u] + lost[u] + HeldByAll(u)
    BY DEF EveryVisitOnce, HeldByAll, Held
  <2>1. \A v \in VMs : Counts(Uncollected(v))[u] = 0
    <3>1. \A v \in VMs : Uncollected(v) = <<>>
      BY DEF CollectInit, Uncollected
    <3>2. Counts(<<>>)[u] = Occurrences(<<>>, 1, Len(<<>>), u)
      BY CountsOfBatch
    <3>3. Len(<<>>) = 0 /\ 1 \in Nat /\ 0 \in Nat /\ 0 < 1
      OBVIOUS
    <3>4. Occurrences(<<>>, 1, 0, u) = 0
      BY <3>3, NoOccurrences
    <3> QED BY <3>1, <3>2, <3>3, <3>4
  <2>2. Held(u) = [v \in VMs |-> 0]
    BY <2>1 DEF Held
  <2>3. IsFiniteSet(VMs)
    BY CollectorAssumption
  <2>4. HeldByAll(u) = 0
    BY <2>2, <2>3, SumOfZeros DEF HeldByAll
  <2> QED BY <2>4 DEF CollectInit, Zero
<1>2. CollectTypeInv /\ CollectTypeInv' /\ EveryVisitOnce
        /\ [CollectNext]_collectVars => EveryVisitOnce'
  BY LedgerStep DEF EveryVisitOnce, HeldByAll, Held
<1>3. CollectSpec => []CollectTypeInv
  BY CollectTypeInvariant
<1> QED BY <1>1, <1>2, <1>3, PTL DEF CollectSpec

===============================================================================
