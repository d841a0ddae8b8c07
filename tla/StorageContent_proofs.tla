-------------------------- MODULE StorageContent_proofs ------------------------
(***************************************************************************)
(* c/storage.c for any number of VMs and bodies of any length: its steps   *)
(* are the host's, the task's own fetch finds nothing as long as the task  *)
(* waits for it, and the program implements the register.                  *)
(***************************************************************************)
EXTENDS StorageContent, Compute_proofs

USE DEF Move

(* Every step of the program is a step of the host, or none of it.         *)
LEMMA NextIsComputeStep == [Next]_vars => [ComputeStep]_computeVars
<1> SUFFICES ASSUME [Next]_vars
             PROVE  [ComputeStep]_computeVars
  OBVIOUS
<1> USE ContentAssumption
<1>1. ASSUME NEW v \in VMs, NEW r \in Requests, TakeRequest(v, r)
      PROVE  ComputeStep
  BY <1>1 DEF TakeRequest, ComputeStep
<1>2. ASSUME NEW v \in VMs, TakeFetch(v)
      PROVE  ComputeStep
  BY <1>2 DEF TakeFetch, ComputeStep
<1>3. ASSUME NEW v \in VMs, Handler(v)
      PROVE  ComputeStep
  BY <1>3 DEF Handler, ComputeStep
<1>4. ASSUME NEW v \in VMs, StorageFunction(v)
      PROVE  ComputeStep
  BY <1>4 DEF StorageFunction, GetContent, ModifyContent, ComputeStep, Agents
<1>5. ASSUME NEW v \in VMs, Answer(v)
      PROVE  ComputeStep
  BY <1>5 DEF Answer, ComputeStep
<1>6. ASSUME NEW v \in VMs, Expire(v)
      PROVE  ComputeStep
  BY <1>6 DEF Expire, ComputeStep
<1>7. ASSUME NEW v \in VMs, GenericError(v)
      PROVE  ComputeStep
  BY <1>7 DEF GenericError, ComputeStep
<1>8. ASSUME NEW t \in {TestTask, UpdateTask}, ScheduleTask(t)
      PROVE  ComputeStep
  BY <1>8 DEF ScheduleTask, ComputeStep
<1>9. ASSUME NEW a \in Agents, Enter(a)
      PROVE  ComputeStep
  BY <1>9 DEF Enter, ComputeStep
<1>10. CASE TestFetches \/ FetchElsewhere \/ FetchFails
  BY <1>10 DEF TestFetches, FetchElsewhere, FetchFails, computeVars
<1>11. CASE TestReturns
  BY <1>11 DEF TestReturns, ComputeStep, Agents
<1>12. CASE LiveUpdate
  BY <1>12 DEF LiveUpdate, HandOver, ComputeStep, Agents
<1>13. CASE UNCHANGED vars
  BY <1>13 DEF vars
<1> QED BY <1>1, <1>2, <1>3, <1>4, <1>5, <1>6, <1>7, <1>8, <1>9, <1>10, <1>11, <1>12, <1>13
        DEF Next

(* The program runs on the host: handlers, storage functions, the task and *)
(* updates use it only as kvm_api.h allows (RunsOnHost).                   *)
THEOREM ProgramRunsOnHost == Spec => RunsOnHost
<1>1. Init => ComputeInit
  BY DEF Init
<1> QED BY <1>1, NextIsComputeStep, PTL DEF Spec, RunsOnHost, ComputeSpec

(* Storage has one user in every run of the program.                       *)
LEMMA ContentStorageIsExclusive == Spec => []ExclusiveStorage
  BY ProgramRunsOnHost, StorageIsExclusive, PTL DEF RunsOnHost

-----------------------------------------------------------------------------

LEMMA BodiesAreSequences ==
  \A b \in Bodies : b \in Seq(Bytes) /\ Len(b) <= MaxLen
  BY ContentAssumption DEF Bodies, BytesOfLength

LEMMA RequestTypes ==
  /\ Get \in Requests
  /\ \A r \in Requests : r.method # "GET" => r.body \in Bodies
  BY DEF Requests, Get

LEMMA ContentsAreSequences == Contents = {s \in Seq(Bytes) : Len(s) <= MaxAlloc}
<1>1. ASSUME NEW s \in Contents
      PROVE  s \in Seq(Bytes) /\ Len(s) <= MaxAlloc
  BY ContentAssumption DEF Contents, BytesOfLength
<1>2. ASSUME NEW s \in Seq(Bytes), Len(s) <= MaxAlloc
      PROVE  s \in Contents
  <2>1. s \in [1..Len(s) -> Bytes] /\ Len(s) \in 0..MaxAlloc
    BY <1>2, ContentAssumption
  <2> QED BY <2>1 DEF Contents, BytesOfLength
<1> QED BY <1>1, <1>2

LEMMA HelloIsContent == Hello \in Contents
<1>1. Hello \in Seq(Bytes) /\ Len(Hello) = 3
  BY DEF Hello, Bytes, Other, NUL
<1> QED BY <1>1, ContentsAreSequences, ContentAssumption

(* The string that strlen finds is a content again.                        *)
LEMMA StringsAreContents ==
  ASSUME NEW bytes \in Contents, NEW string \in Strings(bytes)
  PROVE  string \in Contents
<1> DEFINE nuls == {i \in 1..Len(bytes) : bytes[i] = NUL}
<1>1. bytes \in Seq(Bytes) /\ Len(bytes) <= MaxAlloc
  BY ContentsAreSequences
<1>2. CASE string \in {b \in {Append(bytes, Other)} : Len(bytes) < MaxAlloc}
  <2>1. string = Append(bytes, Other) /\ Len(bytes) < MaxAlloc
    BY <1>2
  <2>2. string \in Seq(Bytes) /\ Len(string) = Len(bytes) + 1
    BY <1>1, <2>1, AppendProperties DEF Bytes
  <2> QED BY <2>1, <2>2, <1>1, ContentAssumption, ContentsAreSequences
<1>3. ASSUME NEW i \in nuls, string = SubSeq(bytes, 1, i - 1)
      PROVE  string \in Contents
  <2>1. string \in Seq(Bytes) /\ Len(string) = i - 1
    BY <1>1, <1>3, SubSeqProperties
  <2> QED BY <2>1, <1>1, ContentAssumption, ContentsAreSequences
<1>4. CASE string = bytes
  BY <1>4
<1> QED BY <1>2, <1>3, <1>4 DEF Strings

(* Every variable of the program and the host keeps its type, cont_len     *)
(* never exceeds the allocation (modify_content), nor the one the          *)
(* successor is left with (on_live_update, on_resume_update), which is one *)
(* that Init covers.                                                       *)
THEOREM ContentTypeCorrect == Spec => []TypeOK
<1> DEFINE Typed ==
      /\ request \in [VMs -> Requests]
      /\ \A v \in VMs : reply[v] = NoReply \/ reply[v] \in Seq(Bytes)
      /\ DOMAIN reply = VMs
      /\ cont \in Contents
      /\ cont_len \in 0..Len(cont)
      /\ fetch \in {"none", "sent", "done"} \cup VMs
      /\ heir # NoHeir => /\ heir.cont \in Contents
                          /\ heir.cont_len \in 0..Len(heir.cont)
<1>1. Init => Typed
  <2>1. \A s \in {Hello} \cup Contents : s \in Contents /\ 0 \in 0..Len(s)
    BY HelloIsContent, ContentsAreSequences
  <2> QED BY <2>1, RequestTypes DEF Init
<1>2. Typed /\ [Next]_vars => Typed'
  <2> SUFFICES ASSUME Typed, [Next]_vars
               PROVE  Typed'
    OBVIOUS
  <2>1. ASSUME NEW v \in VMs, NEW r \in Requests, TakeRequest(v, r)
        PROVE  Typed'
    BY <2>1 DEF TakeRequest
  <2>2. ASSUME NEW v \in VMs, TakeFetch(v)
        PROVE  Typed'
    BY <2>2, RequestTypes DEF TakeFetch
  <2>3. ASSUME NEW v \in VMs, Handler(v) \/ GenericError(v)
        PROVE  Typed'
    BY <2>3 DEF Handler, GenericError, FetchReturns, contentVars
  <2>4. ASSUME NEW v \in VMs, ModifyContent(v), request[v].method # "GET"
        PROVE  Typed'
    <3> DEFINE body == request[v].body
    <3>1. body \in Seq(Bytes) /\ Len(body) <= MaxLen
      BY <2>4, RequestTypes, BodiesAreSequences
    <3> HIDE DEF body
    <3>2. PICK junk \in Bytes : cont' = Append(body, junk)
      BY <2>4 DEF ModifyContent, body
    <3>3. cont' \in Seq(Bytes) /\ Len(cont') = Len(body) + 1
      BY <3>1, <3>2, AppendProperties
    <3>6. cont' \in Contents
      BY <3>1, <3>3, ContentAssumption, ContentsAreSequences
    <3>4. cont_len' \in 0..Len(cont')
      BY <2>4, <3>1, <3>3 DEF ModifyContent, body
    <3>5. <<>> \in Seq(Bytes)
      OBVIOUS
    <3> QED BY <2>4, <3>4, <3>5, <3>6 DEF ModifyContent
  <2>5. ASSUME NEW v \in VMs, GetContent(v)
        PROVE  Typed'
    <3>1. SubSeq(cont, 1, cont_len) \in Seq(Bytes)
      BY ContentsAreSequences, SubSeqProperties
    <3> QED BY <2>5, <3>1 DEF GetContent
  <2>6. ASSUME NEW v \in VMs, Answer(v) \/ Expire(v)
        PROVE  Typed'
    BY <2>6, RequestTypes DEF Answer, Expire, FetchReturns
  <2>7. CASE TestFetches \/ FetchElsewhere \/ FetchFails \/ TestReturns
    BY <2>7 DEF TestFetches, FetchElsewhere, FetchFails, TestReturns
  <2>8. CASE LiveUpdate
    <3>1. PICK string \in Strings(cont) : HandOver(string, 0)
      BY <2>8 DEF LiveUpdate
    <3>2. string \in Contents /\ 0 \in 0..Len(string)
      BY StringsAreContents, ContentsAreSequences
    <3>3. heir'.cont = string /\ heir'.cont_len = 0
      BY <3>1 DEF HandOver
    <3> QED BY <3>1, <3>2, <3>3 DEF HandOver
  <2>9. CASE UNCHANGED contentVars
    BY <2>9 DEF contentVars
  <2> QED BY <2>1, <2>2, <2>3, <2>4, <2>5, <2>6, <2>7, <2>8, <2>9
          DEF Next, StorageFunction, ScheduleTask, Enter, vars
<1> HIDE DEF Typed
<1>3. ComputeTypeOK /\ Typed => TypeOK
  BY DEF TypeOK, Typed
<1> QED BY <1>1, <1>2, <1>3, ProgramRunsOnHost, ComputeTypeCorrect, PTL DEF Spec, RunsOnHost

-----------------------------------------------------------------------------

(* A VM has an answer from storage only while its handler runs: not before *)
(* the call, in it, or after the request; and outside a request it has     *)
(* none to serve.                                                          *)
RepliesInHand ==
  \A v \in VMs :
    /\ reply[v] # NoReply => phase[v] = "handling"
    /\ phase[v] \in {"waiting", "failing"} => request[v] = Get

LEMMA RepliesAreInHand == Spec => []RepliesInHand
<1> USE ComputeAssumption, ContentAssumption
<1>1. Init => RepliesInHand
  BY DEF Init, RepliesInHand, ComputeInit
<1>2. TypeOK /\ ExclusiveStorage /\ RepliesInHand /\ [Next]_vars => RepliesInHand'
  <2> SUFFICES ASSUME TypeOK, ExclusiveStorage, RepliesInHand, [Next]_vars
               PROVE  RepliesInHand'
    OBVIOUS
  <2> USE DEF TypeOK, ComputeTypeOK, RepliesInHand
  <2>1. ASSUME NEW v \in VMs, NEW r \in Requests, TakeRequest(v, r) \/ TakeFetch(v)
        PROVE  RepliesInHand'
    BY <2>1 DEF TakeRequest, TakeFetch, Receive, Move
  <2>2. ASSUME NEW v \in VMs, Handler(v)
        PROVE  RepliesInHand'
    BY <2>2 DEF Handler, CallStorage, Move, contentVars
  <2>3. ASSUME NEW v \in VMs, ModifyContent(v) \/ GetContent(v)
        PROVE  RepliesInHand'
    BY <2>3 DEF ModifyContent, GetContent, LeaveStorage
  <2>4. ASSUME NEW v \in VMs, Answer(v) \/ Expire(v) \/ GenericError(v)
        PROVE  RepliesInHand'
    BY <2>4, RequestTypes DEF Answer, Expire, GenericError, Respond, TimeOut, RespondError, Move
  <2>5. ASSUME NEW t \in {TestTask, UpdateTask}, ScheduleTask(t)
        PROVE  RepliesInHand'
    BY <2>5 DEF ScheduleTask, Schedule, contentVars
  <2>6. ASSUME NEW a \in Agents, Enter(a)
        PROVE  RepliesInHand'
    <3>1. queue[1] = a /\ Len(queue) >= 1
      BY <2>6, HeadTailProperties DEF Enter, EnterStorage
    <3>2. Queued(a)
      BY <3>1 DEF Queued
    <3>3. \A v \in VMs : v = a => phase[v] = "queued"
      BY <3>2 DEF ExclusiveStorage
    <3> QED BY <2>6, <3>3 DEF Enter, EnterStorage, contentVars
  <2>7. CASE TestFetches \/ FetchElsewhere \/ FetchFails
    BY <2>7 DEF TestFetches, FetchElsewhere, FetchFails, computeVars
  <2>8. CASE TestReturns \/ LiveUpdate
    BY <2>8 DEF TestReturns, LiveUpdate, HandOver, LeaveStorage
  <2>9. CASE UNCHANGED vars
    BY <2>9 DEF vars, computeVars, contentVars
  <2> QED BY <2>1, <2>2, <2>3, <2>4, <2>5, <2>6, <2>7, <2>8, <2>9 DEF Next, StorageFunction
<1> QED BY <1>1, <1>2, ContentTypeCorrect, ContentStorageIsExclusive, PTL DEF Spec

(* The task holds storage as long as its fetch is under way, and until the *)
(* task has returned.                                                      *)
TaskFetchesInStorage ==
  /\ fetch # "none" => holder = TestTask
  /\ SelfFetchGetsNothing

(* The request that `test' sends to its own program does not read the      *)
(* content as long as the task waits for it (SelfFetchGetsNothing),        *)
(* whoever else is queued, and also when earlier fetches were given up     *)
(* while a VM served them.                                                 *)
THEOREM SelfFetchReadsNothing == Spec => []SelfFetchGetsNothing
<1> USE ComputeAssumption, ContentAssumption
<1>1. Init => TaskFetchesInStorage
  BY DEF Init, ComputeInit, TaskFetchesInStorage, SelfFetchGetsNothing
<1>2. TypeOK /\ RepliesInHand /\ TaskFetchesInStorage /\ [Next]_vars => TaskFetchesInStorage'
  <2> SUFFICES ASSUME TypeOK, RepliesInHand, TaskFetchesInStorage, [Next]_vars
               PROVE  TaskFetchesInStorage'
    OBVIOUS
  <2> USE DEF TypeOK, ComputeTypeOK, TaskFetchesInStorage, SelfFetchGetsNothing
  <2>1. ASSUME NEW v \in VMs, NEW r \in Requests, TakeRequest(v, r)
        PROVE  TaskFetchesInStorage'
    BY <2>1 DEF TakeRequest, Receive
  <2>2. ASSUME NEW v \in VMs, TakeFetch(v)
        PROVE  TaskFetchesInStorage'
    BY <2>2 DEF TakeFetch, Receive, RepliesInHand
  <2>3. ASSUME NEW v \in VMs, Handler(v)
        PROVE  TaskFetchesInStorage'
    BY <2>3 DEF Handler, CallStorage, contentVars
  <2>4. ASSUME NEW v \in VMs, ModifyContent(v) \/ GetContent(v), holder = v
        PROVE  TaskFetchesInStorage'
    <3>1. holder # TestTask
      BY <2>4
    <3> QED BY <2>4, <3>1 DEF ModifyContent, GetContent, LeaveStorage
  <2>5. ASSUME NEW v \in VMs, Answer(v)
        PROVE  TaskFetchesInStorage'
    BY <2>5 DEF Answer, Respond, FetchReturns
  <2>6. ASSUME NEW v \in VMs, Expire(v)
        PROVE  TaskFetchesInStorage'
    BY <2>6 DEF Expire, TimeOut
  <2>7. ASSUME NEW v \in VMs, GenericError(v)
        PROVE  TaskFetchesInStorage'
    BY <2>7 DEF GenericError, RespondError, FetchReturns
  <2>8. ASSUME NEW t \in {TestTask, UpdateTask}, ScheduleTask(t)
        PROVE  TaskFetchesInStorage'
    BY <2>8 DEF ScheduleTask, Schedule, contentVars
  <2>9. ASSUME NEW a \in Agents, Enter(a)
        PROVE  TaskFetchesInStorage'
    BY <2>9 DEF Enter, EnterStorage, contentVars, Agents
  <2>10. CASE TestFetches \/ FetchElsewhere \/ FetchFails
    BY <2>10 DEF TestFetches, FetchElsewhere, FetchFails, computeVars
  <2>11. CASE TestReturns
    BY <2>11 DEF TestReturns, LeaveStorage
  <2>12. CASE LiveUpdate
    BY <2>12 DEF LiveUpdate, HandOver, LeaveStorage
  <2>13. CASE UNCHANGED vars
    BY <2>13 DEF vars, computeVars, contentVars
  <2> QED BY <2>1, <2>2, <2>3, <2>4, <2>5, <2>6, <2>7, <2>8, <2>9, <2>10, <2>11, <2>12, <2>13
          DEF Next, StorageFunction
<1>3. TaskFetchesInStorage => SelfFetchGetsNothing
  BY DEF TaskFetchesInStorage
<1> QED BY <1>1, <1>2, <1>3, ContentTypeCorrect, RepliesAreInHand, PTL DEF Spec

-----------------------------------------------------------------------------

LEMMA AppendedPart ==
  ASSUME NEW s \in Seq(Bytes), NEW b \in Bytes
  PROVE  SubSeq(Append(s, b), 1, Len(s)) = s
<1> DEFINE a == Append(s, b)
<1>1. /\ a \in Seq(Bytes) /\ Len(a) = Len(s) + 1
      /\ \A i \in 1..Len(s) : a[i] = s[i]
  BY AppendProperties
<1> HIDE DEF a
<1>2. /\ SubSeq(a, 1, Len(s)) \in Seq(Bytes)
      /\ Len(SubSeq(a, 1, Len(s))) = Len(s)
      /\ \A i \in 1..Len(s) : SubSeq(a, 1, Len(s))[i] = a[i]
  BY <1>1, SubSeqProperties
<1>3. SubSeq(a, 1, Len(s)) = s
  BY <1>1, <1>2, SeqEqual
<1> QED BY <1>3 DEF a

(* The program implements the register: a POST is one write, a GET one     *)
(* read of the whole content, everything else, an update included, is      *)
(* invisible (ImplementsRegister).                                         *)
THEOREM ContentIsARegister == Spec => ImplementsRegister
<1> USE DEF Register!Next, Register!registerVars
<1>1. Init => Register!Init
  <2>1. SubSeq(cont, 1, 0) = <<>>
    BY SubSeqEmpty
  <2> QED BY <2>1 DEF Init, Register!Init, Served
<1>2. TypeOK /\ RepliesInHand /\ ExclusiveStorage /\ [Next]_vars
        => [Register!Next]_Register!registerVars
  <2> SUFFICES ASSUME TypeOK, RepliesInHand, ExclusiveStorage, [Next]_vars
               PROVE  [Register!Next]_Register!registerVars
    OBVIOUS
  <2>1. ASSUME NEW v \in VMs, ModifyContent(v), holder = v, request[v].method # "GET"
        PROVE  Register!Write(v)
    <3> DEFINE body == request[v].body
    <3>1. body \in Bodies /\ body \in Seq(Bytes)
      BY <2>1, RequestTypes, BodiesAreSequences DEF TypeOK
    <3>2. PICK junk \in Bytes : cont' = Append(body, junk)
      BY <2>1 DEF ModifyContent
    <3>3. cont_len' = Len(body)
      BY <2>1 DEF ModifyContent
    <3> HIDE DEF body
    <3>4. Served' = body
      BY <3>1, <3>2, <3>3, AppendedPart DEF Served
    <3>5. reply[v] = NoReply
      BY <2>1 DEF ExclusiveStorage, RepliesInHand
    <3>6. request[v].method = "POST"
      BY <2>1, RequestTypes DEF TypeOK, Requests, Get
    <3> QED BY <2>1, <3>4, <3>5, <3>6 DEF ModifyContent, Register!Write, body
  <2>2. ASSUME NEW v \in VMs, GetContent(v), holder = v, request[v].method = "GET"
        PROVE  Register!Read(v)
    <3>1. reply[v] = NoReply
      BY <2>2 DEF ExclusiveStorage, RepliesInHand
    <3> QED BY <2>2, <3>1 DEF GetContent, Register!Read, Served
  <2>3. ASSUME NEW v \in VMs, Answer(v) \/ Expire(v)
        PROVE  Register!Conclude(v)
    BY <2>3 DEF Answer, Expire, Register!Conclude, Served
  <2>4. CASE LiveUpdate
    BY <2>4 DEF LiveUpdate, HandOver, Served
  <2>5. ASSUME NEW v \in VMs, Handler(v) \/ GenericError(v)
        PROVE  UNCHANGED Register!registerVars
    BY <2>5 DEF Handler, GenericError, contentVars, Served
  <2>8. ASSUME NEW v \in VMs, NEW r \in Requests, TakeRequest(v, r)
        PROVE  Register!Ask(v, r)
    BY <2>8 DEF TakeRequest, Receive, RepliesInHand, Register!Ask, Served
  <2>9. ASSUME NEW v \in VMs, TakeFetch(v)
        PROVE  UNCHANGED Register!registerVars
    BY <2>9 DEF TakeFetch, Receive, RepliesInHand, TypeOK, Served
  <2>6. CASE TestFetches \/ FetchElsewhere \/ FetchFails \/ TestReturns
    BY <2>6 DEF TestFetches, FetchElsewhere, FetchFails, TestReturns, Served
  <2>7. CASE UNCHANGED contentVars
    BY <2>7 DEF contentVars, Served
  <2> QED
    <3> USE RequestTypes
    <3> QED BY <2>1, <2>2, <2>3, <2>4, <2>5, <2>6, <2>7, <2>8, <2>9
            DEF Next, StorageFunction, ScheduleTask, Enter, vars
<1> QED BY <1>1, <1>2, ContentTypeCorrect, RepliesAreInHand, ContentStorageIsExclusive, PTL
        DEF Spec, ImplementsRegister, Register!Spec

===============================================================================
