------------------------------- MODULE Chat_proofs ------------------------------
(***************************************************************************)
(* javascript/src for any number of VMs, lines, restarts and any size of   *)
(* the result buffer: all clients of a program see one growing chat, and   *)
(* the state file is a beginning of it unless other programs write to it.  *)
(***************************************************************************)
EXTENDS Chat, Compute_proofs

(* What a VM does with its request.                                        *)
HandlerStep(v) ==
  \/ \E r \in Requests : TakeRequest(v, r)
  \/ Storage(v) \/ Answer(v) \/ Expire(v) \/ ErrorAnswer(v)

(* What the holder of storage does in storage_trampoline.                  *)
StorageStep(v) ==
  \/ GetStorage(v) \/ ParseFails(v) \/ AppendLine(v) \/ OpenFails(v)
  \/ OpenFile(v) \/ WriteFile(v) \/ SetStorageReturns(v)

LEMMA NextByParts ==
  Next <=> \/ \E v \in VMs : HandlerStep(v) \/ StorageStep(v)
           \/ OthersWrite
           \/ ScheduleUpdate
           \/ \E a \in Agents : Enter(a)
           \/ LiveUpdate
           \/ Restart
BY DEF Next, HandlerStep, StorageStep

-----------------------------------------------------------------------------
(* The chat runs on the host of Compute.  A restart is the one step that   *)
(* is not the host's: it begins anew.                                      *)

LEMMA NextIsComputeStep == [Next]_vars => [ComputeStep]_computeVars \/ ComputeInit'
<1> SUFFICES ASSUME [Next]_vars
             PROVE  [ComputeStep]_computeVars \/ ComputeInit'
  OBVIOUS
<1> USE ChatAssumption DEF ComputeStep, Agents
<1>1. ASSUME NEW v \in VMs, HandlerStep(v)
      PROVE  ComputeStep
  BY <1>1 DEF HandlerStep, TakeRequest, Storage, Answer, Expire, ErrorAnswer
<1>2. ASSUME NEW v \in VMs, StorageStep(v)
      PROVE  ComputeStep \/ UNCHANGED computeVars
  BY <1>2 DEF StorageStep, GetStorage, ParseFails, AppendLine, OpenFails, OpenFile,
              WriteFile, SetStorageReturns, Throw, Return
<1>3. ASSUME ScheduleUpdate \/ LiveUpdate
      PROVE  ComputeStep
  BY <1>3 DEF ScheduleUpdate, LiveUpdate, HandOver
<1>4. ASSUME NEW a \in Agents, Enter(a)
      PROVE  ComputeStep
  BY <1>4 DEF Enter
<1>5. ASSUME Restart
      PROVE  ComputeInit'
  BY <1>5 DEF Restart, RestartWith, ComputeInit
<1>6. CASE OthersWrite \/ UNCHANGED vars
  BY <1>6 DEF OthersWrite, vars, computeVars
<1> QED BY <1>1, <1>2, <1>3, <1>4, <1>5, <1>6, NextByParts

LEMMA HostInit == ComputeInit => ComputeTypeOK /\ ExclusiveStorage
<1>1. ComputeInit => ComputeTypeOK
  BY DEF ComputeInit, ComputeTypeOK, Phases
<1>2. ComputeInit => ExclusiveStorage
  BY ComputeAssumption DEF ComputeInit, ExclusiveStorage, Queued
<1> QED BY <1>1, <1>2

(* Storage has one user, restarts or not: a VM executes in it exactly when *)
(* it holds it, and is queued exactly when it is blocked in                *)
(* varnish.storage (kvm_api.h, storage_call).                              *)
LEMMA ChatStorageIsExclusive == Spec => [](ComputeTypeOK /\ ExclusiveStorage)
<1>1. Init => ComputeTypeOK /\ ExclusiveStorage
  BY HostInit DEF Init
<1>2. ComputeInit' => (ComputeTypeOK /\ ExclusiveStorage)'
  BY HostInit, PTL
<1>3. ComputeTypeOK /\ ExclusiveStorage /\ [Next]_vars => (ComputeTypeOK /\ ExclusiveStorage)'
  BY <1>2, NextIsComputeStep, ComputeTypeStep, ExclusiveStep
<1> QED BY <1>1, <1>3, PTL DEF Spec

-----------------------------------------------------------------------------
(* The argument.  While the file is rewritten the holder of storage is a   *)
(* POST whose line is the last one of the chat; a VM has a result only     *)
(* while its handler runs; and the file is the chat again when the rewrite *)
(* is over, unless it failed.                                              *)

Rewriting ==
  stage # "begin" =>
    /\ holder \in VMs /\ request[holder].kind = "post"
    /\ text # <<>> /\ Last(text) = request[holder].line

ResultsInHand == \A v \in VMs : result[v] # NoReply => phase[v] = "handling"

FileInv ==
  file # Foreign =>
    /\ IsPrefix(file, text)
    /\ stage \in {"begin", "return"} /\ ~behind => file = text

ChatInv == ChatTypeOK /\ Rewriting /\ ResultsInHand /\ OneChat /\ FileInv

LEMMA RequestKinds ==
  /\ Page \in Requests /\ Page.kind = "page"
  /\ \A r \in Requests : r.kind = "post" => r.line \in Lines
BY DEF Requests, Page, Get, Garbage, Post

LEMMA StartsAreChats == SeqOf(Lines, MaxStart) \subseteq Seq(Lines)
BY ChatAssumption DEF SeqOf

LEMMA PrefixFacts ==
  ASSUME NEW s \in Seq(Lines)
  PROVE  /\ IsPrefix(<<>>, s) /\ IsPrefix(s, s)
         /\ \A n \in 0..Len(s) : SubSeq(s, 1, n) \in Seq(Lines) /\ IsPrefix(SubSeq(s, 1, n), s)
         /\ SubSeq(s, 1, Len(s)) = s
         /\ \A l \in Lines :
              /\ Append(s, l) \in Seq(Lines) /\ Append(s, l) # <<>>
              /\ Last(Append(s, l)) = l /\ IsPrefix(s, Append(s, l))
              /\ \A t \in Seq(Lines) : IsPrefix(t, s) => IsPrefix(t, Append(s, l))
<1>1. IsPrefix(<<>>, s) /\ IsPrefix(s, s)
  <2>1. IsPrefix(s, s)
    BY PrefixEntries
  <2> DEFINE empty == <<>>
  <2>2. empty \in Seq(Lines) /\ Len(empty) = 0 /\ Len(s) \in Nat
    OBVIOUS
  <2> HIDE DEF empty
  <2>3. Len(empty) <= Len(s) /\ \A i \in 1..Len(empty) : empty[i] = s[i]
    BY <2>2
  <2>4. IsPrefix(empty, s)
    BY <2>2, <2>3, PrefixEntries
  <2> QED BY <2>1, <2>4 DEF empty
<1>2. ASSUME NEW n \in 0..Len(s)
      PROVE  SubSeq(s, 1, n) \in Seq(Lines) /\ IsPrefix(SubSeq(s, 1, n), s)
  <2> DEFINE u == SubSeq(s, 1, n)
  <2>1. u \in Seq(Lines) /\ Len(u) = n /\ \A i \in 1..n : u[i] = s[i]
    BY SubSeqProperties
  <2> HIDE DEF u
  <2>2. IsPrefix(u, s)
    BY <2>1, PrefixEntries
  <2> QED BY <2>1, <2>2 DEF u
<1>3. SubSeq(s, 1, Len(s)) = s
  BY SubSeqProperties, SeqEqual
<1>4. ASSUME NEW l \in Lines
      PROVE  /\ Append(s, l) \in Seq(Lines) /\ Append(s, l) # <<>>
             /\ Last(Append(s, l)) = l /\ IsPrefix(s, Append(s, l))
             /\ \A t \in Seq(Lines) : IsPrefix(t, s) => IsPrefix(t, Append(s, l))
  <2> DEFINE u == Append(s, l)
  <2>1. /\ u \in Seq(Lines) /\ Len(u) = Len(s) + 1 /\ u[Len(u)] = l
        /\ \A i \in 1..Len(s) : u[i] = s[i]
    BY AppendProperties
  <2>2. u # <<>> /\ Last(u) = l
    BY <2>1 DEF Last
  <2> HIDE DEF u
  <2>3. ASSUME NEW t \in Seq(Lines), IsPrefix(t, s)
        PROVE  IsPrefix(t, u)
    <3>1. Len(t) <= Len(s) /\ \A i \in 1..Len(t) : t[i] = s[i]
      BY <2>3, PrefixEntries
    <3>2. Len(t) <= Len(u) /\ \A i \in 1..Len(t) : t[i] = u[i]
      BY <2>1, <3>1
    <3> QED BY <2>1, <3>2, PrefixEntries
  <2> QED BY <2>1, <2>2, <2>3, <1>1 DEF u
<1> QED BY <1>1, <1>2, <1>3, <1>4

LEMMA HandlerKeepsInv ==
  ASSUME ComputeTypeOK, ExclusiveStorage, ChatInv, NEW v \in VMs, HandlerStep(v)
  PROVE  ChatInv' /\ text' = text
<1> USE DEF ChatInv, ChatTypeOK, ComputeTypeOK
<1>1. UNCHANGED <<text, file, stage, behind, restarts, shared, heir, holder>>
  BY DEF HandlerStep, TakeRequest, Storage, Answer, Expire, ErrorAnswer, Forget, chatVars,
         Receive, CallStorage, Respond, TimeOut, RespondError
<1>2. phase[v] # "storage" /\ holder # v
  BY DEF HandlerStep, TakeRequest, Storage, Answer, Expire, ErrorAnswer,
         Receive, CallStorage, Respond, TimeOut, RespondError, ExclusiveStorage
<1>3. \A w \in VMs : w # v => phase'[w] = phase[w]
  BY DEF HandlerStep, TakeRequest, Storage, Answer, Expire, ErrorAnswer, Move,
         Receive, CallStorage, Respond, TimeOut, RespondError
<1>4. /\ request' \in [VMs -> Requests]
      /\ \A w \in VMs : w # v => request'[w] = request[w]
  BY RequestKinds DEF HandlerStep, TakeRequest, Storage, Answer, Expire, ErrorAnswer,
         Forget, chatVars
<1>5. /\ DOMAIN result' = VMs
      /\ \A w \in VMs : w # v => result'[w] = result[w]
      /\ result'[v] = NoReply
  <2>1. CASE (\E r \in Requests : TakeRequest(v, r)) \/ ErrorAnswer(v)
    <3>1. phase[v] # "handling" /\ result' = result
      BY <2>1 DEF TakeRequest, ErrorAnswer, Receive, RespondError, chatVars
    <3> QED BY <3>1 DEF ResultsInHand
  <2>2. CASE Storage(v)
    BY <2>2 DEF Storage, chatVars
  <2>3. CASE Answer(v) \/ Expire(v)
    BY <2>3 DEF Answer, Expire, Forget
  <2> QED BY <2>1, <2>2, <2>3 DEF HandlerStep
<1>6. ChatTypeOK'
  BY <1>1, <1>4, <1>5
<1>7. Rewriting'
  BY <1>1, <1>2, <1>4 DEF Rewriting
<1>8. ResultsInHand'
  BY <1>3, <1>5 DEF ResultsInHand
<1>9. OneChat'
  BY <1>1, <1>4, <1>5 DEF OneChat, Answered
<1>10. FileInv'
  BY <1>1 DEF FileInv
<1> QED BY <1>1, <1>6, <1>7, <1>8, <1>9, <1>10

(* What storage_return does, whichever function of the program has run.    *)
LEMMA ReturnKeepsInv ==
  ASSUME ComputeTypeOK, ExclusiveStorage, ChatInv, NEW v \in VMs, NEW string,
         Return(v, string), string \in {text, <<>>},
         UNCHANGED <<request, text, file, restarts, shared, heir>>, behind' \in BOOLEAN,
         request[v].kind = "post" /\ string # <<>> => Last(string) = request[v].line,
         ~behind' => file = text \/ file = Foreign
  PROVE  ChatInv'
<1> USE DEF ChatInv, ChatTypeOK, ComputeTypeOK
<1>1. /\ phase' = [w \in VMs |-> IF w = v THEN "handling" ELSE phase[w]]
      /\ stage' = "begin"
  BY DEF Return, LeaveStorage
<1>2. /\ DOMAIN result' = VMs
      /\ \A w \in VMs : w # v => result'[w] = result[w]
      /\ result'[v] \in {string, Exception}
  BY DEF Return
<1>3. string \in Seq(Lines) /\ IsPrefix(string, text)
  <2>1. IsPrefix(<<>>, text) /\ IsPrefix(text, text)
    BY PrefixFacts
  <2>2. <<>> \in Seq(Lines)
    OBVIOUS
  <2>3. string = text \/ string = <<>>
    OBVIOUS
  <2> QED BY <2>1, <2>2, <2>3, Zenon
<1>4. ChatTypeOK'
  BY <1>1, <1>2, <1>3
<1>5. Rewriting' /\ ResultsInHand'
  BY <1>1, <1>2 DEF Rewriting, ResultsInHand
<1>6. OneChat'
  BY <1>2, <1>3 DEF OneChat, Answered
<1>7. FileInv'
  BY DEF FileInv
<1> QED BY <1>4, <1>5, <1>6, <1>7

LEMMA StorageKeepsInv ==
  ASSUME ComputeTypeOK, ExclusiveStorage, ChatInv, NEW v \in VMs, StorageStep(v)
  PROVE  ChatInv' /\ IsPrefix(text, text')
<1> USE DEF ChatInv, ChatTypeOK, ComputeTypeOK
<1>0. IsPrefix(text, text) /\ <<>> \in Seq(Lines)
  BY PrefixFacts
<1>1. CASE GetStorage(v) \/ ParseFails(v)
  <2>1. stage = "begin"
    BY <1>1 DEF GetStorage, ParseFails, Rewriting
  <2> QED BY <1>0, <1>1, <2>1, ReturnKeepsInv DEF GetStorage, ParseFails, Throw, FileInv
<1>2. CASE OpenFails(v)
  BY <1>0, <1>2, ReturnKeepsInv DEF OpenFails, Throw
<1>3. CASE SetStorageReturns(v)
  BY <1>0, <1>3, ReturnKeepsInv DEF SetStorageReturns, Rewriting, FileInv
<1>4. CASE AppendLine(v)
  <2> DEFINE line == request[v].line
  <2>1. /\ holder = v /\ request[v].kind = "post" /\ line \in Lines
        /\ text' = Append(text, line) /\ stage' = "open"
        /\ UNCHANGED <<phase, holder, request, result, file, behind, restarts, shared, heir>>
    BY <1>4, RequestKinds DEF AppendLine, computeVars
  <2> HIDE DEF line
  <2>2. /\ text' \in Seq(Lines) /\ text' # <<>> /\ Last(text') = line
        /\ IsPrefix(text, text')
        /\ \A t \in Seq(Lines) : IsPrefix(t, text) => IsPrefix(t, text')
    BY <2>1, PrefixFacts
  <2>3. ChatTypeOK'
    BY <2>1, <2>2
  <2>4. Rewriting' /\ ResultsInHand'
    BY <2>1, <2>2 DEF Rewriting, ResultsInHand, line
  <2>5. OneChat'
    BY <2>1, <2>2 DEF OneChat, Answered
  <2>6. FileInv'
    BY <2>1, <2>2 DEF FileInv
  <2> QED BY <2>2, <2>3, <2>4, <2>5, <2>6
<1>5. CASE OpenFile(v) \/ WriteFile(v)
  <2>1. /\ stage # "begin" /\ stage' \in {"write", "return"}
        /\ UNCHANGED <<phase, holder, request, result, text, restarts, shared, heir>>
    BY <1>5 DEF OpenFile, WriteFile, computeVars
  <2>2. /\ \/ file' = Foreign
           \/ /\ file' \in Seq(Lines) /\ IsPrefix(file', text)
              /\ stage' = "return" /\ ~behind' => file' = text
        /\ behind' \in BOOLEAN
    <3>1. CASE OpenFile(v)
      <4>1. IsPrefix(<<>>, text)
        BY PrefixFacts
      <4>2. <<>> \in Seq(Lines)
        OBVIOUS
      <4>3. file' = <<>> /\ stage' = "write" /\ behind' = behind
        BY <3>1 DEF OpenFile
      <4>4. file' \in Seq(Lines) /\ IsPrefix(file', text)
        BY <4>1, <4>2, <4>3, Zenon
      <4>5. behind' \in BOOLEAN /\ stage' # "return"
        BY <4>3
      <4> QED BY <4>4, <4>5
    <3>2. CASE WriteFile(v) /\ file = Foreign
      BY <3>2 DEF WriteFile
    <3>3. CASE WriteFile(v) /\ file # Foreign
      <4>1. PICK n \in 0..Len(text) : file' = SubSeq(text, 1, n) /\ behind' = (n < Len(text))
        BY <3>3 DEF WriteFile
      <4>2. ~(n < Len(text)) => n = Len(text)
        BY <4>1
      <4>3. /\ SubSeq(text, 1, n) \in Seq(Lines) /\ IsPrefix(SubSeq(text, 1, n), text)
            /\ SubSeq(text, 1, Len(text)) = text
        BY PrefixFacts
      <4>4. ~behind' => file' = text
        BY <4>1, <4>2, <4>3, Zenon
      <4>5. behind' \in BOOLEAN
        BY <4>1
      <4>6. file' \in Seq(Lines) /\ IsPrefix(file', text)
        BY <4>1, <4>3, Zenon
      <4> QED BY <4>4, <4>5, <4>6
    <3> QED BY <1>5, <3>1, <3>2, <3>3
  <2>3. ChatTypeOK'
    BY <2>1, <2>2
  <2>4. Rewriting' /\ ResultsInHand'
    BY <2>1 DEF Rewriting, ResultsInHand
  <2>5. OneChat'
    BY <2>1 DEF OneChat, Answered
  <2>6. FileInv'
    BY <2>1, <2>2 DEF FileInv
  <2> QED BY <1>0, <2>1, <2>3, <2>4, <2>5, <2>6
<1> QED BY <1>1, <1>2, <1>3, <1>4, <1>5 DEF StorageStep

LEMMA QueueKeepsInv ==
  ASSUME ComputeTypeOK, ExclusiveStorage, ChatInv,
         ScheduleUpdate \/ LiveUpdate \/ \E a \in Agents : Enter(a)
  PROVE  ChatInv' /\ text' = text
<1> USE ChatAssumption, ComputeAssumption DEF ChatInv, ChatTypeOK, ComputeTypeOK
<1>1. /\ UNCHANGED <<request, result, text, file, stage, behind, restarts>>
      /\ shared' \in BOOLEAN /\ (heir' = heir \/ heir' = text)
  BY DEF ScheduleUpdate, LiveUpdate, HandOver, Enter, chatVars
<1>2. ~ScheduleUpdate => stage = "begin"
  BY DEF LiveUpdate, HandOver, Enter, LeaveStorage, EnterStorage, Rewriting
<1>3. ScheduleUpdate => UNCHANGED <<phase, holder>>
  BY DEF ScheduleUpdate, Schedule
<1>4. \A v \in VMs : phase[v] = "handling" => phase'[v] = "handling"
  <2>1. CASE ScheduleUpdate \/ LiveUpdate
    BY <2>1, <1>3 DEF LiveUpdate, HandOver, LeaveStorage
  <2>2. ASSUME NEW a \in Agents, Enter(a)
        PROVE  \A v \in VMs : phase[v] = "handling" => phase'[v] = "handling"
    <3>1. \A v \in VMs : v = a => phase[v] = "queued"
      BY <2>2, HeadIsQueued DEF Enter
    <3> QED BY <2>2, <3>1 DEF Enter, EnterStorage
  <2> QED BY <2>1, <2>2
<1>5. ChatTypeOK' /\ OneChat' /\ FileInv'
  BY <1>1 DEF OneChat, Answered, FileInv
<1>6. Rewriting'
  BY <1>1, <1>2, <1>3 DEF Rewriting
<1>7. ResultsInHand'
  BY <1>1, <1>4 DEF ResultsInHand
<1> QED BY <1>1, <1>5, <1>6, <1>7

LEMMA OthersKeepInv ==
  ASSUME ChatInv, OthersWrite
  PROVE  ChatInv' /\ text' = text
<1>1. /\ UNCHANGED <<request, result, text, stage, behind, restarts, shared, heir, phase, holder>>
      /\ file' = Foreign
  BY DEF OthersWrite, computeVars
<1> QED BY <1>1 DEF ChatInv, ChatTypeOK, Rewriting, ResultsInHand, OneChat, Answered, FileInv

LEMMA RestartKeepsInv ==
  ASSUME ChatInv, Restart
  PROVE  ChatInv'
<1> USE DEF ChatInv, ChatTypeOK, Restart, RestartWith
<1>1. ChatTypeOK'
  <2>1. restarts' \in 0..MaxRestarts /\ request' \in [VMs -> Requests]
    BY ChatAssumption, RequestKinds
  <2>2. DOMAIN result' = VMs /\ \A v \in VMs : result'[v] = NoReply
    OBVIOUS
  <2>3. /\ text' \in Seq(Lines) /\ file' \in Seq(Lines) /\ stage' = "begin" /\ behind' = FALSE
        /\ shared' = FALSE /\ heir' = heir
    OBVIOUS
  <2> QED BY <2>1, <2>2, <2>3
<1>2. Rewriting' /\ ResultsInHand'
  BY DEF Rewriting, ResultsInHand
<1>3. OneChat'
  BY DEF OneChat, Answered
<1>4. FileInv'
  <2>1. IsPrefix(file, file)
    BY PrefixFacts
  <2> QED BY <2>1 DEF FileInv
<1> QED BY <1>1, <1>2, <1>3, <1>4

LEMMA StepKeepsInv ==
  ComputeTypeOK /\ ExclusiveStorage /\ ChatInv /\ [Next]_vars => ChatInv'
<1> SUFFICES ASSUME ComputeTypeOK, ExclusiveStorage, ChatInv, [Next]_vars
             PROVE  ChatInv'
  OBVIOUS
<1>1. CASE UNCHANGED vars
  BY <1>1 DEF vars, computeVars, chatVars, ChatInv, ChatTypeOK, Rewriting, ResultsInHand,
              OneChat, Answered, FileInv
<1>2. CASE Next
  BY <1>2, NextByParts, HandlerKeepsInv, StorageKeepsInv, QueueKeepsInv, OthersKeepInv,
     RestartKeepsInv
<1> QED BY <1>1, <1>2

LEMMA ChatInvariant == Spec => [](ComputeTypeOK /\ ExclusiveStorage /\ ChatInv)
<1>1. Init => ChatInv
  <2> SUFFICES ASSUME Init
               PROVE  ChatInv
    OBVIOUS
  <2>1. /\ stage = "begin" /\ behind = FALSE
        /\ DOMAIN result = VMs /\ \A v \in VMs : result[v] = NoReply
        /\ request \in [VMs -> Requests] /\ restarts \in 0..MaxRestarts
        /\ heir = NoHeir
    BY RequestKinds, ChatAssumption DEF Init
  <2>2. shared \in BOOLEAN
    <3>1. shared = TRUE \/ shared = FALSE
      BY Zenon DEF Init
    <3> QED BY <3>1
  <2>3. text \in Seq(Lines)
    BY StartsAreChats DEF Init
  <2>4. IsPrefix(text, text)
    BY <2>3, PrefixFacts
  <2>5. file = text \/ file = Foreign
    BY DEF Init
  <2>6. ChatTypeOK /\ FileInv
    BY <2>1, <2>2, <2>3, <2>4, <2>5 DEF ChatTypeOK, FileInv
  <2> QED BY <2>1, <2>6 DEF ChatInv, Rewriting, ResultsInHand, OneChat, Answered
<1> QED BY <1>1, StepKeepsInv, ChatStorageIsExclusive, PTL DEF Spec

-----------------------------------------------------------------------------

(* The host's and the chat's state is well typed, for any size of the      *)
(* result buffer (storage_return).                                         *)
THEOREM TypeCorrect == Spec => []TypeOK
BY ChatInvariant, PTL DEF TypeOK, ChatInv

(* All clients of a program see one chat, whatever requests, exceptions,   *)
(* timeouts, the update and restarts interleave (get_storage, set_storage),*)
(* those included that end after the update.                               *)
THEOREM ClientsSeeOneChat == Spec => []OneChat
BY ChatInvariant, PTL DEF ChatInv

(* The state file, unless another program has touched it since this one    *)
(* opened it, is a beginning of the chat at any moment, and the chat       *)
(* itself when no rewrite is under way and the last one did not fail       *)
(* (set_storage, loadFile).                                                *)
THEOREM FileIsBeginning == Spec => []FileFollowsChat
<1>1. ChatInv => FileFollowsChat
  BY DEF ChatInv, FileInv, FileFollowsChat
<1> QED BY <1>1, ChatInvariant, PTL

(* No line is taken from the chat but by a restart, and then from its end; *)
(* and an update gives the successor all of it (on_live_update,            *)
(* on_resume_update).                                                      *)
THEOREM LinesAreKept == Spec => ChatOnlyGrows
<1>1. ASSUME ComputeTypeOK, ExclusiveStorage, ChatInv, Next
      PROVE  /\ \/ IsPrefix(text, text')
                \/ restarts' # restarts /\ IsPrefix(text', text)
             /\ heir' # heir => IsPrefix(text, heir')
  <2>1. text \in Seq(Lines) /\ IsPrefix(text, text)
    BY <1>1, PrefixFacts DEF ChatInv, ChatTypeOK
  <2>2. CASE Restart
    BY <1>1, <2>2 DEF Restart, RestartWith, ChatInv, ChatTypeOK, FileInv
  <2>3. CASE ~Restart
    <3>1. IsPrefix(text, text')
      BY <1>1, <2>1, <2>3, NextByParts, HandlerKeepsInv, StorageKeepsInv, QueueKeepsInv,
         OthersKeepInv
    <3>2. heir' = heir \/ heir' = text
      <4>1. ASSUME NEW v \in VMs, HandlerStep(v)
            PROVE  heir' = heir
        BY <4>1 DEF HandlerStep, TakeRequest, Storage, Answer, Expire, ErrorAnswer, Forget,
                    chatVars
      <4>2. ASSUME NEW v \in VMs, StorageStep(v)
            PROVE  heir' = heir
        BY <4>2 DEF StorageStep, GetStorage, ParseFails, AppendLine, OpenFails, OpenFile,
                    WriteFile, SetStorageReturns
      <4>3. ASSUME \/ OthersWrite \/ ScheduleUpdate \/ LiveUpdate
                   \/ \E a \in Agents : Enter(a)
            PROVE  heir' = heir \/ heir' = text
        BY <4>3 DEF OthersWrite, ScheduleUpdate, LiveUpdate, HandOver, Enter, chatVars
      <4> QED BY <1>1, <2>3, <4>1, <4>2, <4>3, NextByParts
    <3> QED BY <2>1, <3>1, <3>2
  <2> QED BY <2>2, <2>3
<1>2. /\ ComputeTypeOK /\ ExclusiveStorage /\ ChatInv
      /\ [Next]_vars
      => [/\ \/ IsPrefix(text, text')
             \/ restarts' # restarts /\ IsPrefix(text', text)
          /\ heir' # heir => IsPrefix(text, heir')]_vars
  BY <1>1
<1> QED BY <1>2, ChatInvariant, PTL DEF Spec, ChatOnlyGrows

-----------------------------------------------------------------------------
(* The chat implements ChatLog.  The log is the chat without the line of a *)
(* POST that is still rewriting the file: such a POST takes effect when    *)
(* its function returns, or in the restart that ends it.                   *)

LEMMA Beginning ==
  ASSUME NEW s \in Seq(Lines), NEW n \in 0..Len(s)
  PROVE  /\ SubSeq(s, 1, n) \in Seq(Lines) /\ Len(SubSeq(s, 1, n)) = n
         /\ \A i \in 1..n : SubSeq(s, 1, n)[i] = s[i]
BY SubSeqProperties

LEMMA FrontFacts ==
  ASSUME NEW s \in Seq(Lines), s # <<>>
  PROVE  /\ Front(s) \in Seq(Lines) /\ Len(Front(s)) = Len(s) - 1
         /\ \A i \in 1..(Len(s) - 1) : Front(s)[i] = s[i]
<1>1. Len(s) - 1 \in 0..Len(s)
  BY EmptySeq
<1> QED BY <1>1, Beginning DEF Front

LEMMA FrontAndLast ==
  ASSUME NEW s \in Seq(Lines), s # <<>>
  PROVE  s = Append(Front(s), Last(s))
<1> DEFINE f == Front(s)
           l == s[Len(s)]
           t == Append(f, l)
<1>1. /\ f \in Seq(Lines) /\ Len(f) = Len(s) - 1 /\ \A i \in 1..(Len(s) - 1) : f[i] = s[i]
      /\ Len(s) \in Nat \ {0} /\ l \in Lines
  BY FrontFacts, EmptySeq
<1> HIDE DEF f, l
<1>2. /\ t \in Seq(Lines) /\ Len(t) = Len(f) + 1 /\ t[Len(f) + 1] = l
      /\ \A i \in 1..Len(f) : t[i] = f[i]
  BY <1>1, AppendProperties
<1> HIDE DEF t
<1>3. Len(t) = Len(s) /\ \A i \in 1..(Len(s) - 1) : t[i] = s[i]
  BY <1>1, <1>2
<1>4. t[Len(s)] = s[Len(s)]
  BY <1>1, <1>2 DEF l
<1>5. \A i \in 1..Len(s) : t[i] = s[i]
  BY <1>1, <1>3, <1>4
<1>6. t = s
  BY <1>2, <1>3, <1>5, SeqEqual
<1> QED BY <1>6 DEF t, f, l, Last

LEMMA FrontOfAppend ==
  ASSUME NEW s \in Seq(Lines), NEW l \in Lines
  PROVE  Front(Append(s, l)) = s
<1> DEFINE t == Append(s, l)
           f == Front(t)
<1>1. /\ t \in Seq(Lines) /\ t # <<>> /\ Len(t) = Len(s) + 1
      /\ \A i \in 1..Len(s) : t[i] = s[i]
  BY AppendProperties
<1> HIDE DEF t
<1>2. /\ f \in Seq(Lines) /\ Len(f) = Len(t) - 1
      /\ \A i \in 1..(Len(t) - 1) : f[i] = t[i]
  BY <1>1, FrontFacts
<1> HIDE DEF f
<1>3. Len(f) = Len(s) /\ \A i \in 1..Len(f) : f[i] = s[i]
  BY <1>1, <1>2
<1>4. f = s
  BY <1>2, <1>3, SeqEqual
<1> QED BY <1>4 DEF f, t

(* What a restart finds in the file is a beginning of the chat, and if it  *)
(* is not all of it, then of the chat without its last line.               *)
LEMMA PrefixIsBeginning ==
  ASSUME NEW s \in Seq(Lines), NEW t \in Seq(Lines), IsPrefix(t, s)
  PROVE  \E n \in 0..Len(s) : t = SubSeq(s, 1, n)
<1>1. Len(t) \in 0..Len(s) /\ SubSeq(t, 1, Len(t)) = SubSeq(s, 1, Len(t))
  BY DEF IsPrefix
<1>2. SubSeq(t, 1, Len(t)) = t
  BY PrefixFacts
<1> QED BY <1>1, <1>2, Zenon

LEMMA ShorterPrefix ==
  ASSUME NEW s \in Seq(Lines), NEW t \in Seq(Lines), IsPrefix(t, s), t # s
  PROVE  s # <<>> /\ IsPrefix(t, Front(s))
<1>1. Len(t) <= Len(s) /\ \A i \in 1..Len(t) : t[i] = s[i]
  BY PrefixEntries
<1>2. Len(t) # Len(s)
  BY <1>1, SeqEqual
<1>3. Len(t) \in Nat /\ Len(s) \in Nat /\ Len(t) <= Len(s) - 1 /\ s # <<>>
  BY <1>1, <1>2
<1> DEFINE f == Front(s)
<1>4. /\ f \in Seq(Lines) /\ Len(f) = Len(s) - 1
      /\ \A i \in 1..(Len(s) - 1) : f[i] = s[i]
  BY <1>3, FrontFacts
<1> HIDE DEF f
<1>5. Len(t) <= Len(f) /\ \A i \in 1..Len(t) : t[i] = f[i]
  BY <1>1, <1>3, <1>4
<1>6. IsPrefix(t, f)
  BY <1>4, <1>5, PrefixEntries
<1> QED BY <1>3, <1>6 DEF f

LEMMA SettledType == ChatInv => Settled \in Seq(Lines)
BY FrontFacts DEF ChatInv, ChatTypeOK, Rewriting, Settled

(* Outside of its handler a VM serves no request.                          *)
NoRequestOutside == \A v \in VMs : phase[v] \in {"waiting", "failing"} => request[v] = Page

LEMMA RequestsEnd == Spec => []NoRequestOutside
<1>1. Init => NoRequestOutside
  BY DEF Init, NoRequestOutside
<1>2. ComputeTypeOK /\ ExclusiveStorage /\ ChatInv /\ NoRequestOutside /\ [Next]_vars
        => NoRequestOutside'
  <2> SUFFICES ASSUME ComputeTypeOK, ExclusiveStorage, ChatInv, NoRequestOutside, [Next]_vars
               PROVE  NoRequestOutside'
    OBVIOUS
  <2> USE DEF NoRequestOutside
  <2>0. request \in [VMs -> Requests] /\ phase \in [VMs -> Phases]
    BY DEF ChatInv, ChatTypeOK, ComputeTypeOK
  <2>1. ASSUME NEW v \in VMs, HandlerStep(v)
        PROVE  NoRequestOutside'
    <3>1. CASE (\E r \in Requests : TakeRequest(v, r)) \/ Storage(v)
      <4>1. /\ phase'[v] \in {"handling", "queued"}
            /\ \A w \in VMs : w # v => phase'[w] = phase[w] /\ request'[w] = request[w]
        BY <2>0, <3>1 DEF TakeRequest, Storage, Receive, CallStorage, Move, chatVars
      <4> QED BY <4>1
    <3>2. CASE Answer(v) \/ Expire(v)
      <4>1. /\ request'[v] = Page
            /\ \A w \in VMs : w # v => phase'[w] = phase[w] /\ request'[w] = request[w]
        BY <2>0, <3>2 DEF Answer, Expire, Respond, TimeOut, Move, Forget
      <4> QED BY <4>1
    <3>3. CASE ErrorAnswer(v)
      <4>1. /\ phase[v] = "failing" /\ request' = request
            /\ \A w \in VMs : w # v => phase'[w] = phase[w]
        BY <2>0, <3>3 DEF ErrorAnswer, RespondError, Move, chatVars
      <4> QED BY <4>1
    <3> QED BY <2>1, <3>1, <3>2, <3>3 DEF HandlerStep
  <2>2. ASSUME NEW v \in VMs, StorageStep(v)
        PROVE  NoRequestOutside'
    <3>1. request' = request
      BY <2>2 DEF StorageStep, GetStorage, ParseFails, AppendLine, OpenFails, OpenFile,
                  WriteFile, SetStorageReturns
    <3>2. UNCHANGED phase \/ phase' = [w \in VMs |-> IF w = v THEN "handling" ELSE phase[w]]
      BY <2>2 DEF StorageStep, GetStorage, ParseFails, AppendLine, OpenFails, OpenFile,
                  WriteFile, SetStorageReturns, Throw, Return, LeaveStorage, computeVars
    <3> QED BY <3>1, <3>2
  <2>3. CASE ScheduleUpdate \/ LiveUpdate
    BY <2>3 DEF ScheduleUpdate, LiveUpdate, HandOver, Schedule, LeaveStorage, chatVars
  <2>4. ASSUME NEW a \in Agents, Enter(a)
        PROVE  NoRequestOutside'
    BY <2>4 DEF Enter, EnterStorage, chatVars
  <2>5. CASE Restart
    BY <2>5 DEF Restart, RestartWith
  <2>6. CASE OthersWrite \/ UNCHANGED vars
    BY <2>6 DEF OthersWrite, vars, computeVars, chatVars
  <2> QED BY <2>1, <2>2, <2>3, <2>4, <2>5, <2>6, NextByParts
<1> QED BY <1>1, <1>2, ChatInvariant, PTL DEF Spec

LEMMA HandlerIsLogStep ==
  ASSUME ComputeTypeOK, ChatInv, NoRequestOutside, NEW v \in VMs, HandlerStep(v)
  PROVE  [Log!Next]_Log!logVars
<1>1. UNCHANGED <<text, stage>>
  BY DEF HandlerStep, TakeRequest, Storage, Answer, Expire, ErrorAnswer, Forget, chatVars
<1>2. Settled' = Settled
  BY <1>1 DEF Settled
<1>3. ASSUME NEW r \in Requests, TakeRequest(v, r)
      PROVE  Log!Ask(v, r)
  <2>1. phase[v] = "waiting"
    BY <1>3 DEF TakeRequest, Receive
  <2>2. request[v] = Page /\ result[v] = NoReply
    BY <2>1 DEF NoRequestOutside, ChatInv, ResultsInHand
  <2> QED BY <1>2, <1>3, <2>2 DEF TakeRequest, Log!Ask
<1>4. CASE Storage(v) \/ ErrorAnswer(v)
  BY <1>2, <1>4 DEF Storage, ErrorAnswer, chatVars, Log!logVars
<1>5. ASSUME Answer(v) \/ Expire(v)
      PROVE  Log!Conclude(v)
  BY <1>2, <1>5 DEF Answer, Expire, Forget, Log!Conclude
<1> QED BY <1>3, <1>4, <1>5 DEF HandlerStep, Log!Next

(* What a storage function gives its caller is what the log gives.         *)
LEMMA ReturnIsLogStep ==
  ASSUME ComputeTypeOK, ExclusiveStorage, ChatInv, NEW v \in VMs, NEW string,
         Return(v, string)
  PROVE  /\ result[v] = NoReply
         /\ result' = [result EXCEPT ![v] = string] \/ result' = [result EXCEPT ![v] = Exception]
<1>1. phase[v] = "storage"
  BY DEF Return, LeaveStorage, ExclusiveStorage
<1> QED BY <1>1 DEF ChatInv, ResultsInHand, Return

LEMMA StorageIsLogStep ==
  ASSUME ComputeTypeOK, ExclusiveStorage, ChatInv, NEW v \in VMs, StorageStep(v)
  PROVE  [Log!Next]_Log!logVars
<1>0. /\ text \in Seq(Lines) /\ request \in [VMs -> Requests]
      /\ stage # "begin" => /\ holder \in VMs /\ request[holder].kind = "post"
                            /\ text # <<>> /\ Last(text) = request[holder].line
  BY DEF ChatInv, ChatTypeOK, Rewriting
<1>1. ASSUME GetStorage(v)
      PROVE  Log!Get(v)
  <2>1. stage = "begin" /\ stage' = "begin" /\ UNCHANGED <<text, request>>
    BY <1>0, <1>1 DEF GetStorage, Return
  <2>2. Settled = text /\ Settled' = Settled
    BY <2>1 DEF Settled
  <2>3. /\ result[v] = NoReply
        /\ result' = [result EXCEPT ![v] = text] \/ result' = [result EXCEPT ![v] = Exception]
    BY <1>1, ReturnIsLogStep DEF GetStorage
  <2> QED BY <1>1, <2>1, <2>2, <2>3 DEF GetStorage, Log!Get, Log!Give
<1>2. ASSUME ParseFails(v)
      PROVE  Log!Refuse(v)
  <2>1. stage = "begin" /\ stage' = "begin" /\ UNCHANGED <<text, request>>
    BY <1>0, <1>2 DEF ParseFails, Throw, Return
  <2>2. Settled' = Settled
    BY <2>1 DEF Settled
  <2>3. result[v] = NoReply
    BY <1>2, ReturnIsLogStep DEF ParseFails, Throw
  <2>4. result' = [result EXCEPT ![v] = <<>>]
    <3>1. Len(<<>>) <= ResultSize
      BY ChatAssumption
    <3> QED BY <1>2, <3>1 DEF ParseFails, Throw, Return
  <2> QED BY <1>2, <2>1, <2>2, <2>3, <2>4 DEF ParseFails, Log!Refuse, Log!Give
<1>3. ASSUME AppendLine(v)
      PROVE  UNCHANGED Log!logVars
  <2>1. /\ stage = "begin" /\ stage' = "open" /\ text' = Append(text, request[v].line)
        /\ request[v].line \in Lines /\ UNCHANGED <<request, result>>
    BY <1>0, <1>3, RequestKinds DEF AppendLine
  <2>2. Front(text') = text
    BY <1>0, <2>1, FrontOfAppend
  <2> QED BY <2>1, <2>2 DEF Settled, Log!logVars
<1>4. ASSUME OpenFile(v) \/ WriteFile(v)
      PROVE  UNCHANGED Log!logVars
  <2>1. stage # "begin" /\ stage' # "begin" /\ UNCHANGED <<text, request, result>>
    BY <1>4 DEF OpenFile, WriteFile
  <2> QED BY <2>1 DEF Settled, Log!logVars
<1>5. ASSUME OpenFails(v) \/ SetStorageReturns(v)
      PROVE  Log!Post(v)
  <2>1. /\ stage # "begin" /\ stage' = "begin" /\ UNCHANGED <<text, request>> /\ holder = v
    BY <1>5 DEF OpenFails, SetStorageReturns, Throw, Return
  <2>2. text = Append(Front(text), request[v].line) /\ request[v].kind = "post"
    BY <1>0, <2>1, FrontAndLast
  <2>3. Settled' = text /\ Settled' = Append(Settled, request[v].line)
    BY <2>1, <2>2 DEF Settled
  <2>4. /\ result[v] = NoReply
        /\ \/ result' = [result EXCEPT ![v] = <<>>]
           \/ result' = [result EXCEPT ![v] = text]
           \/ result' = [result EXCEPT ![v] = Exception]
    BY <1>5, ReturnIsLogStep DEF OpenFails, SetStorageReturns, Throw
  <2> QED BY <2>1, <2>2, <2>3, <2>4 DEF Log!Post, Log!Give
<1> QED BY <1>1, <1>2, <1>3, <1>4, <1>5 DEF StorageStep, Log!Next

LEMMA RestartIsLogStep ==
  ASSUME ComputeTypeOK, ExclusiveStorage, ChatInv, Restart
  PROVE  Log!Restart
<1>0. /\ text \in Seq(Lines) /\ file \in Seq(Lines) /\ IsPrefix(file, text)
      /\ stage # "begin" => /\ holder \in VMs /\ request[holder].kind = "post"
                            /\ text # <<>> /\ Last(text) = request[holder].line
  BY DEF ChatInv, ChatTypeOK, Rewriting, FileInv, Restart, RestartWith
<1>1. /\ Settled' = file
      /\ request' = [v \in VMs |-> Page] /\ result' = [v \in VMs |-> NoReply]
  BY DEF Restart, RestartWith, Settled
<1>2. \/ \E n \in 0..Len(Settled) : file = SubSeq(Settled, 1, n)
      \/ \E v \in VMs : /\ request[v].kind = "post" /\ result[v] = NoReply
                        /\ file = Append(Settled, request[v].line)
  <2>1. CASE stage = "begin"
    BY <1>0, <2>1, PrefixIsBeginning DEF Settled
  <2>2. CASE stage # "begin" /\ file # text
    <3>1. Settled = Front(text) /\ Settled \in Seq(Lines)
      BY <2>2, SettledType DEF Settled
    <3>2. IsPrefix(file, Settled)
      BY <1>0, <2>2, <3>1, ShorterPrefix
    <3> QED BY <1>0, <3>1, <3>2, PrefixIsBeginning
  <2>3. CASE stage # "begin" /\ file = text
    <3>1. Settled = Front(text)
      BY <2>3 DEF Settled
    <3>2. holder \in VMs /\ request[holder].kind = "post"
      BY <1>0, <2>3
    <3>3. result[holder] = NoReply
      BY <3>2 DEF ChatInv, ResultsInHand, ExclusiveStorage
    <3>4. file = Append(Settled, request[holder].line)
      BY <1>0, <2>3, <3>1, FrontAndLast
    <3> QED BY <3>2, <3>3, <3>4
  <2> QED BY <2>1, <2>2, <2>3
<1> QED BY <1>1, <1>2 DEF Log!Restart

(* To its visitors the chat is a log with indivisible operations, for any  *)
(* number of VMs, lines, restarts and any size of the result buffer        *)
(* (chat.js, storage_trampoline).                                          *)
THEOREM ChatIsALog == Spec => ImplementsLog
<1>1. Init => Log!Init
  BY StartsAreChats DEF Init, Settled, Log!Init
<1>2. ComputeTypeOK /\ ExclusiveStorage /\ ChatInv /\ NoRequestOutside /\ [Next]_vars
        => [Log!Next]_Log!logVars
  <2> SUFFICES ASSUME ComputeTypeOK, ExclusiveStorage, ChatInv, NoRequestOutside, [Next]_vars
               PROVE  [Log!Next]_Log!logVars
    OBVIOUS
  <2>1. ASSUME NEW v \in VMs, HandlerStep(v) \/ StorageStep(v)
        PROVE  [Log!Next]_Log!logVars
    BY <2>1, HandlerIsLogStep, StorageIsLogStep
  <2>2. CASE ScheduleUpdate \/ \E a \in Agents : Enter(a)
    BY <2>2 DEF ScheduleUpdate, Enter, chatVars, Settled, Log!logVars
  <2>3. CASE LiveUpdate
    BY <2>3 DEF LiveUpdate, HandOver, Settled, Log!logVars
  <2>4. CASE Restart
    BY <2>4, RestartIsLogStep DEF Log!Next
  <2>5. CASE OthersWrite \/ UNCHANGED vars
    BY <2>5 DEF OthersWrite, vars, chatVars, Settled, Log!logVars
  <2> QED BY <2>1, <2>2, <2>3, <2>4, <2>5, NextByParts
<1> QED BY <1>1, <1>2, ChatInvariant, RequestsEnd, PTL DEF Spec, ImplementsLog, Log!Spec

===============================================================================
