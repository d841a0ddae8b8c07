--------------------------- MODULE StorageCalls_proofs --------------------------
(***************************************************************************)
(* go/goexample and cpp/src/basicauth.cpp for any number of VMs, requests, *)
(* candidates and passwords: nobody gets in who has not sent a password,   *)
(* who is refused has given cause, and what a GET is answered with is what *)
(* storage held.                                                           *)
(***************************************************************************)
EXTENDS StorageCalls, Compute_proofs

USE DEF Move

(* Every step of either program is a step of the host, or none of it.      *)
LEMMA NextIsComputeStep == [Next]_vars => [ComputeStep]_computeVars
<1> SUFFICES ASSUME [Next]_vars
             PROVE  [ComputeStep]_computeVars
  OBVIOUS
<1> USE DEF ComputeStep, Agents
<1>1. ASSUME NEW v \in VMs, GoTakeGet(v) \/ GoTakePost(v, Post) \/ GoTakePost(v, EmptyPost)
      PROVE  ComputeStep
  BY <1>1 DEF GoTakeGet, GoTakePost
<1>2. ASSUME NEW v \in VMs, GoProgress(v) \/ GoExpire(v)
      PROVE  ComputeStep
  BY <1>2 DEF GoProgress, GoCall, MyStorage, GoDeliver, GoPanic, GoError, GoExpire, Crash
<1>3. ASSUME NEW v \in VMs, NEW r \in AuthRequests, AuthTake(v, r)
      PROVE  ComputeStep
  BY <1>3 DEF AuthTake
<1>4. ASSUME NEW v \in VMs, AuthProgress(v) \/ AuthExpire(v)
      PROVE  ComputeStep
  BY <1>4 DEF AuthProgress, AuthCall, Authenticate, AuthenticateThrows, AuthRespond,
              AuthThrow, OnError, AuthExpire, Crash
<1>5. ASSUME NEW v \in VMs, EnterStorage(v)
      PROVE  ComputeStep
  BY <1>5
<1>6. CASE UNCHANGED vars
  BY <1>6 DEF vars, computeVars
<1>7. CASE Next
  BY <1>1, <1>2, <1>3, <1>4, <1>5, <1>7 DEF Next, GoNext, AuthNext
<1> QED BY <1>6, <1>7

LEMMA HostInvariants == Spec => [](ComputeTypeOK /\ ExclusiveStorage)
<1>1. Init => ComputeInit
  BY DEF Init
<1>2. Spec => ComputeSpec
  BY <1>1, NextIsComputeStep, PTL DEF Spec, ComputeSpec
<1> QED BY <1>2, ComputeTypeCorrect, StorageIsExclusive, PTL

-----------------------------------------------------------------------------
(* cpp/src/basicauth.cpp.  The argument: a request is there exactly while  *)
(* its VM is busy with it; one that carries its password is proved; and    *)
(* the candidates of `known' have not left the set.                        *)

Busy(v) == phase[v] \in {"handling", "queued", "storage"}

AuthInv ==
  /\ AuthTypeOK
  /\ \A v \in VMs :
       /\ Busy(v) => auth_request[v] \in AuthRequests
       /\ ~Busy(v) => auth_request[v] = NoAuthRequest /\ v \notin known
       /\ result[v] # "none" => phase[v] = "handling"
  /\ OnlyAuthenticated
  /\ \A v \in VMs :
       Busy(v) /\ auth_request[v].header = auth_request[v].password
         => auth_request[v].info \in proved
  /\ \A v \in known : auth_request[v].info \in authenticated
  /\ StaysAuthenticated

LEMMA AuthenticateKeepsInv ==
  ASSUME ComputeTypeOK, ExclusiveStorage, AuthInv,
         NEW v \in VMs, Authenticate(v)
  PROVE  AuthInv'
<1> USE DEF AuthInv, AuthTypeOK, ComputeTypeOK, Busy
<1> DEFINE r == auth_request[v]
<1>1. /\ phase[v] = "storage" /\ r \in AuthRequests
      /\ r.info \in Candidates /\ r.header = r.password => r.info \in proved
  BY DEF Authenticate, LeaveStorage, ExclusiveStorage, AuthRequests
<1>2. phase' = [phase EXCEPT ![v] = "handling"]
  BY <1>1 DEF Authenticate, LeaveStorage, ExclusiveStorage
<1>3. UNCHANGED <<auth_request, proved, known>>
  BY DEF Authenticate
<1>4. /\ \A w \in VMs : w # v => result'[w] = result[w]
      /\ result' \in [VMs -> {"none", "OK", "Failed", "error"}]
  BY DEF Authenticate
<1> HIDE DEF r
<1>5. /\ authenticated \subseteq authenticated' /\ authenticated' \subseteq proved
      /\ result'[v] = "OK" => r.info \in proved
      /\ result'[v] = "Failed" => r.info \notin authenticated /\ r.header # r.password
      /\ result'[v] # "error"
  BY <1>1 DEF Authenticate, OnlyAuthenticated, r
<1>6. AuthTypeOK'
  BY <1>3, <1>4, <1>5
<1>7. \A w \in VMs :
        /\ Busy(w)' => auth_request'[w] \in AuthRequests
        /\ ~Busy(w)' => auth_request'[w] = NoAuthRequest /\ w \notin known'
        /\ result'[w] # "none" => phase'[w] = "handling"
  BY <1>1, <1>2, <1>3, <1>4
<1>8. OnlyAuthenticated'
  BY <1>3, <1>4, <1>5 DEF OnlyAuthenticated, r
<1>9. \A w \in VMs :
        Busy(w)' /\ auth_request'[w].header = auth_request'[w].password
          => auth_request'[w].info \in proved'
  BY <1>1, <1>2, <1>3
<1>10. \A w \in known' : auth_request'[w].info \in authenticated'
  BY <1>3, <1>5
<1>11. StaysAuthenticated'
  BY <1>3, <1>4, <1>5 DEF StaysAuthenticated, r
<1> QED BY <1>6, <1>7, <1>8, <1>9, <1>10, <1>11

LEMMA AuthStepKeepsInv ==
  ASSUME ComputeTypeOK, ExclusiveStorage, AuthInv, AuthNext
  PROVE  AuthInv'
<1> USE DEF AuthInv, AuthTypeOK, ComputeTypeOK, Busy
<1>1. ASSUME NEW v \in VMs, NEW r \in AuthRequests, AuthTake(v, r)
      PROVE  AuthInv'
  <2>1. r.info \in Candidates
    BY DEF AuthRequests
  <2>2. phase[v] = "waiting" /\ result[v] = "none"
    BY <1>1 DEF AuthTake, Receive
  <2>3. /\ phase' = [phase EXCEPT ![v] = "handling"]
        /\ auth_request' = [auth_request EXCEPT ![v] = r]
        /\ proved \subseteq proved' /\ proved' \subseteq proved \cup {r.info}
        /\ r.header = r.password => r.info \in proved'
        /\ known' \subseteq known \cup {v}
        /\ v \in known' => r.info \in authenticated
        /\ UNCHANGED <<result, authenticated>>
    BY <1>1 DEF AuthTake, Receive
  <2>4. AuthTypeOK'
    BY <2>1, <2>3
  <2>5. OnlyAuthenticated' /\ StaysAuthenticated'
    BY <2>2, <2>3 DEF OnlyAuthenticated, StaysAuthenticated
  <2>6. \A w \in VMs :
          /\ Busy(w)' => auth_request'[w] \in AuthRequests
          /\ ~Busy(w)' => auth_request'[w] = NoAuthRequest /\ w \notin known'
          /\ result'[w] # "none" => phase'[w] = "handling"
    BY <2>2, <2>3
  <2>7. \A w \in VMs :
          Busy(w)' /\ auth_request'[w].header = auth_request'[w].password
            => auth_request'[w].info \in proved'
    BY <2>3
  <2>8. \A w \in known' : auth_request'[w].info \in authenticated'
    BY <2>3
  <2> QED BY <2>4, <2>5, <2>6, <2>7, <2>8
<1>2. ASSUME NEW v \in VMs, AuthCall(v) \/ OnError(v) \/ (EnterStorage(v) /\ UNCHANGED authVars)
      PROVE  AuthInv'
  <2>1. UNCHANGED authVars
    BY <1>2 DEF AuthCall, OnError
  <2>2. \A w \in VMs : /\ Busy(w)' <=> Busy(w)
                       /\ result[w] # "none" => phase'[w] = phase[w]
    <3>1. CASE AuthCall(v) \/ OnError(v)
      BY <3>1 DEF AuthCall, CallStorage, OnError, RespondError
    <3>2. CASE EnterStorage(v)
      <4>1. phase[v] = "queued"
        BY <3>2, HeadIsQueued
      <4>2. phase' = [w \in VMs |-> IF w = v THEN "storage" ELSE phase[w]]
        BY <3>2 DEF EnterStorage
      <4> QED BY <4>1, <4>2
    <3> QED BY <1>2, <3>1, <3>2
  <2> QED BY <2>1, <2>2 DEF authVars, OnlyAuthenticated, StaysAuthenticated
<1>3. ASSUME NEW v \in VMs, AuthenticateThrows(v)
      PROVE  AuthInv'
  <2>1. phase[v] = "storage" /\ phase' = [phase EXCEPT ![v] = "handling"]
    BY <1>3 DEF AuthenticateThrows, LeaveStorage, ExclusiveStorage
  <2>2. /\ result' = [result EXCEPT ![v] = "error"]
        /\ UNCHANGED <<auth_request, proved>>
        /\ authenticated' \subseteq authenticated /\ known' \subseteq known
        /\ \A w \in known' : auth_request'[w].info \in authenticated'
        /\ auth_request[v].header = ShortHeader
    BY <1>3 DEF AuthenticateThrows
  <2>3. AuthTypeOK'
    BY <2>2
  <2>4. \A w \in VMs :
          /\ Busy(w)' => auth_request'[w] \in AuthRequests
          /\ ~Busy(w)' => auth_request'[w] = NoAuthRequest /\ w \notin known'
          /\ result'[w] # "none" => phase'[w] = "handling"
    BY <2>1, <2>2
  <2>5. OnlyAuthenticated' /\ StaysAuthenticated'
    BY <2>2 DEF OnlyAuthenticated, StaysAuthenticated
  <2>6. \A w \in VMs :
          Busy(w)' /\ auth_request'[w].header = auth_request'[w].password
            => auth_request'[w].info \in proved'
    BY <2>1, <2>2
  <2>7. \A w \in known' : auth_request'[w].info \in authenticated'
    BY <2>2
  <2> QED BY <2>3, <2>4, <2>5, <2>6, <2>7
<1>4. ASSUME NEW v \in VMs, AuthRespond(v) \/ AuthThrow(v) \/ AuthExpire(v)
      PROVE  AuthInv'
  <2>1. /\ AuthForget(v)
        /\ \A w \in VMs : w # v => phase'[w] = phase[w]
        /\ phase'[v] \in {"waiting", "failing"}
    BY <1>4 DEF AuthRespond, AuthThrow, AuthExpire, Respond, Crash, TimeOut
  <2> QED BY <2>1 DEF AuthForget, OnlyAuthenticated, StaysAuthenticated
<1>5. ASSUME NEW v \in VMs, Authenticate(v)
      PROVE  AuthInv'
  BY <1>5, AuthenticateKeepsInv
<1> HIDE DEF AuthInv
<1>6. ASSUME NEW v \in VMs, AuthProgress(v)
      PROVE  AuthInv'
  <2>1. CASE AuthCall(v)
    BY <2>1, <1>2
  <2>2. CASE Authenticate(v)
    BY <2>2, <1>5
  <2>3. CASE AuthenticateThrows(v)
    BY <2>3, <1>3
  <2>4. CASE AuthRespond(v)
    BY <2>4, <1>4
  <2>5. CASE AuthThrow(v)
    BY <2>5, <1>4
  <2>6. CASE OnError(v)
    BY <2>6, <1>2
  <2> QED BY <1>6, <2>1, <2>2, <2>3, <2>4, <2>5, <2>6 DEF AuthProgress
<1>7. ASSUME NEW v \in VMs, EnterStorage(v), UNCHANGED authVars
      PROVE  AuthInv'
  BY <1>2, <1>7
<1> QED BY <1>1, <1>4, <1>6, <1>7, Zenon DEF AuthNext

(* While basicauth runs the argument above holds; its variables keep their *)
(* initial values while the Go program runs.                               *)
AuthOfProgram ==
  /\ program \in {"go", "basicauth"}
  /\ program = "basicauth" => AuthInv
  /\ program = "go" => AuthInit

LEMMA AuthOfProgramInvariant == Spec => []AuthOfProgram
<1> USE DEF AuthOfProgram
<1>1. Init => AuthOfProgram
  <2> SUFFICES ASSUME Init PROVE AuthOfProgram
    OBVIOUS
  <2>1. /\ phase = [v \in VMs |-> "waiting"] /\ program \in {"go", "basicauth"}
        /\ AuthInit
    BY DEF Init, ComputeInit
  <2>2. AuthInv
    BY <2>1 DEF AuthInit, AuthInv, AuthTypeOK, OnlyAuthenticated, StaysAuthenticated, Busy
  <2> QED BY <2>1, <2>2
<1>2. AuthOfProgram /\ ComputeTypeOK /\ ExclusiveStorage /\ [Next]_vars => AuthOfProgram'
  <2> SUFFICES ASSUME AuthOfProgram, ComputeTypeOK, ExclusiveStorage, [Next]_vars
               PROVE  AuthOfProgram'
    OBVIOUS
  <2>1. CASE UNCHANGED vars
    BY <2>1 DEF vars, computeVars, authVars, AuthInit, AuthInv, AuthTypeOK,
                OnlyAuthenticated, StaysAuthenticated, Busy
  <2>2. CASE program = "go" /\ UNCHANGED <<program, authVars>>
    BY <2>2 DEF authVars, AuthInit
  <2>3. CASE program = "basicauth" /\ AuthNext /\ UNCHANGED program
    BY <2>3, AuthStepKeepsInv
  <2> QED BY <2>1, <2>2, <2>3 DEF Next
<1> QED BY <1>1, <1>2, HostInvariants, PTL DEF Spec

(* Only a candidate that has itself sent the password asked for gets in,   *)
(* for any number of VMs, candidates and passwords (authenticate).         *)
THEOREM OnlyTheAuthenticatedGetIn == Spec => []OnlyAuthenticated
<1>1. AuthOfProgram => OnlyAuthenticated
  BY DEF AuthOfProgram, AuthInv, AuthInit, OnlyAuthenticated
<1> QED BY <1>1, AuthOfProgramInvariant, PTL

(* A request is refused only without its password and with a candidate     *)
(* that was not in the set, or whose set is gone; and only its own short   *)
(* header fails its storage call, for any number of VMs, candidates and    *)
(* passwords (authenticate, Storage::get).                                 *)
THEOREM TheAuthenticatedStay == Spec => []StaysAuthenticated
<1>1. AuthOfProgram => StaysAuthenticated
  BY DEF AuthOfProgram, AuthInv, AuthInit, StaysAuthenticated
<1> QED BY <1>1, AuthOfProgramInvariant, PTL

-----------------------------------------------------------------------------
(* go/goexample.  The argument: which lines of a request storage has says  *)
(* how far the request is, and no two VMs serve the same request.          *)

IsGet(v) == go_request[v].method = "GET"

Went(n, v, call) ==
  storage_data[n].by = go_request[v].id /\ storage_data[n].call = call

CallsOf(v) ==
  /\ phase[v] \in {"waiting", "failing"} => go_request[v] = NoRequest
  /\ phase[v] \in {"queued", "storage"} =>
       IsGet(v) /\ res2[v] = NotCalled
                /\ (res1[v] = NotCalled \/ HasLines(res1[v]))
  /\ ~IsGet(v) => res1[v] = NotCalled
  /\ res2[v] # NotCalled => HasLines(res1[v])
  /\ res1[v] = NotCalled => \A n \in 1..Len(storage_data) : ~Went(n, v, "StorageCall")
  /\ res1[v] # NotCalled => \E n \in 1..Len(storage_data) : Went(n, v, "StorageCall")
  /\ res2[v] = NotCalled => \A n \in 1..Len(storage_data) : ~Went(n, v, "StorageCallV")

GoCalls ==
  /\ \A v \in VMs : CallsOf(v)
  /\ \A v, w \in VMs :
       IsGet(v) /\ IsGet(w) /\ go_request[v].id = go_request[w].id => v = w
  /\ \A n \in 1..Len(storage_data) : storage_data[n].by <= go_arrived

GoInv == GoTypeOK /\ GoCalls /\ AnswersShowStorage

LEMMA RequestFacts ==
  ASSUME GoTypeOK, NEW v \in VMs
  PROVE  /\ go_request[v].id \in 0..GoRequests /\ go_request[v].id <= go_arrived
         /\ IsGet(v) <=> go_request[v].id # 0
<1>1. CASE go_request[v] \in {NoRequest, Post, EmptyPost}
  <2>1. go_request[v].id = 0 /\ go_request[v].method # "GET"
    <3>1. /\ NoRequest.id = 0 /\ Post.id = 0 /\ EmptyPost.id = 0
          /\ NoRequest.method # "GET" /\ Post.method # "GET" /\ EmptyPost.method # "GET"
      BY DEF NoRequest, Post, EmptyPost
    <3> QED BY <1>1, <3>1
  <2> QED BY <2>1, GoAssumption DEF GoTypeOK, IsGet
<1>2. ASSUME NEW n \in 1..go_arrived, go_request[v] = Get(n)
      PROVE  /\ go_request[v].id \in 0..GoRequests /\ go_request[v].id <= go_arrived
             /\ IsGet(v) <=> go_request[v].id # 0
  BY <1>2, GoAssumption DEF GoTypeOK, IsGet, Get
<1> QED BY <1>1, <1>2 DEF GoTypeOK

LEMMA ReturnedLines ==
  ASSUME GoTypeOK, NEW v \in VMs
  PROVE  /\ res1[v].lines \in Seq(Lines) /\ res2[v].lines \in Seq(Lines)
         /\ HasLines(res1[v]) => res1[v] # NotCalled /\ Len(res1[v].lines) <= GoRoom
         /\ HasLines(res2[v]) => res2[v] # NotCalled
<1>1. \A res \in Results :
        /\ res.lines \in Seq(Lines)
        /\ HasLines(res) => res # NotCalled /\ Len(res.lines) <= GoRoom
  <2>1. NotCalled.lines \in Seq(Lines) /\ Failed.lines \in Seq(Lines)
    BY DEF NotCalled, Failed
  <2>2. ~HasLines(NotCalled) /\ ~HasLines(Failed)
    BY DEF NotCalled, Failed, HasLines
  <2> QED BY <2>1, <2>2 DEF Results
<1> QED BY <1>1 DEF GoTypeOK

(* A result is all of the lines, or the part of them the buffer has room   *)
(* for, or an error.                                                       *)
LEMMA TransferFacts ==
  ASSUME NEW s \in Seq(Lines), NEW res \in Transferred(s)
  PROVE  /\ res \in Results /\ res # NotCalled
         /\ res.state = "returned" => res.lines = s
         /\ res.state = "cut" =>
              /\ Len(res.lines) = GoRoom /\ GoRoom <= Len(s)
              /\ \A i \in 1..GoRoom : res.lines[i] = s[i]
<1> USE GoAssumption
<1>1. NotCalled.state = "not called" /\ Failed.state = "failed" /\ Failed \in Results
  BY DEF NotCalled, Failed, Results
<1>2. CASE Len(s) <= GoRoom
  <2>1. res = [state |-> "returned", lines |-> s]
    BY <1>2 DEF Transferred, Returned
  <2>2. /\ res.state = "returned" /\ res.lines = s
        /\ res \in [state : {"returned", "cut"}, lines : {t \in Seq(Lines) : Len(t) <= GoRoom}]
    BY <1>2, <2>1
  <2> QED BY <1>1, <2>2 DEF Results
<1>3. CASE ~(Len(s) <= GoRoom) /\ res = Failed
  BY <1>1, <1>3
<1>4. CASE ~(Len(s) <= GoRoom) /\ res # Failed
  <2> DEFINE t == SubSeq(s, 1, GoRoom)
  <2>1. /\ t \in Seq(Lines) /\ Len(t) = GoRoom
        /\ \A i \in 1..GoRoom : t[i] = s[i]
    BY <1>4, SubSeqProperties
  <2>2. res = [state |-> "cut", lines |-> t]
    BY <1>4 DEF Transferred, Cut
  <2> HIDE DEF t
  <2>3. /\ res.state = "cut" /\ res.lines = t
        /\ res \in [state : {"returned", "cut"}, lines : {u \in Seq(Lines) : Len(u) <= GoRoom}]
    BY <2>1, <2>2
  <2>4. res \in Results /\ res # NotCalled
    BY <1>1, <2>3 DEF Results
  <2> QED BY <1>4, <2>1, <2>3, <2>4
<1> QED BY <1>2, <1>3, <1>4

(* my_storage adds a line nobody has added before.                         *)
LEMMA MyStorageAppends ==
  ASSUME ComputeTypeOK, ExclusiveStorage, GoInv, NEW v \in VMs, MyStorage(v)
  PROVE  /\ phase[v] = "storage" /\ IsGet(v) /\ res2[v] = NotCalled
         /\ res1[v] = NotCalled \/ HasLines(res1[v])
         /\ phase' = [phase EXCEPT ![v] = "handling"]
         /\ LineOf(v) \in Lines
         /\ storage_data \in Seq(Lines) /\ storage_data' \in Seq(Lines)
         /\ Len(storage_data') = Len(storage_data) + 1
         /\ \A n \in 1..Len(storage_data) : /\ storage_data'[n] = storage_data[n]
                                            /\ storage_data[n] # LineOf(v)
         /\ storage_data'[Len(storage_data) + 1] = LineOf(v)
<1>1. phase[v] = "storage" /\ phase' = [phase EXCEPT ![v] = "handling"]
  BY DEF MyStorage, LeaveStorage, ExclusiveStorage, ComputeTypeOK
<1>2. /\ CallsOf(v)
      /\ IsGet(v) /\ res2[v] = NotCalled
      /\ res1[v] = NotCalled \/ HasLines(res1[v])
  BY <1>1 DEF GoInv, GoCalls, CallsOf
<1>3. go_request[v].id \in 1..GoRequests
  BY <1>2, RequestFacts, GoAssumption DEF GoInv
<1>4. LineOf(v) \in Lines
  BY <1>3 DEF LineOf, Lines
<1>5. storage_data \in Seq(Lines) /\ storage_data' = Append(storage_data, LineOf(v))
  BY DEF GoInv, GoTypeOK, MyStorage
<1>6. \A n \in 1..Len(storage_data) : storage_data[n] # LineOf(v)
  BY <1>2 DEF CallsOf, Went, LineOf
<1> QED BY <1>1, <1>2, <1>4, <1>5, <1>6, AppendProperties


LEMMA MyStorageKeepsCalls ==
  ASSUME ComputeTypeOK, ExclusiveStorage, GoInv, NEW v \in VMs, MyStorage(v)
  PROVE  GoTypeOK' /\ GoCalls'
<1>1. /\ phase[v] = "storage" /\ IsGet(v) /\ res2[v] = NotCalled
      /\ res1[v] = NotCalled \/ HasLines(res1[v])
      /\ phase' = [phase EXCEPT ![v] = "handling"]
      /\ LineOf(v) \in Lines
      /\ storage_data \in Seq(Lines) /\ storage_data' \in Seq(Lines)
      /\ Len(storage_data') = Len(storage_data) + 1
      /\ \A n \in 1..Len(storage_data) : storage_data'[n] = storage_data[n]
      /\ storage_data'[Len(storage_data) + 1] = LineOf(v)
  BY MyStorageAppends
<1>0. PICK L \in Nat : L = Len(storage_data)
  BY <1>1
<1>2. /\ UNCHANGED <<go_arrived, go_request>>
      /\ \A w \in VMs : IsGet(w)' <=> IsGet(w)
  BY DEF MyStorage, IsGet
<1>3. \A res \in Transferred(storage_data') : res \in Results /\ res # NotCalled
  BY <1>1, TransferFacts
<1>4. /\ \A w \in VMs : w # v => res1'[w] = res1[w] /\ res2'[w] = res2[w]
      /\ res1[v] = NotCalled =>
           res1'[v] \in Transferred(storage_data') /\ res2'[v] = res2[v]
      /\ res1[v] # NotCalled =>
           res1'[v] = res1[v] /\ res2'[v] \in Transferred(storage_data')
  BY DEF MyStorage, GoInv, GoTypeOK
<1>5. GoTypeOK'
  <2>2. res1' \in [VMs -> Results] /\ res2' \in [VMs -> Results]
    BY <1>3 DEF MyStorage, GoInv, GoTypeOK
  <2> QED BY <1>1, <1>2, <2>2 DEF GoInv, GoTypeOK
<1>6. /\ \A w \in VMs : CallsOf(w)
      /\ \A w \in VMs : go_request[w].id = go_request[v].id => w = v
      /\ go_request[v].id <= go_arrived
  BY <1>1, RequestFacts DEF GoInv, GoCalls
<1>7. /\ LineOf(v).by = go_request[v].id
      /\ LineOf(v).call = IF res1[v] = NotCalled THEN "StorageCall" ELSE "StorageCallV"
  BY DEF LineOf
<1>8. \A w \in VMs, call \in {"StorageCall", "StorageCallV"} :
        /\ \A n \in 1..L : Went(n, w, call)' <=> Went(n, w, call)
        /\ Went(L + 1, w, call)' <=> w = v /\ call = LineOf(v).call
  BY <1>0, <1>1, <1>2, <1>6, <1>7 DEF Went
<1>9. ASSUME NEW w \in VMs, w # v
      PROVE  CallsOf(w)'
  <2>2. \A call \in {"StorageCall", "StorageCallV"} :
          \A n \in 1..Len(storage_data') : Went(n, w, call)' => n \in 1..L /\ Went(n, w, call)
    BY <1>1, <1>0, <1>8, <1>9
  <2>3. \A call \in {"StorageCall", "StorageCallV"} :
          \A n \in 1..L : Went(n, w, call) => n \in 1..Len(storage_data') /\ Went(n, w, call)'
    BY <1>0, <1>1, <1>8
  <2>4. /\ phase'[w] = phase[w] /\ (IsGet(w)' <=> IsGet(w))
        /\ go_request'[w] = go_request[w]
        /\ res1'[w] = res1[w] /\ res2'[w] = res2[w]
    BY <1>1, <1>2, <1>4, <1>9 DEF ComputeTypeOK
  <2> QED BY <1>0, <1>6, <2>2, <2>3, <2>4 DEF CallsOf
<1>10. CallsOf(v)'
  <2>1. phase'[v] = "handling" /\ IsGet(v)'
    BY <1>1, <1>2 DEF ComputeTypeOK
  <2>2. CASE res1[v] = NotCalled
    <3>1. /\ res1'[v] # NotCalled /\ res2'[v] = NotCalled
          /\ Went(L + 1, v, "StorageCall")'
          /\ \A n \in 1..Len(storage_data') : ~Went(n, v, "StorageCallV")'
      BY <1>0, <1>1, <1>3, <1>4, <1>6, <1>7, <1>8, <2>2 DEF CallsOf
    <3>2. L + 1 \in 1..Len(storage_data')
      BY <1>0, <1>1
    <3> QED BY <2>1, <3>1, <3>2 DEF CallsOf
  <2>3. CASE res1[v] # NotCalled
    <3>1. res1'[v] = res1[v] /\ HasLines(res1[v]) /\ res2'[v] # NotCalled
      BY <1>1, <1>3, <1>4, <2>3
    <3>2. \E n \in 1..Len(storage_data') : Went(n, v, "StorageCall")'
      BY <1>0, <1>1, <1>6, <1>8, <2>3 DEF CallsOf
    <3> QED BY <2>1, <2>3, <3>1, <3>2 DEF CallsOf
  <2> QED BY <2>2, <2>3
<1>11. \A n \in 1..Len(storage_data') : storage_data'[n].by <= go_arrived'
  BY <1>0, <1>1, <1>2, <1>6, <1>7 DEF GoInv, GoCalls
<1> QED BY <1>2, <1>5, <1>9, <1>10, <1>11 DEF GoInv, GoCalls

LEMMA MyStorageKeepsAnswers ==
  ASSUME ComputeTypeOK, ExclusiveStorage, GoInv, NEW v \in VMs, MyStorage(v)
  PROVE  AnswersShowStorage'
<1>1. /\ IsGet(v) /\ res2[v] = NotCalled
      /\ res1[v] = NotCalled \/ HasLines(res1[v])
      /\ LineOf(v) \in Lines
      /\ storage_data \in Seq(Lines) /\ storage_data' \in Seq(Lines)
      /\ Len(storage_data') = Len(storage_data) + 1
      /\ \A n \in 1..Len(storage_data) : /\ storage_data'[n] = storage_data[n]
                                         /\ storage_data[n] # LineOf(v)
      /\ storage_data'[Len(storage_data) + 1] = LineOf(v)
  BY MyStorageAppends
<1>0. PICK L \in Nat : L = Len(storage_data)
  BY <1>1
<1>2. \A s \in Seq(Lines) : IsPrefix(s, storage_data) =>
         IsPrefix(s, storage_data') /\ s # storage_data'
  <2>1. ASSUME NEW s \in Seq(Lines), IsPrefix(s, storage_data)
        PROVE  IsPrefix(s, storage_data') /\ s # storage_data'
    <3>1. /\ Len(s) \in Nat /\ Len(s) <= Len(storage_data)
          /\ \A i \in 1..Len(s) : s[i] = storage_data[i]
      BY <1>1, <2>1, PrefixEntries
    <3>2. /\ Len(s) <= Len(storage_data')
          /\ \A i \in 1..Len(s) : s[i] = storage_data'[i]
      BY <1>0, <1>1, <3>1
    <3>3. s # storage_data'
      BY <1>0, <1>1, <3>1
    <3> QED BY <1>1, <3>2, <3>3, PrefixEntries
  <2> QED BY <2>1
<1>3. /\ IsPrefix(storage_data', storage_data') /\ storage_data' # <<>>
      /\ Last(storage_data') = LineOf(v)
  BY <1>0, <1>1, PrefixEntries DEF Last
<1>4. \A w \in VMs : /\ res1[w].lines \in Seq(Lines) /\ res2[w].lines \in Seq(Lines)
                     /\ HasLines(res1[w]) => res1[w] # NotCalled /\ Len(res1[w].lines) <= GoRoom
                     /\ HasLines(res2[w]) => res2[w] # NotCalled
  BY ReturnedLines DEF GoInv
<1>5. /\ UNCHANGED go_request
      /\ LineOf(v).by = go_request[v].id
      /\ LineOf(v).call = IF res1[v] = NotCalled THEN "StorageCall" ELSE "StorageCallV"
  BY DEF MyStorage, LineOf
<1>6. \A res \in Transferred(storage_data') :
        /\ res.lines \in Seq(Lines)
        /\ HasLines(res) => IsPrefix(res.lines, storage_data')
        /\ res.state = "returned" => res.lines = storage_data'
        /\ res.state = "cut" => Len(res.lines) = GoRoom /\ GoRoom <= Len(storage_data')
  <2> SUFFICES ASSUME NEW res \in Transferred(storage_data')
               PROVE  /\ res.lines \in Seq(Lines)
                      /\ HasLines(res) => IsPrefix(res.lines, storage_data')
                      /\ res.state = "returned" => res.lines = storage_data'
                      /\ res.state = "cut" => Len(res.lines) = GoRoom /\ GoRoom <= Len(storage_data')
    OBVIOUS
  <2>1. /\ res \in Results
        /\ res.state = "returned" => res.lines = storage_data'
        /\ res.state = "cut" =>
             /\ Len(res.lines) = GoRoom /\ GoRoom <= Len(storage_data')
             /\ \A i \in 1..GoRoom : res.lines[i] = storage_data'[i]
    BY <1>1, TransferFacts
  <2>2. res.lines \in Seq(Lines)
    <3>1. NotCalled.lines = <<>> /\ Failed.lines = <<>> /\ <<>> \in Seq(Lines)
      BY DEF NotCalled, Failed
    <3> QED BY <2>1, <3>1 DEF Results
  <2> QED BY <1>1, <1>3, <2>1, <2>2, PrefixEntries DEF HasLines
<1>7. /\ \A w \in VMs : w # v => res1'[w] = res1[w] /\ res2'[w] = res2[w]
      /\ res1[v] = NotCalled =>
           res1'[v] \in Transferred(storage_data') /\ res2'[v] = res2[v]
      /\ res1[v] # NotCalled =>
           res1'[v] = res1[v] /\ res2'[v] \in Transferred(storage_data')
  BY DEF MyStorage, GoInv, GoTypeOK
<1>8. \A w \in VMs : \A res \in {res1[w], res2[w]} :
        /\ HasLines(res) => IsPrefix(res.lines, storage_data')
        /\ res.state = "returned" => res.lines # <<>> /\ Last(res.lines).by = go_request[w].id
  BY <1>2, <1>4 DEF GoInv, AnswersShowStorage
<1>9. \A w \in VMs : \A res \in {res1'[w], res2'[w]} :
        /\ HasLines(res) => IsPrefix(res.lines, storage_data')
        /\ res.state = "returned" => res.lines # <<>> /\ Last(res.lines).by = go_request'[w].id
  BY <1>3, <1>5, <1>6, <1>7, <1>8
<1>10. ASSUME NEW w \in VMs, HasLines(res2'[w])
       PROVE  /\ IsPrefix(res1'[w].lines, res2'[w].lines)
              /\ res2'[w].state = "returned" =>
                   /\ res1'[w].lines # res2'[w].lines
                   /\ Last(res2'[w].lines).call = "StorageCallV"
  <2>1. CASE w = v /\ res1[v] # NotCalled
    <3>1. /\ res1'[w] = res1[v] /\ res2'[w] \in Transferred(storage_data')
          /\ res2'[w].lines \in Seq(Lines) /\ IsPrefix(res2'[w].lines, storage_data')
      BY <1>6, <1>7, <1>10, <2>1
    <3>2. /\ IsPrefix(res1[v].lines, storage_data) /\ res1[v].lines \in Seq(Lines)
          /\ Len(res1[v].lines) <= GoRoom
      BY <1>1, <1>4, <2>1 DEF GoInv, AnswersShowStorage
    <3>3. IsPrefix(res1[v].lines, storage_data') /\ res1[v].lines # storage_data'
      BY <1>2, <3>2
    <3>4. CASE res2'[w].state = "returned"
      BY <1>3, <1>5, <1>6, <2>1, <3>1, <3>3, <3>4
    <3>5. CASE res2'[w].state = "cut"
      <4>1. Len(res2'[w].lines) = GoRoom /\ GoRoom <= Len(storage_data')
        BY <1>6, <3>1, <3>5
      <4>2. /\ \A i \in 1..Len(res1[v].lines) : res1[v].lines[i] = storage_data'[i]
            /\ \A i \in 1..GoRoom : res2'[w].lines[i] = storage_data'[i]
        BY <1>1, <3>1, <3>2, <3>3, <4>1, PrefixEntries
      <4>3. \A i \in 1..Len(res1[v].lines) : res1[v].lines[i] = res2'[w].lines[i]
        BY <3>2, <4>2, GoAssumption
      <4> QED BY <3>1, <3>2, <3>5, <4>1, <4>3, PrefixEntries
    <3> QED BY <1>10, <3>4, <3>5 DEF HasLines
  <2>2. CASE ~(w = v /\ res1[v] # NotCalled)
    <3>1. res2'[w] = res2[w] /\ w # v /\ res1'[w] = res1[w]
      BY <1>1, <1>4, <1>7, <1>10, <2>2
    <3> QED BY <1>10, <3>1 DEF GoInv, AnswersShowStorage
  <2> QED BY <2>1, <2>2
<1>a. \A w \in VMs : res2'[w].state = "returned" =>
        /\ HasLines(res2'[w])
        /\ res1'[w].lines # res2'[w].lines
        /\ Last(res2'[w].lines).call = "StorageCallV"
  BY <1>10 DEF HasLines
<1>11. \A m, n \in 1..Len(storage_data') : storage_data'[m] = storage_data'[n] => m = n
  BY <1>0, <1>1 DEF GoInv, AnswersShowStorage
<1>12. ASSUME NEW n \in 1..Len(storage_data'), storage_data'[n].call = "StorageCallV"
       PROVE  \E m \in 1..(n-1) :
                storage_data'[m] = [storage_data'[n] EXCEPT !.call = "StorageCall"]
  <2>1. CASE n \in 1..L
    <3>1. PICK m \in 1..(n-1) :
            storage_data[m] = [storage_data[n] EXCEPT !.call = "StorageCall"]
      BY <1>0, <1>1, <1>12, <2>1 DEF GoInv, AnswersShowStorage
    <3> QED BY <1>0, <1>1, <2>1, <3>1
  <2>2. CASE n = L + 1
    <3>1. storage_data'[n] = LineOf(v) /\ res1[v] # NotCalled
      BY <1>0, <1>1, <1>5, <1>12, <2>2
    <3>2. PICK m \in 1..L : Went(m, v, "StorageCall")
      BY <1>0, <3>1 DEF GoInv, GoCalls, CallsOf
    <3>3. storage_data[m] \in Lines /\ storage_data[m].by = LineOf(v).by
            /\ storage_data[m].call = "StorageCall"
      BY <1>0, <1>1, <1>5, <3>2 DEF Went
    <3>4. storage_data[m] = [LineOf(v) EXCEPT !.call = "StorageCall"]
      BY <1>1, <3>3 DEF Lines
    <3> QED BY <1>0, <1>1, <2>2, <3>1, <3>2, <3>4
  <2> QED BY <1>0, <1>1, <2>1, <2>2
<1> QED BY <1>9, <1>10, <1>a, <1>11, <1>12 DEF AnswersShowStorage

LEMMA CallFacts ==
  ASSUME NEW v \in VMs, CallsOf(v)
  PROVE  /\ phase[v] \in {"waiting", "failing"} =>
              go_request[v] = NoRequest /\ res1[v] = NotCalled
         /\ res1[v] = NotCalled => res2[v] = NotCalled
<1>1. ~HasLines(NotCalled) /\ NoRequest.method # "GET"
  BY DEF NotCalled, NoRequest, HasLines
<1> QED BY <1>1 DEF CallsOf, IsGet

LEMMA LineFacts ==
  ASSUME GoTypeOK, NEW n \in 1..Len(storage_data)
  PROVE  storage_data[n].by \in Nat /\ storage_data[n].by # 0
<1>1. storage_data[n] \in Lines
  BY DEF GoTypeOK
<1> QED BY <1>1, GoAssumption DEF Lines

LEMMA GoStepKeepsInv ==
  ASSUME ComputeTypeOK, ExclusiveStorage, GoInv, GoNext
  PROVE  GoInv'
<1>1. ASSUME NEW v \in VMs, GoTakeGet(v)
      PROVE  GoInv'
  <2>1. /\ phase[v] = "waiting" /\ go_arrived < GoRequests
        /\ phase' = [phase EXCEPT ![v] = "handling"]
        /\ go_arrived' = go_arrived + 1
        /\ go_request' = [go_request EXCEPT ![v] = Get(go_arrived + 1)]
        /\ UNCHANGED <<res1, res2, storage_data>>
    BY <1>1 DEF GoTakeGet, Receive
  <2>2. /\ go_arrived \in 0..GoRequests
        /\ \A w \in VMs : go_request[w].id <= go_arrived /\ go_request[w].id \in Nat
        /\ CallsOf(v) /\ go_request[v] = NoRequest
        /\ res1[v] = NotCalled /\ res2[v] = NotCalled
    <3>1. go_arrived \in 0..GoRequests
      BY DEF GoInv, GoTypeOK
    <3>2. \A w \in VMs : go_request[w].id <= go_arrived /\ go_request[w].id \in Nat
      BY RequestFacts, GoAssumption DEF GoInv
    <3>3. CallsOf(v)
      BY DEF GoInv, GoCalls
    <3> QED BY <2>1, <3>1, <3>2, <3>3, CallFacts
  <2>3. /\ go_request'[v] = Get(go_arrived + 1)
        /\ \A w \in VMs : w # v => go_request'[w] = go_request[w] /\ phase'[w] = phase[w]
        /\ phase'[v] = "handling"
    BY <2>1 DEF GoInv, GoTypeOK, ComputeTypeOK
  <2>4. GoTypeOK'
    <3>1. 1..go_arrived \subseteq 1..go_arrived'
      BY <2>1, <2>2, GoAssumption
    <3>2. go_arrived + 1 \in 1..go_arrived' /\ go_arrived' \in 0..GoRequests
      BY <2>1, <2>2, GoAssumption
    <3>3. go_request' \in [VMs -> {NoRequest, Post, EmptyPost} \cup {Get(n) : n \in 1..go_arrived'}]
      BY <2>1, <3>1, <3>2 DEF GoInv, GoTypeOK
    <3> QED BY <2>1, <3>2, <3>3 DEF GoInv, GoTypeOK
  <2>5. Get(go_arrived + 1).method = "GET" /\ Get(go_arrived + 1).id = go_arrived + 1
    BY DEF Get
  <2>6. \A w \in VMs : w # v => CallsOf(w)'
    BY <2>1, <2>3 DEF GoInv, GoCalls, CallsOf, IsGet, Went
  <2>7. CallsOf(v)'
    BY <2>1, <2>2, <2>3, <2>5 DEF GoInv, GoCalls, CallsOf, IsGet, Went
  <2>8. \A w, x \in VMs :
          IsGet(w)' /\ IsGet(x)' /\ go_request'[w].id = go_request'[x].id => w = x
    BY <2>2, <2>3, <2>5, GoAssumption DEF GoInv, GoCalls, IsGet
  <2>9. \A n \in 1..Len(storage_data') : storage_data'[n].by <= go_arrived'
    <3>1. \A n \in 1..Len(storage_data) : storage_data[n].by \in Nat
      BY LineFacts DEF GoInv
    <3> QED BY <2>1, <2>2, <3>1 DEF GoInv, GoCalls
  <2>10. AnswersShowStorage'
    <3>1. \A w \in VMs : HasLines(res1[w]) \/ HasLines(res2[w]) => w # v
      <4>1. ~HasLines(NotCalled)
        BY DEF NotCalled, HasLines
      <4> QED BY <2>2, <4>1
    <3> QED BY <2>1, <2>3, <3>1 DEF GoInv, AnswersShowStorage, HasLines
  <2> QED BY <2>4, <2>6, <2>7, <2>8, <2>9, <2>10 DEF GoInv, GoCalls
<1>2. ASSUME NEW v \in VMs, NEW r \in {NoRequest, Post, EmptyPost},
             UNCHANGED <<go_arrived, storage_data>>,
             go_request' = [go_request EXCEPT ![v] = r],
             \A w \in VMs : w # v => phase'[w] = phase[w],
             phase'[v] \in {"waiting", "failing", "handling"},
             phase'[v] # "handling" => r = NoRequest,
             res1' = [res1 EXCEPT ![v] = NotCalled],
             res2' = [res2 EXCEPT ![v] = NotCalled]
      PROVE  GoInv'
  <2>1. /\ go_request'[v] = r /\ res1'[v] = NotCalled /\ res2'[v] = NotCalled
        /\ \A w \in VMs : w # v => /\ go_request'[w] = go_request[w]
                                   /\ res1'[w] = res1[w] /\ res2'[w] = res2[w]
    BY <1>2 DEF GoInv, GoTypeOK
  <2>2. NotCalled \in Results /\ NotCalled.state # "returned" /\ NotCalled.state # "cut"
    BY DEF Results, NotCalled
  <2>3. GoTypeOK'
    BY <1>2, <2>1, <2>2 DEF GoInv, GoTypeOK
  <2>4. r.id = 0 /\ r.method # "GET"
    <3>1. /\ NoRequest.id = 0 /\ Post.id = 0 /\ EmptyPost.id = 0
          /\ NoRequest.method # "GET" /\ Post.method # "GET" /\ EmptyPost.method # "GET"
      BY DEF NoRequest, Post, EmptyPost
    <3> QED BY <3>1
  <2>5. \A n \in 1..Len(storage_data) : storage_data[n].by # 0
    BY LineFacts DEF GoInv
  <2>6. \A w \in VMs : w # v => CallsOf(w)'
    BY <1>2, <2>1 DEF GoInv, GoCalls, CallsOf, IsGet, Went
  <2>7. CallsOf(v)'
    BY <1>2, <2>1, <2>4, <2>5 DEF CallsOf, IsGet, Went
  <2>8. \A w, x \in VMs :
          IsGet(w)' /\ IsGet(x)' /\ go_request'[w].id = go_request'[x].id => w = x
    BY <2>1, <2>4 DEF GoInv, GoCalls, IsGet
  <2>9. AnswersShowStorage'
    BY <1>2, <2>1, <2>2 DEF GoInv, AnswersShowStorage, HasLines
  <2> QED BY <1>2, <2>3, <2>6, <2>7, <2>8, <2>9 DEF GoInv, GoCalls
<1>3. ASSUME NEW v \in VMs, NEW r \in {Post, EmptyPost}, GoTakePost(v, r)
      PROVE  GoInv'
  <2>1. phase[v] = "waiting" /\ phase' = [phase EXCEPT ![v] = "handling"]
    BY <1>3 DEF GoTakePost, Receive
  <2>2. res1[v] = NotCalled /\ res2[v] = NotCalled
    BY <2>1, CallFacts DEF GoInv, GoCalls
  <2>3. res1' = [res1 EXCEPT ![v] = NotCalled] /\ res2' = [res2 EXCEPT ![v] = NotCalled]
    BY <1>3, <2>2 DEF GoTakePost, GoInv, GoTypeOK
  <2> QED BY <1>2, <1>3, <2>1, <2>3 DEF GoTakePost, ComputeTypeOK
<1>4. ASSUME NEW v \in VMs, GoDeliver(v) \/ GoPanic(v) \/ GoExpire(v)
      PROVE  GoInv'
  <2>1. /\ GoForget(v)
        /\ \A w \in VMs : w # v => phase'[w] = phase[w]
        /\ phase'[v] \in {"waiting", "failing"}
    BY <1>4 DEF GoDeliver, GoPanic, GoExpire, Respond, Crash, TimeOut, ComputeTypeOK
  <2> QED BY <1>2, <2>1 DEF GoForget
<1>5. ASSUME NEW v \in VMs, GoCall(v) \/ GoError(v) \/ (EnterStorage(v) /\ UNCHANGED goVars)
      PROVE  GoInv'
  <2>1. UNCHANGED goVars
    BY <1>5 DEF GoCall, GoError
  <2>2. \A w \in VMs : CallsOf(w)'
    <3>1. \A w \in VMs : CallsOf(w)
      BY DEF GoInv, GoCalls
    <3>2. CASE GoCall(v)
      <4>1. /\ phase' = [phase EXCEPT ![v] = "queued"]
            /\ IsGet(v) /\ (res1[v] = NotCalled \/ HasLines(res1[v]))
            /\ res2[v] = NotCalled
        BY <3>1, <3>2, CallFacts DEF GoCall, CallStorage, IsGet
      <4> QED BY <2>1, <3>1, <4>1 DEF goVars, CallsOf, IsGet, Went, ComputeTypeOK
    <3>3. CASE GoError(v)
      <4>1. phase' = [phase EXCEPT ![v] = "waiting"] /\ phase[v] = "failing"
        BY <3>3 DEF GoError, RespondError
      <4> QED BY <2>1, <3>1, <4>1 DEF goVars, CallsOf, IsGet, Went, ComputeTypeOK
    <3>4. CASE EnterStorage(v)
      <4>1. phase[v] = "queued" /\ phase' = [w \in VMs |-> IF w = v THEN "storage" ELSE phase[w]]
        BY <3>4, HeadIsQueued DEF EnterStorage
      <4> QED BY <2>1, <3>1, <4>1 DEF goVars, CallsOf, IsGet, Went
    <3> QED BY <1>5, <3>2, <3>3, <3>4
  <2>3. GoTypeOK' /\ AnswersShowStorage'
    BY <2>1 DEF goVars, GoInv, GoTypeOK, AnswersShowStorage
  <2> QED BY <2>1, <2>2, <2>3 DEF goVars, GoInv, GoCalls, IsGet
<1>6. ASSUME NEW v \in VMs, MyStorage(v)
      PROVE  GoInv'
  BY <1>6, MyStorageKeepsCalls, MyStorageKeepsAnswers DEF GoInv
<1> HIDE DEF GoInv
<1>7. ASSUME NEW v \in VMs, GoProgress(v)
      PROVE  GoInv'
  <2>1. CASE GoCall(v) \/ GoError(v)
    BY <2>1, <1>5
  <2>2. CASE MyStorage(v)
    BY <2>2, <1>6
  <2>3. CASE GoDeliver(v) \/ GoPanic(v)
    BY <2>3, <1>4
  <2> QED BY <1>7, <2>1, <2>2, <2>3 DEF GoProgress
<1>8. ASSUME NEW v \in VMs, EnterStorage(v), UNCHANGED goVars
      PROVE  GoInv'
  BY <1>5, <1>8
<1> QED BY <1>1, <1>3, <1>4, <1>7, <1>8 DEF GoNext

GoOfProgram ==
  /\ program \in {"go", "basicauth"}
  /\ program = "go" => GoInv
  /\ program = "basicauth" => GoInit

LEMMA InitialGo == GoInit => GoTypeOK /\ AnswersShowStorage
<1> SUFFICES ASSUME GoInit PROVE GoTypeOK /\ AnswersShowStorage
  OBVIOUS
<1>1. NotCalled \in Results /\ NotCalled.state # "returned" /\ ~HasLines(NotCalled)
  BY DEF Results, NotCalled, HasLines
<1>2. GoTypeOK
  BY <1>1, GoAssumption DEF GoInit, GoTypeOK
<1>3. AnswersShowStorage
  BY <1>1 DEF GoInit, AnswersShowStorage
<1> QED BY <1>2, <1>3

LEMMA GoOfProgramInvariant == Spec => []GoOfProgram
<1> USE DEF GoOfProgram
<1>1. Init => GoOfProgram
  <2> SUFFICES ASSUME Init PROVE GoOfProgram
    OBVIOUS
  <2>1. /\ phase = [v \in VMs |-> "waiting"] /\ program \in {"go", "basicauth"}
        /\ GoInit
    BY DEF Init, ComputeInit
  <2>2. GoCalls
    BY <2>1 DEF GoInit, GoCalls, CallsOf, IsGet, NoRequest
  <2> QED BY <2>1, <2>2, InitialGo DEF GoInv
<1>2. GoOfProgram /\ ComputeTypeOK /\ ExclusiveStorage /\ [Next]_vars => GoOfProgram'
  <2> SUFFICES ASSUME GoOfProgram, ComputeTypeOK, ExclusiveStorage, [Next]_vars
               PROVE  GoOfProgram'
    OBVIOUS
  <2>1. CASE UNCHANGED vars
    BY <2>1 DEF vars, computeVars, goVars, GoInit, GoInv, GoTypeOK, GoCalls, CallsOf,
                IsGet, Went, AnswersShowStorage
  <2>2. CASE program = "basicauth" /\ UNCHANGED <<program, goVars>>
    BY <2>2 DEF goVars, GoInit
  <2>3. CASE program = "go" /\ GoNext /\ UNCHANGED program
    BY <2>3, GoStepKeepsInv
  <2> QED BY <2>1, <2>2, <2>3 DEF Next
<1> QED BY <1>1, <1>2, HostInvariants, PTL DEF Spec

(* The results of a GET are what storage held right after the lines of its *)
(* own calls, or beginnings of that if they do not fit, for any number of  *)
(* VMs and requests, any size of the result buffer, and whatever the host  *)
(* does with a result that is too long (my_storage, on_get).               *)
THEOREM ResultsShowStorage == Spec => []AnswersShowStorage
<1>1. GoOfProgram => AnswersShowStorage
  BY InitialGo DEF GoOfProgram, GoInv
<1> QED BY <1>1, GoOfProgramInvariant, PTL

===============================================================================
