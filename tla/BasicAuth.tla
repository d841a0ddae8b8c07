------------------------------- MODULE BasicAuth -------------------------------
(***************************************************************************)
(* cpp/src/basicauth.cpp: storage keeps the set of candidates (clients, as *)
(* the VCL names them) that have authenticated.  A request carries its     *)
(* candidate, the password asked for, and a header `Authorization' that    *)
(* may hold a password.  It is answered with 200 if its candidate is in    *)
(* the set or the passwords agree, with 401 otherwise and after any error. *)
(*                                                                         *)
(* The program has no callbacks for a live update: the next program starts *)
(* with an empty set, which is another behaviour.                          *)
(***************************************************************************)
EXTENDS Compute

CONSTANTS
  Candidates,
  Passwords,   \* what to_base64 and the header may spell
  NoHeader,    \* no header, or one of more than 1024 bytes
  ShortHeader  \* a header without a character after its colon

ASSUME AuthAssumption ==
  /\ NoHeader \notin Passwords
  /\ ShortHeader \notin Passwords
  /\ NoHeader # ShortHeader

VARIABLES
  auth_request,   \* the request each VM serves
  result,         \* what its storage call has given it
  authenticated,  \* the set in storage
  proved,         \* the candidates that have sent the password asked for
  known           \* the VMs whose candidate was in the set when they began

authVars == <<auth_request, result, authenticated, proved, known>>

AuthRequests ==
  [info : Candidates, password : Passwords, header : Passwords \cup {NoHeader, ShortHeader}]

NoAuthRequest == [info |-> NoHeader, password |-> NoHeader, header |-> NoHeader]

AuthTypeOK ==
  /\ auth_request \in [VMs -> AuthRequests \cup {NoAuthRequest}]
  /\ result \in [VMs -> {"none", "OK", "Failed", "error"}]
  /\ authenticated \subseteq Candidates
  /\ proved \subseteq Candidates
  /\ known \subseteq VMs

AuthInit ==
  /\ auth_request = [v \in VMs |-> NoAuthRequest]
  /\ result = [v \in VMs |-> "none"]
  /\ authenticated = {}
  /\ proved = {}
  /\ known = {}

AuthTake(v, r) ==
  /\ Receive(v)
  /\ auth_request' = [auth_request EXCEPT ![v] = r]
  /\ proved' = IF r.header = r.password THEN proved \cup {r.info} ELSE proved
  /\ known' = IF r.info \in authenticated THEN known \cup {v} ELSE known \ {v}
  /\ UNCHANGED <<result, authenticated>>

AuthCall(v) ==
  /\ result[v] = "none"
  /\ CallStorage(v)
  /\ UNCHANGED authVars

(* Variants: everyone is inserted before the passwords are compared; the   *)
(* set is not consulted.                                                   *)
AuthenticateAnyone(v) ==
  /\ auth_request[v].header # ShortHeader
  /\ LeaveStorage(v)
  /\ result' = [result EXCEPT ![v] =
                  IF \/ auth_request[v].info \in authenticated
                     \/ auth_request[v].password = auth_request[v].header
                    THEN "OK" ELSE "Failed"]
  /\ authenticated' = authenticated \cup {auth_request[v].info}
  /\ UNCHANGED <<auth_request, proved, known>>

AuthenticateEachTime(v) ==
  /\ auth_request[v].header # ShortHeader
  /\ LeaveStorage(v)
  /\ \/ /\ auth_request[v].password = auth_request[v].header
        /\ result' = [result EXCEPT ![v] = "OK"]
        /\ authenticated' = authenticated \cup {auth_request[v].info}
     \/ /\ auth_request[v].password # auth_request[v].header
        /\ result' = [result EXCEPT ![v] = "Failed"]
        /\ UNCHANGED authenticated
  /\ UNCHANGED <<auth_request, proved, known>>

(* The storage function `authenticate' when the header is long enough.     *)
Authenticate(v) ==
  LET r == auth_request[v] IN
  /\ r.header # ShortHeader
  /\ LeaveStorage(v)
  /\ \/ /\ r.info \in authenticated
        /\ result' = [result EXCEPT ![v] = "OK"]
        /\ UNCHANGED authenticated
     \/ /\ r.info \notin authenticated
        /\ r.password = r.header
        /\ result' = [result EXCEPT ![v] = "OK"]
        /\ authenticated' = authenticated \cup {r.info}
     \/ /\ r.info \notin authenticated
        /\ r.password # r.header
        /\ result' = [result EXCEPT ![v] = "Failed"]
        /\ UNCHANGED authenticated
  /\ UNCHANGED <<auth_request, proved, known>>

(* inpass.substr(15) throws in storage, and the caller gets an error.  The *)
(* host keeps what storage has, or starts it anew.                         *)
AuthenticateThrows(v) ==
  /\ auth_request[v].header = ShortHeader
  /\ LeaveStorage(v)
  /\ result' = [result EXCEPT ![v] = "error"]
  /\ \/ UNCHANGED <<authenticated, known>>
     \/ authenticated' = {} /\ known' = {}
  /\ UNCHANGED <<auth_request, proved>>

AuthForget(v) ==
  /\ auth_request' = [auth_request EXCEPT ![v] = NoAuthRequest]
  /\ result' = [result EXCEPT ![v] = "none"]
  /\ known' = known \ {v}
  /\ UNCHANGED <<authenticated, proved>>

(* on_get and on_post: 200 for OK, 401 for Failed.                         *)
AuthRespond(v) ==
  /\ result[v] \in {"OK", "Failed"}
  /\ Respond(v)
  /\ AuthForget(v)

(* Storage::get throws if the call failed, and nothing catches it.         *)
AuthThrow(v) ==
  /\ result[v] = "error"
  /\ Crash(v)
  /\ AuthForget(v)

AuthExpire(v) == TimeOut(v) /\ AuthForget(v)

(* on_error answers with 401.                                              *)
OnError(v) == RespondError(v) /\ UNCHANGED authVars

(* The steps of a request that has arrived, its time limit aside.          *)
AuthProgress(v) ==
  \/ AuthCall(v) \/ Authenticate(v) \/ AuthenticateThrows(v)
  \/ AuthRespond(v) \/ AuthThrow(v) \/ OnError(v)

AuthNext ==
  \/ \E v \in VMs : \/ \E r \in AuthRequests : AuthTake(v, r)
                    \/ AuthProgress(v)
                    \/ AuthExpire(v)
  \/ \E v \in VMs : EnterStorage(v) /\ UNCHANGED authVars

-----------------------------------------------------------------------------

(* Only a candidate that has itself sent the password asked for gets in:   *)
(* nothing is inserted or answered with 200 for another one's request, a   *)
(* header that is missing or too short, or a storage call that failed or   *)
(* timed out (authenticate, Storage::get, on_get, on_post).                *)
OnlyAuthenticated ==
  /\ authenticated \subseteq proved
  /\ \A v \in VMs : result[v] = "OK" => auth_request[v].info \in proved

(* Who is answered with 401.  A request is refused only if it does not     *)
(* carry its password and its candidate was not in the set when it began,  *)
(* or storage was started anew since; and its storage call fails, after    *)
(* which on_error refuses it, only for its own header that is too short    *)
(* for substr, which comes before the set is consulted, and not for one    *)
(* that another request sent (authenticate, Storage::get).  on_error also  *)
(* refuses every request that runs out of time.                            *)
StaysAuthenticated ==
  \A v \in VMs :
    /\ result[v] = "Failed" =>
         /\ v \notin known
         /\ auth_request[v].header # auth_request[v].password
    /\ result[v] = "error" => auth_request[v].header = ShortHeader

===============================================================================
