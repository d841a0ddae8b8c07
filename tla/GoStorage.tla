------------------------------- MODULE GoStorage -------------------------------
(***************************************************************************)
(* go/goexample on the Go binding: a GET calls the storage function        *)
(* my_storage twice, once with one byte slice and once with several.  Each *)
(* call adds a line to storage_data and returns all of it, in a result     *)
(* buffer of a fixed size.  Other requests get in between the two calls.   *)
(*                                                                         *)
(* The lines the code adds are constants: here a line also carries the     *)
(* number of its request, to tell them apart.  The program has no          *)
(* callbacks for a live update: the next program is another behaviour.     *)
(***************************************************************************)
EXTENDS Compute

CONSTANTS
  GoRequests,  \* bound: the number of GET requests
  GoRoom       \* the lines that fit the result buffer, 2 MB in the code

ASSUME GoAssumption == GoRequests \in Nat /\ GoRoom \in Nat

VARIABLES
  go_arrived,   \* the number of GET requests so far
  go_request,   \* the request each VM serves
  res1, res2,   \* what its storage calls have given it
  storage_data

goVars == <<go_arrived, go_request, res1, res2, storage_data>>

Lines == [by : 1..GoRequests, call : {"StorageCall", "StorageCallV"}]

Get(n) == [method |-> "GET", id |-> n]
Post == [method |-> "POST", id |-> 0]
EmptyPost == [method |-> "empty POST", id |-> 0]
NoRequest == [method |-> "none", id |-> 0]
NotCalled == [state |-> "not called", lines |-> <<>>]
Failed == [state |-> "failed", lines |-> <<>>]
Returned(lines) == [state |-> "returned", lines |-> lines]
Cut(lines) == [state |-> "cut", lines |-> SubSeq(lines, 1, GoRoom)]

HasLines(res) == res.state \in {"returned", "cut"}

Results ==
  {NotCalled, Failed}
    \cup [state : {"returned", "cut"}, lines : {s \in Seq(Lines) : Len(s) <= GoRoom}]

GoTypeOK ==
  /\ go_arrived \in 0..GoRequests
  /\ go_request \in [VMs -> {NoRequest, Post, EmptyPost} \cup {Get(n) : n \in 1..go_arrived}]
  /\ res1 \in [VMs -> Results]
  /\ res2 \in [VMs -> Results]
  /\ storage_data \in Seq(Lines)

GoInit ==
  /\ go_arrived = 0
  /\ go_request = [v \in VMs |-> NoRequest]
  /\ res1 = [v \in VMs |-> NotCalled]
  /\ res2 = [v \in VMs |-> NotCalled]
  /\ storage_data = <<>>

GoTakeGet(v) ==
  /\ go_arrived < GoRequests
  /\ Receive(v)
  /\ go_arrived' = go_arrived + 1
  /\ go_request' = [go_request EXCEPT ![v] = Get(go_arrived + 1)]
  /\ UNCHANGED <<res1, res2, storage_data>>

GoTakePost(v, r) ==
  /\ Receive(v)
  /\ go_request' = [go_request EXCEPT ![v] = r]
  /\ UNCHANGED <<go_arrived, res1, res2, storage_data>>

(* StorageCall, and if that succeeds StorageCallV.                         *)
GoCall(v) ==
  /\ go_request[v].method = "GET"
  /\ \/ res1[v] = NotCalled
     \/ HasLines(res1[v]) /\ res2[v] = NotCalled
  /\ CallStorage(v)
  /\ UNCHANGED goVars

LineOf(v) ==
  [by   |-> go_request[v].id,
   call |-> IF res1[v] = NotCalled THEN "StorageCall" ELSE "StorageCallV"]

(* What storage_callv gives the caller of a result that is too long is not *)
(* in the repository: an error, or the first part of the result with a     *)
(* length that is not negative (the Go code looks at nothing else).        *)
Transferred(lines) == IF Len(lines) <= GoRoom THEN {Returned(lines)} ELSE {Failed, Cut(lines)}

(* Variant: the result is made before the line is added.                   *)
MyStorageLate(v) ==
  /\ LeaveStorage(v)
  /\ storage_data' = Append(storage_data, LineOf(v))
  /\ IF res1[v] = NotCalled
       THEN (\E res \in Transferred(storage_data) : res1' = [res1 EXCEPT ![v] = res]) /\ UNCHANGED res2
       ELSE (\E res \in Transferred(storage_data) : res2' = [res2 EXCEPT ![v] = res]) /\ UNCHANGED res1
  /\ UNCHANGED <<go_arrived, go_request>>

(* my_storage through either trampoline.  Storage keeps the line also when *)
(* its caller gets an error.                                               *)
MyStorage(v) ==
  /\ LeaveStorage(v)
  /\ storage_data' = Append(storage_data, LineOf(v))
  /\ IF res1[v] = NotCalled
       THEN (\E res \in Transferred(storage_data') : res1' = [res1 EXCEPT ![v] = res]) /\ UNCHANGED res2
       ELSE (\E res \in Transferred(storage_data') : res2' = [res2 EXCEPT ![v] = res]) /\ UNCHANGED res1
  /\ UNCHANGED <<go_arrived, go_request>>

GoForget(v) ==
  /\ go_request' = [go_request EXCEPT ![v] = NoRequest]
  /\ res1' = [res1 EXCEPT ![v] = NotCalled]
  /\ res2' = [res2 EXCEPT ![v] = NotCalled]
  /\ UNCHANGED <<go_arrived, storage_data>>

(* Variant: the error of the second call is not looked at.                 *)
DeliverableResults(v) ==
  \/ go_request[v] = Post
  \/ res1[v] = Failed
  \/ res2[v].state = "returned"

(* What Deliver is called for: both results, an error of either call, or   *)
(* the body of a POST.                                                     *)
Deliverable(v) ==
  \/ go_request[v] = Post
  \/ res1[v] = Failed
  \/ res2[v] # NotCalled

GoDeliver(v) ==
  /\ Deliverable(v)
  /\ Respond(v)
  /\ GoForget(v)

(* The last call's result is a cut one.                                    *)
OverLong(v) == IF res2[v] = NotCalled THEN res1[v].state = "cut" ELSE res2[v].state = "cut"

(* Deliver takes the address of the first byte: an empty body has none.    *)
(* GoBytes copies as many bytes as the host has said: if these are more    *)
(* than the buffer has, it reads what follows the buffer, or faults.       *)
GoPanic(v) ==
  /\ go_request[v] = EmptyPost \/ OverLong(v)
  /\ Crash(v)
  /\ GoForget(v)

GoExpire(v) == TimeOut(v) /\ GoForget(v)

GoError(v) == RespondError(v) /\ UNCHANGED goVars

(* The steps of a request that has arrived, its time limit aside.          *)
GoProgress(v) == GoCall(v) \/ MyStorage(v) \/ GoDeliver(v) \/ GoPanic(v) \/ GoError(v)

GoNext ==
  \/ \E v \in VMs :
       \/ GoTakeGet(v) \/ GoTakePost(v, Post) \/ GoTakePost(v, EmptyPost)
       \/ GoProgress(v)
       \/ GoExpire(v)
  \/ \E v \in VMs : EnterStorage(v) /\ UNCHANGED goVars

-----------------------------------------------------------------------------

(* What the results of a GET show, however the calls of other requests get *)
(* between its own: each is a state storage was in, right after the line   *)
(* of the call itself; the second one continues the first; and no line is  *)
(* lost, added twice, or before the line of the request's first call,      *)
(* requests that time out or get an error included (my_storage, on_get).   *)
(* A result that was cut to the buffer is only a beginning of that state,  *)
(* its own line missing, but it does not fall behind the first result.     *)
AnswersShowStorage ==
  /\ \A v \in VMs : \A res \in {res1[v], res2[v]} :
       /\ HasLines(res) => IsPrefix(res.lines, storage_data)
       /\ res.state = "returned" => res.lines # <<>> /\ Last(res.lines).by = go_request[v].id
  /\ \A v \in VMs : HasLines(res2[v]) => IsPrefix(res1[v].lines, res2[v].lines)
  /\ \A v \in VMs : res2[v].state = "returned" =>
       /\ res1[v].lines # res2[v].lines
       /\ Last(res2[v].lines).call = "StorageCallV"
  /\ \A m, n \in 1..Len(storage_data) : storage_data[m] = storage_data[n] => m = n
  /\ \A n \in 1..Len(storage_data) : storage_data[n].call = "StorageCallV" =>
       \E m \in 1..(n-1) : storage_data[m] = [storage_data[n] EXCEPT !.call = "StorageCall"]

===============================================================================
