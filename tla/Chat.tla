---------------------------------- MODULE Chat ---------------------------------
(***************************************************************************)
(* javascript/src: a chat.  A POST appends a line to `text' in storage,    *)
(* rewrites the state file and answers with the whole chat; a GET of /get  *)
(* answers with the chat.  The handlers are JavaScript (chat.js) and reach *)
(* storage through js_storage_call and storage_trampoline (main.c), where  *)
(* exceptions and results that are too long are dealt with.                *)
(*                                                                         *)
(* The module follows one program, from its start on whatever state file   *)
(* there is, or as the successor of another program, through restarts, and *)
(* after an update until the last request it took is over.  Predecessor    *)
(* and successor write the same state file.                                *)
(*                                                                         *)
(* A chat is the sequence of its lines.                                    *)
(***************************************************************************)
EXTENDS Compute

CONSTANTS
  Lines,        \* what can be posted
  MaxText,      \* bound: requests are taken while the chat is shorter
  MaxStart,     \* bound: the longest chat a program starts with
  ResultSize,   \* how many lines fit the 2 MB result of a storage call
  MaxRestarts,  \* bound: the restarts of a behaviour
  UpdateTask,   \* a live update, which accesses storage like a task
  NoReply,      \* storage_call has not returned
  Exception,    \* storage_call returned an error, a JS exception to chat.js
  Foreign,      \* a state file that another program had a part in
  NoHeir        \* there has been no update

ASSUME ChatAssumption ==
  /\ MaxText \in Nat /\ MaxStart \in Nat
  /\ ResultSize \in Nat /\ MaxRestarts \in Nat
  /\ UpdateTask \in Tasks
  /\ {NoReply, Exception, Foreign, NoHeir} \cap Seq(Lines) = {}
  /\ NoReply # Exception

VARIABLES
  request,  \* the request each VM serves
  result,   \* what varnish.storage gave the handler
  text,     \* the chat, in storage
  file,     \* the state file
  stage,    \* where set_storage is
  behind,   \* whether the last rewrite of the file failed
  restarts,
  shared,   \* whether another program may write the state file
  heir      \* the chat the successor was given

chatVars == <<request, result, text, file, stage, behind, restarts, shared, heir>>
vars == <<computeVars, chatVars>>

Get == [kind |-> "get"]
Page == [kind |-> "page"]        \* a static page, or a fetch: no storage
Garbage == [kind |-> "garbage"]  \* a POST whose body cannot be parsed
Post(l) == [kind |-> "post", line |-> l]
Requests == {Get, Page, Garbage} \cup {Post(l) : l \in Lines}

ChatTypeOK ==
  /\ request \in [VMs -> Requests]
  /\ DOMAIN result = VMs
  /\ \A v \in VMs : result[v] \in {NoReply, Exception} \/ result[v] \in Seq(Lines)
  /\ text \in Seq(Lines)
  /\ file = Foreign \/ file \in Seq(Lines)
  /\ stage \in {"begin", "open", "write", "return"}
  /\ behind \in BOOLEAN
  /\ restarts \in 0..MaxRestarts
  /\ shared \in BOOLEAN
  /\ heir = NoHeir \/ heir \in Seq(Lines)

TypeOK == ComputeTypeOK /\ ChatTypeOK

(* The chat is what std.loadFile found, or, in a successor, what           *)
(* on_resume_update got in its place.                                      *)
Init ==
  /\ ComputeInit
  /\ request = [v \in VMs |-> Page]
  /\ result = [v \in VMs |-> NoReply]
  /\ text \in SeqOf(Lines, MaxStart)
  /\ \/ shared = FALSE /\ file = text
     \/ shared = TRUE /\ file = Foreign
  /\ stage = "begin"
  /\ behind = FALSE
  /\ restarts = 0
  /\ heir = NoHeir

-----------------------------------------------------------------------------
(* The request handlers.                                                   *)

TakeRequest(v, r) ==
  /\ Len(text) < MaxText /\ heir = NoHeir
  /\ Receive(v)
  /\ request' = [request EXCEPT ![v] = r]
  /\ UNCHANGED <<result, text, file, stage, behind, restarts, shared, heir>>

(* Variant: the handler calls storage again when that has thrown.          *)
StorageAgain(v) ==
  /\ request[v].kind # "page"
  /\ result[v] \in {NoReply, Exception}
  /\ CallStorage(v)
  /\ UNCHANGED chatVars

Storage(v) ==
  /\ request[v].kind # "page"
  /\ result[v] = NoReply
  /\ CallStorage(v)
  /\ UNCHANGED chatVars

Forget(v) ==
  /\ request' = [request EXCEPT ![v] = Page]
  /\ result' = [result EXCEPT ![v] = NoReply]
  /\ UNCHANGED <<text, file, stage, behind, restarts, shared, heir>>

(* varnish.response, the static site, or, when varnish.storage threw, the  *)
(* handler's on_error: each of them concludes the request.                 *)
Answer(v) ==
  /\ request[v].kind = "page" \/ result[v] # NoReply
  /\ Respond(v)
  /\ Forget(v)

Expire(v) == TimeOut(v) /\ Forget(v)

ErrorAnswer(v) == RespondError(v) /\ UNCHANGED chatVars

-----------------------------------------------------------------------------
(* storage_trampoline, executed by the VM that holds storage.              *)

(* storage_return: a result that does not fit fails an assertion, which    *)
(* the caller sees as an exception.                                        *)
Return(v, string) ==
  /\ result' = [result EXCEPT ![v] = IF Len(string) <= ResultSize THEN string
                                     ELSE Exception]
  /\ stage' = "begin"
  /\ LeaveStorage(v)

(* The function threw: storage_return_nothing, an empty result.            *)
Throw(v) == Return(v, <<>>)

GetStorage(v) ==
  /\ holder = v /\ request[v].kind = "get"
  /\ Return(v, text)
  /\ UNCHANGED <<request, text, file, behind, restarts, shared, heir>>

(* Variant: what cannot be parsed is appended all the same.                *)
ParseIgnored(v) ==
  /\ holder = v /\ request[v].kind = "garbage"
  /\ text' = Append(text, Exception)
  /\ Throw(v)
  /\ UNCHANGED <<request, file, behind, restarts, shared, heir>>

(* JSON.parse throws, or the field of a null value is asked for.           *)
ParseFails(v) ==
  /\ holder = v /\ request[v].kind = "garbage"
  /\ Throw(v)
  /\ UNCHANGED <<request, text, file, behind, restarts, shared, heir>>

(* Variant: new lines come first.                                          *)
PrependLine(v) ==
  /\ holder = v /\ request[v].kind = "post" /\ stage = "begin"
  /\ text' = <<request[v].line>> \o text
  /\ stage' = "open"
  /\ UNCHANGED <<computeVars, request, result, file, behind, restarts, shared, heir>>

AppendLine(v) ==
  /\ holder = v /\ request[v].kind = "post" /\ stage = "begin"
  /\ text' = Append(text, request[v].line)
  /\ stage' = "open"
  /\ UNCHANGED <<computeVars, request, result, file, behind, restarts, shared, heir>>

(* std.open gives null, and file.puts throws.                              *)
OpenFails(v) ==
  /\ holder = v /\ stage = "open"
  /\ behind' = TRUE
  /\ Throw(v)
  /\ UNCHANGED <<request, text, file, restarts, shared, heir>>

(* Mode "wb" empties the file.                                             *)
OpenFile(v) ==
  /\ holder = v /\ stage = "open"
  /\ file' = <<>>
  /\ stage' = "write"
  /\ UNCHANGED <<computeVars, request, result, text, behind, restarts, shared, heir>>

(* file.puts and file.close report no error: a full disk takes only the    *)
(* beginning of the chat, and nobody notices.                              *)
WriteFile(v) ==
  /\ holder = v /\ stage = "write"
  /\ \E n \in 0..Len(text) :
       /\ file' = IF file = Foreign THEN Foreign ELSE SubSeq(text, 1, n)
       /\ behind' = (n < Len(text))
  /\ stage' = "return"
  /\ UNCHANGED <<computeVars, request, result, text, restarts, shared, heir>>

SetStorageReturns(v) ==
  /\ holder = v /\ stage = "return"
  /\ Return(v, text)
  /\ UNCHANGED <<request, text, file, behind, restarts, shared, heir>>

-----------------------------------------------------------------------------

(* The predecessor's remaining requests, or the successor's requests, open *)
(* the state file or write to it: to this program it is anything now.      *)
OthersWrite ==
  /\ shared
  /\ file' = Foreign
  /\ UNCHANGED <<computeVars, request, result, text, stage, behind>>
  /\ UNCHANGED <<restarts, shared, heir>>

ScheduleUpdate == heir = NoHeir /\ Schedule(UpdateTask) /\ UNCHANGED chatVars

Enter(a) == EnterStorage(a) /\ UNCHANGED chatVars

HandOver(string) ==
  /\ LeaveStorage(UpdateTask)
  /\ heir' = string
  /\ shared' = TRUE
  /\ UNCHANGED <<request, result, text, file, stage, behind, restarts>>

(* Variant: there is no on_resume_update.                                  *)
LiveUpdateFromFile == HandOver(IF file = Foreign THEN <<>> ELSE file)

(* on_live_update hands `text' to on_resume_update of the successor, whose *)
(* main had loaded the file.                                               *)
LiveUpdate == HandOver(text)

RestartWith(string) ==
  /\ restarts < MaxRestarts
  /\ heir = NoHeir /\ file # Foreign
  /\ restarts' = restarts + 1
  /\ phase' = [v \in VMs |-> "waiting"] /\ queue' = <<>> /\ holder' = Nobody
  /\ request' = [v \in VMs |-> Page] /\ result' = [v \in VMs |-> NoReply]
  /\ text' = string
  /\ stage' = "begin"
  /\ behind' = FALSE
  /\ shared' = FALSE
  /\ UNCHANGED <<file, heir>>

(* Variant: the state file is not loaded.                                  *)
RestartEmpty == RestartWith(<<>>)

(* The host is stopped at any point and started again; the chat is what    *)
(* std.loadFile finds, and empty if that is nothing.  (What starts from a  *)
(* file that others wrote to, Init covers.)                                *)
Restart == RestartWith(file)

Next ==
  \/ \E v \in VMs : \/ \E r \in Requests : TakeRequest(v, r)
                    \/ Storage(v) \/ Answer(v) \/ Expire(v) \/ ErrorAnswer(v)
                    \/ GetStorage(v) \/ ParseFails(v) \/ AppendLine(v)
                    \/ OpenFails(v) \/ OpenFile(v) \/ WriteFile(v)
                    \/ SetStorageReturns(v)
  \/ OthersWrite
  \/ ScheduleUpdate
  \/ \E a \in Agents : Enter(a)
  \/ LiveUpdate
  \/ Restart

Spec == Init /\ [][Next]_vars

-----------------------------------------------------------------------------

Answered(v) == result[v] \notin {NoReply, Exception}

(* All clients of a program see one chat: whatever was answered is the     *)
(* beginning of what is answered later, so that any two answers agree on   *)
(* their common part, and a POST that is answered with a chat finds its    *)
(* own line at the end of it (get_storage, set_storage).                   *)
OneChat ==
  \A v \in VMs : Answered(v) =>
    /\ IsPrefix(result[v], text)
    /\ request[v].kind = "post" /\ result[v] # <<>> => Last(result[v]) = request[v].line

(* A state file that no other program has touched since this one opened it *)
(* is never ahead of the chat nor different from it, even in the middle of *)
(* a rewrite, and it is the chat whenever no rewrite is under way and the  *)
(* last one did not fail (set_storage, loadFile).                          *)
FileFollowsChat ==
  file # Foreign =>
    /\ IsPrefix(file, text)
    /\ stage = "begin" /\ ~behind => file = text

(* Only a restart takes lines from the chat, and then the last ones: calls,*)
(* exceptions, timeouts and an update keep all of them in order.  And the  *)
(* successor is given every line there is at the update.                   *)
ChatOnlyGrows ==
  [][/\ \/ IsPrefix(text, text')
        \/ restarts' # restarts /\ IsPrefix(text', text)
     /\ heir' # heir => IsPrefix(text, heir')]_vars

(* The chat without the line of a POST that is still rewriting the file.   *)
Settled == IF stage = "begin" THEN text ELSE Front(text)

Log == INSTANCE ChatLog WITH Idle <- Page, log <- Settled, answer <- result

(* To its visitors the program is a log with indivisible operations, although *)
(* a POST changes it long before storage_call returns: no request adds its *)
(* line twice or sees the line of a POST that is under way, and each       *)
(* answer is the log of a moment while the request ran (chat.js,           *)
(* storage_trampoline).                                                    *)
ImplementsLog == Log!Spec

===============================================================================
