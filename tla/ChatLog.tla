-------------------------------- MODULE ChatLog --------------------------------
(***************************************************************************)
(* What a program of javascript/src promises its visitors: one log.  A POST*)
(* adds its line and takes its answer, a GET takes its answer, each in one *)
(* indivisible step between its arrival and its end, and once per request. *)
(* An answer is the log, or says that there is none.  A restart ends all   *)
(* requests and may take lines from the end of the log; the line of a POST *)
(* that it ends may be the last one.                                       *)
(***************************************************************************)
EXTENDS Naturals, Sequences

CONSTANTS
  VMs,       \* who reads and writes
  Lines,     \* what can be in the log
  Requests,  \* what can be asked
  Idle,      \* the request of a VM that asks nothing of the log
  NoReply,   \* a VM that has no answer for its request yet
  Exception  \* an answer that is an error

VARIABLES
  log,       \* the lines so far
  request,   \* what each VM was asked
  answer     \* what each VM was given for its request

logVars == <<log, request, answer>>

Init ==
  /\ log \in Seq(Lines)
  /\ request = [v \in VMs |-> Idle]
  /\ answer = [v \in VMs |-> NoReply]

Ask(v, r) ==
  /\ request[v] = Idle /\ answer[v] = NoReply
  /\ request' = [request EXCEPT ![v] = r]
  /\ UNCHANGED <<log, answer>>

Give(v, given) ==
  /\ answer[v] = NoReply
  /\ answer' = [answer EXCEPT ![v] = given]
  /\ UNCHANGED request

Get(v) ==
  /\ request[v].kind = "get"
  /\ Give(v, log) \/ Give(v, Exception)
  /\ UNCHANGED log

(* The line is kept also when the answer is empty or an error.             *)
Post(v) ==
  /\ request[v].kind = "post"
  /\ log' = Append(log, request[v].line)
  /\ Give(v, log') \/ Give(v, <<>>) \/ Give(v, Exception)

Refuse(v) ==
  /\ request[v].kind = "garbage"
  /\ Give(v, <<>>)
  /\ UNCHANGED log

Conclude(v) ==
  /\ request' = [request EXCEPT ![v] = Idle]
  /\ answer' = [answer EXCEPT ![v] = NoReply]
  /\ UNCHANGED log

Restart ==
  /\ \/ \E n \in 0..Len(log) : log' = SubSeq(log, 1, n)
     \/ \E v \in VMs : /\ request[v].kind = "post" /\ answer[v] = NoReply
                       /\ log' = Append(log, request[v].line)
  /\ request' = [v \in VMs |-> Idle]
  /\ answer' = [v \in VMs |-> NoReply]

Next ==
  \/ \E v \in VMs : \/ \E r \in Requests : Ask(v, r)
                    \/ Get(v) \/ Post(v) \/ Refuse(v) \/ Conclude(v)
  \/ Restart

Spec == Init /\ [][Next]_logVars

===============================================================================
