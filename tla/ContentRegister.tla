---------------------------- MODULE ContentRegister ----------------------------
(***************************************************************************)
(* What c/storage.c promises of the content it keeps: one register, which  *)
(* a POST overwrites with its body and a GET reads, each in one indivisible*)
(* step between its arrival and its end.                                   *)
(***************************************************************************)
CONSTANTS
  VMs,       \* who reads and writes
  Requests,  \* what can be asked: a method and a body
  Idle,      \* the request of a VM that has none
  Initial,   \* what a new program holds
  NoReply    \* a VM that has no answer for its request yet

VARIABLES
  value,     \* the content of the register
  request,   \* what each VM was asked
  reply      \* the answer each VM got from storage for its request

registerVars == <<value, request, reply>>

Init ==
  /\ value = Initial
  /\ request = [v \in VMs |-> Idle]
  /\ reply = [v \in VMs |-> NoReply]

Ask(v, r) ==
  /\ request[v] = Idle
  /\ reply[v] = NoReply
  /\ request' = [request EXCEPT ![v] = r]
  /\ UNCHANGED <<value, reply>>

Write(v) ==
  /\ request[v].method = "POST"
  /\ reply[v] = NoReply
  /\ value' = request[v].body
  /\ reply' = [reply EXCEPT ![v] = <<>>]
  /\ UNCHANGED request

Read(v) ==
  /\ request[v].method = "GET"
  /\ reply[v] = NoReply
  /\ reply' = [reply EXCEPT ![v] = value]
  /\ UNCHANGED <<value, request>>

Conclude(v) ==
  /\ request' = [request EXCEPT ![v] = Idle]
  /\ reply' = [reply EXCEPT ![v] = NoReply]
  /\ UNCHANGED value

Next ==
  \E v \in VMs : \/ \E r \in Requests : Ask(v, r)
                 \/ Write(v) \/ Read(v) \/ Conclude(v)

Spec == Init /\ [][Next]_registerVars

===============================================================================
