-------------------------------- MODULE Compute --------------------------------
(***************************************************************************)
(* The host's side of a program with storage: request VMs that serve one   *)
(* request at a time, one storage VM that one caller at a time executes    *)
(* in, and the tasks queued on it.  The host is not part of this           *)
(* repository: the module says what the programs assume of it, in the      *)
(* terms of the calls of kvm_api.h (wait_for_requests, storage_call,       *)
(* storage_task, backend_response, set_on_error).                          *)
(*                                                                         *)
(* A program is a module that EXTENDS this one: each of its steps is a     *)
(* host step together with what the program's own code does in it.         *)
(***************************************************************************)
EXTENDS Naturals, Sequences, SequencesExt

CONSTANTS
  VMs,      \* the request VMs of the program ("concurrency" in compute.json)
  Tasks,    \* what the host queues on storage itself: timers and updates
  Nobody    \* the holder of an unused storage VM

ASSUME ComputeAssumption ==
  /\ VMs \cap Tasks = {}
  /\ Nobody \notin VMs \cup Tasks

VARIABLES
  phase,    \* what each request VM is doing
  queue,    \* the agents that wait for access to storage, first come first
  holder    \* the agent that executes in the storage VM

computeVars == <<phase, queue, holder>>

Agents == VMs \cup Tasks

Phases == {"waiting", "handling", "queued", "storage", "failing"}

ComputeTypeOK ==
  /\ phase \in [VMs -> Phases]
  /\ queue \in Seq(Agents)
  /\ holder \in Agents \cup {Nobody}

ComputeInit ==
  /\ phase = [v \in VMs |-> "waiting"]
  /\ queue = <<>>
  /\ holder = Nobody

Move(v, to) == phase' = [phase EXCEPT ![v] = to]

(* A request is handed to a VM that waits for one.                         *)
Receive(v) ==
  /\ phase[v] = "waiting"
  /\ Move(v, "handling")
  /\ UNCHANGED <<queue, holder>>

(* storage_call: the VM joins the queue and blocks.                        *)
CallStorage(v) ==
  /\ phase[v] = "handling"
  /\ Move(v, "queued")
  /\ queue' = Append(queue, v)
  /\ UNCHANGED holder

(* A timer fires, or an update arrives: a task joins the queue.            *)
Schedule(t) ==
  /\ t # holder
  /\ \A i \in 1..Len(queue) : queue[i] # t
  /\ queue' = Append(queue, t)
  /\ UNCHANGED <<phase, holder>>

(* Storage is free and goes to the agent that has waited longest.          *)
EnterStorage(a) ==
  /\ holder = Nobody
  /\ queue # <<>>
  /\ a = Head(queue)
  /\ holder' = a
  /\ queue' = Tail(queue)
  /\ phase' = [v \in VMs |-> IF v = a THEN "storage" ELSE phase[v]]

(* The storage function returned: its caller resumes.                      *)
LeaveStorage(a) ==
  /\ holder = a
  /\ holder' = Nobody
  /\ phase' = [v \in VMs |-> IF v = a THEN "handling" ELSE phase[v]]
  /\ UNCHANGED queue

(* backend_response concludes the request.                                 *)
Respond(v) ==
  /\ phase[v] = "handling"
  /\ Move(v, "waiting")
  /\ UNCHANGED <<queue, holder>>

(* The request exceeds max_request_time: a VM that waits for storage       *)
(* leaves the queue.  A storage function in progress is not interrupted.   *)
TimeOut(v) ==
  /\ \/ /\ phase[v] = "handling"
        /\ UNCHANGED queue
     \/ /\ phase[v] = "queued"
        /\ \E i \in 1..Len(queue) :
             /\ queue[i] = v
             /\ queue' = RemoveAt(queue, i)
  /\ Move(v, "failing")
  /\ UNCHANGED holder

(* The handler ends with an exception.                                     *)
Crash(v) == phase[v] = "handling" /\ TimeOut(v)

(* The error response, the program's own or a generic one, is sent and the *)
(* VM waits again.                                                         *)
RespondError(v) ==
  /\ phase[v] = "failing"
  /\ Move(v, "waiting")
  /\ UNCHANGED <<queue, holder>>

ComputeStep ==
  \/ \E v \in VMs : \/ Receive(v)
                    \/ CallStorage(v)
                    \/ Respond(v)
                    \/ TimeOut(v)
                    \/ RespondError(v)
  \/ \E t \in Tasks : Schedule(t)
  \/ \E a \in Agents : EnterStorage(a) \/ LeaveStorage(a)

ComputeSpec == ComputeInit /\ [][ComputeStep]_computeVars

-----------------------------------------------------------------------------

Queued(a) == \E i \in 1..Len(queue) : queue[i] = a

(* How the host's variables hang together, for the proofs: a VM executes   *)
(* in storage exactly when it holds it, it is in the queue exactly when it *)
(* is blocked in storage_call, and nobody is queued twice.                 *)
ExclusiveStorage ==
  /\ \A v \in VMs : phase[v] = "storage" <=> holder = v
  /\ \A v \in VMs : phase[v] = "queued" <=> Queued(v)
  /\ \A i, j \in 1..Len(queue) : queue[i] = queue[j] => i = j
  /\ ~Queued(holder)

===============================================================================
