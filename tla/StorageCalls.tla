------------------------------ MODULE StorageCalls ------------------------------
(***************************************************************************)
(* A host that runs one of two programs whose requests wait for storage:   *)
(* go/goexample or cpp/src/basicauth.cpp.  Each keeps its own state, and   *)
(* that of the program that does not run never changes.                    *)
(***************************************************************************)
EXTENDS GoStorage, BasicAuth

VARIABLE program  \* "go" or "basicauth", for the whole behaviour

vars == <<program, computeVars, goVars, authVars>>

TypeOK ==
  /\ program \in {"go", "basicauth"}
  /\ ComputeTypeOK
  /\ GoTypeOK
  /\ AuthTypeOK

Init ==
  /\ program \in {"go", "basicauth"}
  /\ ComputeInit
  /\ GoInit
  /\ AuthInit

Next ==
  \/ program = "go" /\ GoNext /\ UNCHANGED <<program, authVars>>
  \/ program = "basicauth" /\ AuthNext /\ UNCHANGED <<program, goVars>>

Progress(v) ==
  \/ program = "go" /\ GoProgress(v) /\ UNCHANGED <<program, authVars>>
  \/ program = "basicauth" /\ AuthProgress(v) /\ UNCHANGED <<program, goVars>>

Enter(v) == EnterStorage(v) /\ UNCHANGED <<program, goVars, authVars>>

(* Guest code that can run does run, and storage that is free is given to  *)
(* the caller that has waited longest.  That a request runs out of time    *)
(* is never needed for an answer.                                          *)
Fairness ==
  /\ \A v \in VMs : WF_vars(Progress(v))
  /\ WF_vars(\E v \in VMs : Enter(v))

Spec == Init /\ [][Next]_vars /\ Fairness

-----------------------------------------------------------------------------

(* Every request is answered, its VM ready for the next one, and without   *)
(* the time limit's help: the callers of storage queue up and none of them *)
(* holds storage while it waits, not between the two calls of a GET, and   *)
(* not after a call that failed either (StorageCall, storage_callv).       *)
EveryRequestAnswered ==
  \A v \in VMs : phase[v] # "waiting" ~> phase[v] = "waiting"

===============================================================================
