----------------------------- MODULE MCStorageCalls -----------------------------
(* StorageCalls with two VMs, so that the calls of one GET get in between  *)
(* those of another; four GETs for the Go program, whose result buffer     *)
(* holds five lines, so that it overflows in a first call as well as in a  *)
(* second one; two candidates, and a second password, for the case that    *)
(* the password asked for changes.                                         *)
EXTENDS StorageCalls

CONSTANTS v1, v2, alice, bob, right, wrong

MCVMs == {v1, v2}
MCCandidates == {alice, bob}
MCPasswords == {right, wrong}

===============================================================================
