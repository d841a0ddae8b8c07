---------------------------- MODULE MCBatchedCounter ---------------------------
(***************************************************************************)
(* Two VMs, batches of two and six requests: both VMs commit, one commits *)
(* twice, and a live update meets a VM at every step of on_get.  Requests  *)
(* and VMs are interchangeable.                                            *)
(***************************************************************************)
EXTENDS BatchedCounter, TLC

Symmetry == Permutations(VMs) \cup Permutations(Requests)
===============================================================================
