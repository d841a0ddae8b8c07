--------------------------------- MODULE MCChat --------------------------------
(***************************************************************************)
(* Two VMs, two lines that differ, a chat of up to three of them of which  *)
(* two fit a result, and one restart at any point.                         *)
(***************************************************************************)
EXTENDS Chat

Symmetry == Permutations(VMs) \cup Permutations(Lines)
===============================================================================
