------------------------------ MODULE MCCollector ------------------------------
(***************************************************************************)
(* Two VMs, two URLs, batches of two and five visits: batches of both VMs  *)
(* interleave with each other and with a report.                           *)
(***************************************************************************)
EXTENDS Collector, TLC

Symmetry == Permutations(VMs) \cup Permutations(Urls)
===============================================================================
