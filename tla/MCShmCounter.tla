------------------------------ MODULE MCShmCounter -----------------------------
(***************************************************************************)
(* An area that starts unaligned and holds two or three blocks, and no     *)
(* area at all; four requests, numbers that repeat after three and a       *)
(* counter that wraps at four.                                             *)
(***************************************************************************)
EXTENDS ShmCounter, TLC

MCAreas == {[ptr |-> 9, end |-> 24], [ptr |-> 0, end |-> 0]}
MCShapes == {[size |-> 4, align |-> 4], [size |-> 8, align |-> 8], [size |-> 1, align |-> 1]}
Symmetry == Permutations(VMs) \cup Permutations(CounterRequests)
===============================================================================
