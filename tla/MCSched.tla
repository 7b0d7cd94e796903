------------------------------ MODULE MCSched ------------------------------
(* Sched with few CPUs and processes. *)
EXTENDS Sched, TLC

Symmetry == Permutations(CPU)
=============================================================================
