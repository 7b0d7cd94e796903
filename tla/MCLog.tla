------------------------------- MODULE MCLog -------------------------------
(* Log with small sets of processes, blocks and values. *)
EXTENDS Log, TLC

Symmetry == Permutations(Proc) \cup Permutations(Block)
=============================================================================
