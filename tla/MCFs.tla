-------------------------------- MODULE MCFs --------------------------------
(***************************************************************************)
(* Fs for two processes and two names, with the calls of FsCalls.          *)
(***************************************************************************)
EXTENDS Fs, FsCalls

\* The root holds the directory d, and d the file x.
Disk ==
    [i \in Inum |->
        CASE i = 1 -> [type |-> "dir", nlink |-> 2,
                       ents |-> [NoEntries EXCEPT !["."] = 1, ![".."] = 1, !["d"] = 2]]
          [] i = 2 -> [type |-> "dir", nlink |-> 1,
                       ents |-> [NoEntries EXCEPT !["."] = 2, ![".."] = 1, !["x"] = 3]]
          [] i = 3 -> [type |-> "file", nlink |-> 1, ents |-> NoEntries]
          [] OTHER -> FreeInode]

Spec == InitWith(Disk) /\ [][Next]_vars
Symmetry == Permutations(Proc)
=============================================================================
