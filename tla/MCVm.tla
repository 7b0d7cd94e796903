-------------------------------- MODULE MCVm --------------------------------
(***************************************************************************)
(* Vm with one program, and calls of sbrk that may give everything back.   *)
(***************************************************************************)
EXTENDS Vm

MCProgram ==
    {[seg |-> <<[type |-> "load", vaddr |-> 0, memsz |-> 3, filesz |-> 2, readable |-> TRUE]>>,
      args |-> <<>>]}
MCGrow == {9, -6}
=============================================================================
