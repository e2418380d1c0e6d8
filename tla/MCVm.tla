-------------------------------- MODULE MCVm --------------------------------
(* Vm for TLC: the files that exec() loads.                                   *)
EXTENDS Vm

\* No segment, one, and one followed by another that wraps.
Files == LET seg == [vaddr |-> 0, memsz |-> 2, filesz |-> 1]
         IN  {<< >>, <<seg>>, <<seg, [vaddr |-> 4, memsz |-> 12, filesz |-> 1]>>}
=============================================================================
