------------------------------- MODULE MCProc -------------------------------
(* Small instances of Proc and of its refinement of ReadyQueues for TLC.      *)
EXTENDS ProcQueues, TLC

CpuSymmetry == Permutations(Cpus)
=============================================================================
