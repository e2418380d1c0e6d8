----------------------------- MODULE MCBuffers -----------------------------
(* Buffers for TLC.  Blocks and processes are interchangeable: neither is     *)
(* compared, ordered or chosen by Buffers, and no temporal property is        *)
(* checked with this symmetry.                                                *)
EXTENDS Buffers, TLC

Symmetry == Permutations(Blocks) \union Permutations(Procs)
=============================================================================
