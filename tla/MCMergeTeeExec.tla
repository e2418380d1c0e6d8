--------------------------- MODULE MCMergeTeeExec ---------------------------
(* MergeTeeExec for TLC: the files it is given.                               *)
EXTENDS MergeTeeExec

\* None and too many; two with tabs, a blank line and no newline at the end; a long line.
Texts ==
  {<< >>, <<<<"a">>, <<"b">>, <<"c">>>>,
   <<<<"a", " ", "\t", "\n", "b", "\t", "c", "\n">>, <<" ", "\n", "d">>>>,
   <<<<"a", "\n", "b", "b", "b", "b">>>>}
  \union {<<f, g>> : f, g \in BoundedSeq({"a", "\n"}, 1)}
=============================================================================
