--------------------------- MODULE MC_PipeWriters ---------------------------
(* Instantiation of PipeWriters for TLC: requests and connection threads  *)
(* are model values.                                                       *)
EXTENDS PipeWriters

CONSTANTS r1, r2, w1

MCRequests == {r1, r2}
MCConnThreads == {w1}
=============================================================================
