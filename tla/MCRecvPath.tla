----------------------------- MODULE MCRecvPath -----------------------------
(***************************************************************************)
(* Instances of RecvPath for TLC.                                          *)
(***************************************************************************)
EXTENDS RecvPath

\* Three sequences across the wrap of a counter of eight values: a gap of one
\* between the first two, the third the successor of the second.
McNumbers == {7, 1, 2}
=============================================================================
