------------------------------- MODULE MCIocp -------------------------------
(***************************************************************************)
(* Instances of Iocp for TLC.                                              *)
(***************************************************************************)
EXTENDS Iocp

\* Three sequences across the wrap of a counter of eight values, 7 and 0
\* adjacent, 2 behind a gap.
McNumbers == {7, 0, 2}
=============================================================================
