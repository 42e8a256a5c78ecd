----------------------------- MODULE MCSessionEnd -----------------------------
(***************************************************************************)
(* Instances of SessionEnd for TLC.                                        *)
(***************************************************************************)
EXTENDS SessionEnd

\* One peer is asked for, after a typo, and one more than there is room for.
McSpec == << Invalid, 11, 12 >>

McSymmetry == Permutations(Threads)
=============================================================================
