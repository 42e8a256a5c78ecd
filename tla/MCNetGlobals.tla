----------------------------- MODULE MCNetGlobals -----------------------------
(***************************************************************************)
(* An instance of NetGlobals for TLC: one entry with a tuning preset and   *)
(* one of the auto-kick, small numbers for the real ones.                  *)
(***************************************************************************)
EXTENDS NetGlobals

McLo == << 1, 2 >>
McHi == << 4, 5 >>
McTune == << 3, 0 >>
McRelax == << 0, 4 >>
=============================================================================
