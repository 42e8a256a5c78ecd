----------------------------- MODULE MCGovPatch -----------------------------
(***************************************************************************)
(* An instance of GovPatch for TLC.  Rates of 1 (the sentinel) to 8, steps *)
(* of 1: the band of a descent is two steps wide, and from the target of 8 *)
(* the governor cannot walk down to the stock floor of 4 within a window.  *)
(***************************************************************************)
EXTENDS GovPatch
=============================================================================
