----------------------------- MODULE MCSendPath -----------------------------
(***************************************************************************)
(* Instances of SendPath for TLC.  Lengths and rates are scaled down: a    *)
(* second has 2 ticks and the rate is 3 bytes a second, so that both       *)
(* divisions of the bucket round, debts last several ticks, and a          *)
(* datagram of 2 or 3 bytes may be sent, queued, or be over budget.        *)
(***************************************************************************)
EXTENDS SendPath

\* An exempt length, two lengths that can be paced, one too large to queue.
McLens == {1, 2, 3}
McLensOversize == {3, 5}
=============================================================================
