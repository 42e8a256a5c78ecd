------------------------------ MODULE GovTrace ------------------------------
(***************************************************************************)
(* shared/gov_trace.h: what the governor thread makes of one reading of    *)
(* the game's live send rate.  The header has no clock and writes nothing: *)
(* GovPatch.tla adds the thread that polls and the game that adjusts.      *)
(*                                                                         *)
(* A time stamp is kept as its age, advanced by Older and capped at the    *)
(* largest value a comparison tells apart.  The session counters only say  *)
(* "none yet" to the decisions, so each is a flag.  The window of the      *)
(* periodic line, the peak and the totals are only printed.                *)
(***************************************************************************)
EXTENDS Integers

CONSTANTS
  Target,       \* target: BZ_GOV_START
  ColdStart,    \* cold_start: the sentinel
  VerifyMs,     \* verify_ms
  TraceMs,      \* trace_ms, 0 = off
  ClampFloor,   \* clamp_floor: stock MaxBandwidth
  DownSlack,    \* down_slack
  DescentBand,  \* descent_band
  DescentMs     \* descent_ms

ASSUME GovTraceAssumption ==
  /\ Target \in Nat \ {0} /\ ColdStart \in Nat /\ ClampFloor \in Nat
  /\ VerifyMs \in Nat /\ TraceMs \in Nat
  /\ DownSlack \in Nat /\ DescentBand \in Nat /\ DescentMs \in Nat

Events == {"none", "bumped", "clamped", "held", "trace", "floorRescue"}

\* gov_trace_init.
GovInit ==
  [bumped |-> FALSE, sinceBump |-> 0, armed |-> FALSE, lowSeen |-> FALSE,
   sinceTrace |-> 0, polled |-> FALSE, lastSeen |-> 0, prevDistinct |-> 0,
   sinceChange |-> 0, prevHold |-> 0, rescued |-> FALSE, sinceRescue |-> 0]

Capped(n, top) == IF n < top THEN n + 1 ELSE top

\* One tick older.
Older(g) ==
  [g EXCEPT !.sinceBump = Capped(@, VerifyMs), !.sinceTrace = Capped(@, TraceMs),
            !.sinceChange = Capped(@, DescentMs + 1), !.sinceRescue = Capped(@, DescentMs)]

\* The reading is noted: a change remembers the value it replaces and how
\* long that value was held.
Noted(g, live) ==
  IF g.polled /\ live # g.lastSeen
    THEN [g EXCEPT !.lastSeen = live, !.prevDistinct = g.lastSeen,
                   !.prevHold = g.sinceChange, !.sinceChange = 0]
    ELSE [g EXCEPT !.lastSeen = live, !.polled = TRUE]

\* Mutants of Descent: no test of the arrival (before V4.94); no test of how
\* long the value before was held.
DescentNever(g, h, live) == FALSE
DescentAnyHold(g, h, live) ==
  /\ live = ColdStart /\ g.polled
  /\ h.prevDistinct > ColdStart /\ h.prevDistinct - ColdStart <= DescentBand

\* Was the sentinel walked onto?  g is the state before the reading, h with it.
Descent(g, h, live) ==
  /\ live = ColdStart /\ g.polled
  /\ h.prevDistinct > ColdStart /\ h.prevDistinct - ColdStart <= DescentBand
  /\ h.prevHold <= DescentMs

\* Mutant of MayBump: one bump in a session.
MayBumpOnce(h) == ~h.armed /\ ~h.bumped

\* A bump is fresh once the last one has had its verdict and its window.
MayBump(h) == ~h.armed /\ (~h.bumped \/ h.sinceBump >= VerifyMs)

\* A governor parked on the floor is rescued once per descent_ms.
MayRescue(h) == ~h.armed /\ (~h.rescued \/ h.sinceRescue >= DescentMs)

\* Mutant of Reverted: every reading below the target (before V4.91).
RevertedBelow(h, live) == h.armed /\ live < Target

\* Does the reading speak against the poke that awaits its verdict?
Reverted(h, live) ==
  /\ h.armed
  /\ live < Target /\ live <= ClampFloor /\ Target - live > DownSlack

\* Mutant of WindowOver: the window closes on a reading at the target only.
WindowOverAtTarget(h, live) == h.armed /\ h.sinceBump >= VerifyMs /\ live >= Target

\* The verify window of the poke has passed.
WindowOver(h, live) == h.armed /\ h.sinceBump >= VerifyMs

\* Mutant of Verdict: the poke stays armed after it.
VerdictStaysArmed(h) == [h EXCEPT !.lowSeen = FALSE]

\* A verdict disarms the poke.
Verdict(h) == [h EXCEPT !.armed = FALSE, !.lowSeen = FALSE]

\* gov_trace_step: the event and the state after it.
GovStep(g, live) ==
  LET h       == Noted(g, live)
      descent == Descent(g, h, live)
      low     == Reverted(h, live)
      k       == [h EXCEPT !.lowSeen = low]
      Say(event, state) == [event |-> event, g |-> state]
  IN  IF live = ColdStart /\ ~descent /\ MayBump(h)
        THEN Say("bumped", [h EXCEPT !.bumped = TRUE, !.sinceBump = 0, !.armed = TRUE])
      ELSE IF descent /\ MayRescue(h)
        THEN Say("floorRescue", [h EXCEPT !.rescued = TRUE, !.sinceRescue = 0])
      ELSE IF low /\ h.lowSeen THEN Say("clamped", Verdict(h))
      ELSE IF WindowOver(h, live)
        THEN Say(IF low THEN "clamped" ELSE "held", Verdict(k))
      ELSE IF TraceMs # 0 /\ h.sinceTrace >= TraceMs
        THEN Say("trace", [k EXCEPT !.sinceTrace = 0])
      ELSE Say("none", k)
=============================================================================
