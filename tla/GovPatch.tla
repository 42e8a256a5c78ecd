------------------------------ MODULE GovPatch ------------------------------
(***************************************************************************)
(* governor_patch_thread and the game whose send rate it watches.  The     *)
(* rate is a word of the game's memory: the thread reads it, decides       *)
(* (GovTrace), and writes it in a second step, while the game starts       *)
(* matches, adjusts the rate and ends matches whenever it likes.           *)
(*                                                                         *)
(* The game is external.  What is assumed of it is what gov_trace.h says   *)
(* of the sessions it was written from: a match start writes the sentinel  *)
(* over a value the lobby held for longer than descent_ms; the governor    *)
(* takes small steps at intervals, and a collapse takes them sooner than   *)
(* descent_ms; a poke may be overwritten by the stock value or by the      *)
(* sentinel.  The thread is taken to poll on every tick of the clock.      *)
(***************************************************************************)
EXTENDS GovTrace

CONSTANTS
  Ceiling,    \* the rate the governor climbs to
  StepEvery   \* ticks between two steps of the governor

ASSUME GovPatchAssumption ==
  /\ Ceiling \in Nat /\ StepEvery \in Nat
  /\ ColdStart <= Ceiling /\ Target <= Ceiling /\ ClampFloor <= Ceiling
  /\ ColdStart < Target

VARIABLES
  rate,       \* *kGovRateAddr
  g,          \* gts
  thread,     \* "poll", "write" or "sleep"
  event,      \* the last event of gov_trace_step
  phase,      \* the game: "lobby" or "match"
  inLobby,    \* the game: how long the lobby has lasted
  sinceStep,  \* the game: how long since the rate last changed
  origin,     \* history: how the rate came to be what it is (Origins)
  intact,     \* history: the game has not written over the last poke
  owed        \* history: bumps without a verdict

vars == << rate, g, thread, event, phase, inLobby, sinceStep, origin, intact, owed >>

Rates == 0 .. Ceiling

\* The states of GovTraceState.
GovStates ==
  [bumped : BOOLEAN, sinceBump : 0 .. VerifyMs, armed : BOOLEAN,
   lowSeen : BOOLEAN, sinceTrace : 0 .. TraceMs, polled : BOOLEAN,
   lastSeen : Rates, prevDistinct : Rates, sinceChange : 0 .. DescentMs + 1,
   prevHold : 0 .. DescentMs + 1, rescued : BOOLEAN, sinceRescue : 0 .. DescentMs]

\* A match start, a poke lost, a step of the governor, the thread's own write.
Origins == {"start", "lost", "step", "poke"}

TypeOK ==
  /\ rate \in Rates
  /\ g \in GovStates
  /\ thread \in {"poll", "write", "sleep"}
  /\ event \in Events
  /\ phase \in {"lobby", "match"}
  /\ inLobby \in 0 .. DescentMs + 2
  /\ sinceStep \in 0 .. DescentMs + StepEvery
  /\ origin \in Origins /\ intact \in BOOLEAN
  /\ owed \in 0 .. 1

Init ==
  /\ rate \in {ColdStart, ClampFloor}
  /\ g = GovInit
  /\ thread = "poll"
  /\ event = "none"
  /\ phase = "lobby"
  /\ inLobby = 0
  /\ sinceStep = 0
  /\ origin = "start"
  /\ intact = FALSE
  /\ owed = 0

-----------------------------------------------------------------------------
(* governor_patch_thread *)

\* One read per poll, and the decision on it.
Poll ==
  LET s == GovStep(g, rate)
  IN  /\ thread = "poll"
      /\ g' = s.g
      /\ event' = s.event
      /\ thread' = IF s.event \in {"bumped", "floorRescue"} THEN "write" ELSE "sleep"
      /\ owed' = CASE s.event = "bumped" -> owed + 1
                   [] s.event \in {"held", "clamped"} -> owed - 1
                   [] OTHER -> owed
      /\ UNCHANGED << rate, phase, inLobby, sinceStep, origin, intact >>

\* The store to the game's memory, whatever is there by now.
Poke ==
  /\ thread = "write"
  /\ rate' = Target
  /\ origin' = "poke"
  /\ intact' = TRUE
  /\ thread' = "sleep"
  /\ sinceStep' = 0
  /\ UNCHANGED << g, event, phase, inLobby, owed >>

-----------------------------------------------------------------------------
(* The game *)

Writes(v, how) ==
  /\ rate' = v
  /\ origin' = how
  /\ intact' = FALSE
  /\ sinceStep' = 0
  /\ UNCHANGED << g, thread, event, owed >>

StartMatch ==
  /\ phase = "lobby"
  /\ inLobby = DescentMs + 2
  /\ phase' = "match"
  /\ inLobby' = 0
  /\ Writes(ColdStart, "start")

EndMatch ==
  /\ phase = "match"
  /\ phase' = "lobby"
  /\ UNCHANGED << rate, g, thread, event, inLobby, sinceStep, origin, intact, owed >>

\* The poked value is lost: to the stock value, or to a second initialisation.
Overwrite ==
  /\ phase = "match"
  /\ origin = "poke"
  /\ \E v \in {ColdStart, ClampFloor} : Writes(v, "lost")
  /\ UNCHANGED << phase, inLobby >>

\* A step of the governor, up or down.
Adjust ==
  /\ phase = "match"
  /\ sinceStep >= StepEvery
  /\ \/ rate < Ceiling /\ rate' = rate + 1
     \/ rate > ColdStart /\ rate' = rate - 1
  /\ rate' = ColdStart => sinceStep < DescentMs
  /\ origin' = "step"
  /\ sinceStep' = 0
  /\ UNCHANGED << g, thread, event, phase, inLobby, intact, owed >>

\* Time passes when the thread has had its turn.
Tick ==
  /\ thread = "sleep"
  /\ thread' = "poll"
  /\ g' = Older(g)
  /\ inLobby' = IF phase = "lobby" THEN Capped(inLobby, DescentMs + 2) ELSE inLobby
  /\ sinceStep' = Capped(sinceStep, DescentMs + StepEvery)
  /\ UNCHANGED << rate, event, phase, origin, intact, owed >>

Next ==
  \/ Poll \/ Poke
  \/ StartMatch \/ EndMatch \/ Overwrite \/ Adjust
  \/ Tick

\* The thread runs and so does the clock; the game owes nothing.
Fairness == WF_vars(Poll) /\ WF_vars(Poke) /\ WF_vars(Tick)

Safety == Init /\ [][Next]_vars
Spec   == Safety /\ Fairness

-----------------------------------------------------------------------------
(* Properties *)

\* "Exactly one verdict per bump" (gov_trace.h:307): a poke awaits a verdict
\* exactly while the machine is armed, through clamps, windows that close on a
\* low reading, rescues and bumps that repeat.
OneVerdictPerBump == owed = (IF g.armed THEN 1 ELSE 0)

\* A match start is never taken for a collapse (gov_trace.h:44-50): it would
\* be left out of the matches counted.
RescueIsNoStart == [][event' = "floorRescue" /\ Poll => origin # "start"]_vars

\* A collapse is never taken for a match start: "this is NOT a match start and
\* must not be counted as one" (gov_trace.h:98), wherever in the descent a
\* verdict, a rescue or the end of a match falls.
BumpIsNoCollapse == [][event' = "bumped" /\ Poll => origin # "step"]_vars

\* "POKE DID NOT HOLD" is said only of a poke the game overwrote, never of one
\* the governor walked down from (gov_trace.h:70-81), although the thread sees
\* a sample of the values and its window is longer than a step.
ClampIsOverwrite == [][event' = "clamped" /\ Poll => ~intact]_vars

\* Every bump gets its verdict.
BumpGetsVerdict == owed = 1 ~> owed = 0

\* The rate does not stay on the sentinel: "the alternative is a match that
\* spends the rest of its life at 4 kB/s" (gov_trace.h:57), whatever cooldown,
\* window or pending verdict stands against a poke.
SentinelIsRaised == rate = ColdStart ~> rate # ColdStart
=============================================================================
