--------------------------- MODULE GovPatch_proofs ---------------------------
(***************************************************************************)
(* For every target, window, band and slack: the governor's state keeps    *)
(* its type, and a poke awaits a verdict exactly while the machine is      *)
(* armed.  The two are proved together: that owed is at most 1 is the      *)
(* second, that a verdict can be subtracted from it the first.             *)
(*                                                                         *)
(* Then what the thread makes of the values it samples: a clamp is an      *)
(* overwrite, a match start is not rescued, a collapse is not bumped, each *)
(* from what the header assumes of the game's pace, stated as a hypothesis *)
(* on the constants.                                                       *)
(*                                                                         *)
(* Last, the thread of the [Net] tunables, the other one that writes the   *)
(* game's memory: NetGlobals.                                              *)
(***************************************************************************)
EXTENDS GovPatch, NetGlobals, TLAPS

Accounted == TypeOK /\ OneVerdictPerBump

USE GovTraceAssumption, GovPatchAssumption

-----------------------------------------------------------------------------
(* The state machine of gov_trace.h *)

\* An age stays within its cap.
LEMMA CappedRange ==
  ASSUME NEW top \in Nat, NEW n \in 0 .. top
  PROVE  Capped(n, top) \in 0 .. top
BY DEF Capped

\* gov_trace_init gives a state.
LEMMA GovInitType == GovInit \in GovStates
BY DEF GovInit, GovStates, Rates

\* One field written with a value of its kind: a state, armed as before unless
\* armed is the field.
LEMMA FlagUpdate ==
  ASSUME NEW s \in GovStates, NEW b \in BOOLEAN
  PROVE  /\ [s EXCEPT !.armed = b] \in GovStates /\ [s EXCEPT !.armed = b].armed = b
         /\ [s EXCEPT !.bumped = b] \in GovStates /\ [s EXCEPT !.bumped = b].armed = s.armed
         /\ [s EXCEPT !.lowSeen = b] \in GovStates /\ [s EXCEPT !.lowSeen = b].armed = s.armed
         /\ [s EXCEPT !.polled = b] \in GovStates /\ [s EXCEPT !.polled = b].armed = s.armed
         /\ [s EXCEPT !.rescued = b] \in GovStates /\ [s EXCEPT !.rescued = b].armed = s.armed
<1>1. [s EXCEPT !.armed = b] \in GovStates /\ [s EXCEPT !.armed = b].armed = b
  BY DEF GovStates
<1>2. [s EXCEPT !.bumped = b] \in GovStates /\ [s EXCEPT !.bumped = b].armed = s.armed
  BY DEF GovStates
<1>3. [s EXCEPT !.lowSeen = b] \in GovStates /\ [s EXCEPT !.lowSeen = b].armed = s.armed
  BY DEF GovStates
<1>4. [s EXCEPT !.polled = b] \in GovStates /\ [s EXCEPT !.polled = b].armed = s.armed
  BY DEF GovStates
<1>5. [s EXCEPT !.rescued = b] \in GovStates /\ [s EXCEPT !.rescued = b].armed = s.armed
  BY DEF GovStates
<1> QED
  BY <1>1, <1>2, <1>3, <1>4, <1>5

LEMMA AgeReset ==
  ASSUME NEW s \in GovStates
  PROVE  /\ [s EXCEPT !.sinceBump = 0] \in GovStates /\ [s EXCEPT !.sinceBump = 0].armed = s.armed
         /\ [s EXCEPT !.sinceTrace = 0] \in GovStates /\ [s EXCEPT !.sinceTrace = 0].armed = s.armed
         /\ [s EXCEPT !.sinceRescue = 0] \in GovStates /\ [s EXCEPT !.sinceRescue = 0].armed = s.armed
<1>1. [s EXCEPT !.sinceBump = 0] \in GovStates /\ [s EXCEPT !.sinceBump = 0].armed = s.armed
  BY DEF GovStates
<1>2. [s EXCEPT !.sinceTrace = 0] \in GovStates /\ [s EXCEPT !.sinceTrace = 0].armed = s.armed
  BY DEF GovStates
<1>3. [s EXCEPT !.sinceRescue = 0] \in GovStates /\ [s EXCEPT !.sinceRescue = 0].armed = s.armed
  BY DEF GovStates
<1> QED
  BY <1>1, <1>2, <1>3

\* A value that replaces another: the four fields a change writes.
LEMMA ReadingUpdate ==
  ASSUME NEW s \in GovStates, NEW v \in Rates, NEW w \in Rates, NEW d \in 0 .. DescentMs + 1
  PROVE  LET n == [s EXCEPT !.lastSeen = v, !.prevDistinct = w, !.prevHold = d, !.sinceChange = 0]
         IN  n \in GovStates /\ n.armed = s.armed
<1> DEFINE a == [s EXCEPT !.lastSeen = v]
           b == [a EXCEPT !.prevDistinct = w]
           c == [b EXCEPT !.prevHold = d]
           e == [c EXCEPT !.sinceChange = 0]
<1>1. a \in GovStates /\ a.armed = s.armed
  BY DEF GovStates
<1>2. b \in GovStates /\ b.armed = a.armed
  <2> HIDE DEF a
  <2> QED BY <1>1 DEF GovStates
<1>3. c \in GovStates /\ c.armed = b.armed
  <2> HIDE DEF b
  <2> QED BY <1>2 DEF GovStates
<1>4. e \in GovStates /\ e.armed = c.armed
  <2> HIDE DEF c
  <2> QED BY <1>3 DEF GovStates
<1>5. [s EXCEPT !.lastSeen = v, !.prevDistinct = w, !.prevHold = d, !.sinceChange = 0] = e
  BY Zenon
<1> HIDE DEF a, b, c, e
<1> QED
  BY <1>1, <1>2, <1>3, <1>4, <1>5, Zenon

\* A bump.
LEMMA BumpUpdate ==
  ASSUME NEW s \in GovStates
  PROVE  LET n == [s EXCEPT !.bumped = TRUE, !.sinceBump = 0, !.armed = TRUE]
         IN  n \in GovStates /\ n.armed
<1> DEFINE a == [s EXCEPT !.bumped = TRUE]
           b == [a EXCEPT !.sinceBump = 0]
           c == [b EXCEPT !.armed = TRUE]
<1>1. TRUE \in BOOLEAN
  OBVIOUS
<1>2. a \in GovStates
  BY <1>1, FlagUpdate
<1>3. b \in GovStates
  <2> HIDE DEF a
  <2> QED BY <1>2, AgeReset
<1>4. c \in GovStates /\ c.armed = TRUE
  <2> HIDE DEF b
  <2> QED BY <1>1, <1>3, FlagUpdate
<1>5. [s EXCEPT !.bumped = TRUE, !.sinceBump = 0, !.armed = TRUE] = c
  BY Zenon
<1> HIDE DEF c
<1> QED
  BY <1>4, <1>5, Zenon

\* A rescue.
LEMMA RescueUpdate ==
  ASSUME NEW s \in GovStates
  PROVE  LET n == [s EXCEPT !.rescued = TRUE, !.sinceRescue = 0]
         IN  n \in GovStates /\ n.armed = s.armed
<1> DEFINE a == [s EXCEPT !.rescued = TRUE]
           b == [a EXCEPT !.sinceRescue = 0]
<1>1. TRUE \in BOOLEAN
  OBVIOUS
<1>2. a \in GovStates /\ a.armed = s.armed
  BY <1>1, FlagUpdate
<1>3. b \in GovStates /\ b.armed = a.armed
  <2> HIDE DEF a
  <2> QED BY <1>2, AgeReset
<1>4. [s EXCEPT !.rescued = TRUE, !.sinceRescue = 0] = b
  BY Zenon
<1> HIDE DEF a, b
<1> QED
  BY <1>2, <1>3, <1>4, Zenon

\* A verdict.
LEMMA VerdictType ==
  ASSUME NEW s \in GovStates
  PROVE  Verdict(s) \in GovStates /\ ~Verdict(s).armed
<1> DEFINE a == [s EXCEPT !.armed = FALSE]
           b == [a EXCEPT !.lowSeen = FALSE]
<1>1. FALSE \in BOOLEAN
  OBVIOUS
<1>2. a \in GovStates /\ a.armed = FALSE
  BY <1>1, FlagUpdate
<1>3. b \in GovStates /\ b.armed = a.armed
  <2> HIDE DEF a
  <2> QED BY <1>1, <1>2, FlagUpdate
<1>4. Verdict(s) = b
  BY Zenon DEF Verdict
<1> HIDE DEF a, b
<1> QED
  BY <1>2, <1>3, <1>4, Zenon

\* Time keeps the state a state and disarms nothing.
LEMMA OlderType ==
  ASSUME NEW s \in GovStates
  PROVE  Older(s) \in GovStates /\ Older(s).armed = s.armed
<1>1. /\ Capped(s.sinceBump, VerifyMs) \in 0 .. VerifyMs
      /\ Capped(s.sinceTrace, TraceMs) \in 0 .. TraceMs
      /\ Capped(s.sinceChange, DescentMs + 1) \in 0 .. DescentMs + 1
      /\ Capped(s.sinceRescue, DescentMs) \in 0 .. DescentMs
  BY CappedRange DEF GovStates
<1> QED
  BY <1>1 DEF Older, GovStates

\* Noting a reading arms and disarms nothing.
LEMMA NotedType ==
  ASSUME NEW s \in GovStates, NEW live \in Rates
  PROVE  Noted(s, live) \in GovStates /\ Noted(s, live).armed = s.armed
<1>1. CASE s.polled /\ live # s.lastSeen
  <2>1. Noted(s, live) =
          [s EXCEPT !.lastSeen = live, !.prevDistinct = s.lastSeen,
                    !.prevHold = s.sinceChange, !.sinceChange = 0]
    BY <1>1 DEF Noted
  <2>2. s.lastSeen \in Rates /\ s.sinceChange \in 0 .. DescentMs + 1
    BY DEF GovStates
  <2> DEFINE n(w, d) == [s EXCEPT !.lastSeen = live, !.prevDistinct = w,
                                  !.prevHold = d, !.sinceChange = 0]
  <2>3. \A w \in Rates, d \in 0 .. DescentMs + 1 : n(w, d) \in GovStates /\ n(w, d).armed = s.armed
    BY ReadingUpdate
  <2>4. Noted(s, live) = n(s.lastSeen, s.sinceChange)
    BY <2>1
  <2> HIDE DEF n
  <2> QED BY <2>2, <2>3, <2>4
<1>2. CASE ~(s.polled /\ live # s.lastSeen)
  <2> DEFINE a == [s EXCEPT !.lastSeen = live]
             b == [a EXCEPT !.polled = TRUE]
  <2>1. TRUE \in BOOLEAN
    OBVIOUS
  <2>2. a \in GovStates /\ a.armed = s.armed
    BY DEF GovStates
  <2>3. b \in GovStates /\ b.armed = a.armed
    <3> HIDE DEF a
    <3> QED BY <2>1, <2>2, FlagUpdate
  <2>4. Noted(s, live) = b
    BY <1>2, Zenon DEF Noted
  <2> HIDE DEF a, b
  <2> QED BY <2>2, <2>3, <2>4, Zenon
<1> QED
  BY <1>1, <1>2

\* gov_trace_step: a bump arms a machine that was not armed, a verdict disarms
\* one that was, and no other event touches the arming.
LEMMA GovStepAccounts ==
  ASSUME NEW s \in GovStates, NEW live \in Rates
  PROVE  LET r == GovStep(s, live)
         IN  /\ r.g \in GovStates
             /\ r.event \in Events
             /\ r.event = "bumped" => ~s.armed /\ r.g.armed
             /\ r.event \in {"held", "clamped"} => s.armed /\ ~r.g.armed
             /\ r.event \notin {"bumped", "held", "clamped"} => r.g.armed = s.armed
<1> DEFINE h == Noted(s, live)
           descent == Descent(s, h, live)
           low == Reverted(h, live)
           k == [h EXCEPT !.lowSeen = low]
           bump == live = ColdStart /\ ~descent /\ MayBump(h)
           rescue == descent /\ MayRescue(h)
<1>1. h \in GovStates /\ h.armed = s.armed
  BY NotedType
<1>2. low \in BOOLEAN /\ (low => h.armed)
  BY <1>1 DEF Reverted, GovStates
<1>3. k \in GovStates /\ k.armed = h.armed
  <2> HIDE DEF h, low
  <2> QED BY <1>1, <1>2 DEF GovStates
<1> DEFINE Accounts(r) ==
             /\ r.g \in GovStates
             /\ r.event \in Events
             /\ r.event = "bumped" => ~s.armed /\ r.g.armed
             /\ r.event \in {"held", "clamped"} => s.armed /\ ~r.g.armed
             /\ r.event \notin {"bumped", "held", "clamped"} => r.g.armed = s.armed
<1>4. CASE bump
  <2> DEFINE n == [h EXCEPT !.bumped = TRUE, !.sinceBump = 0, !.armed = TRUE]
  <2>1. GovStep(s, live) = [event |-> "bumped", g |-> n]
    BY <1>4 DEF GovStep
  <2>2. ~h.armed
    BY <1>4 DEF MayBump
  <2>3. n \in GovStates /\ n.armed
    BY <1>1, BumpUpdate
  <2> HIDE DEF h, n
  <2>4. Accounts([event |-> "bumped", g |-> n])
    BY <1>1, <2>2, <2>3 DEF Events
  <2> QED BY <2>1, <2>4
<1>5. CASE ~bump /\ rescue
  <2> DEFINE n == [h EXCEPT !.rescued = TRUE, !.sinceRescue = 0]
  <2>1. GovStep(s, live) = [event |-> "floorRescue", g |-> n]
    BY <1>5 DEF GovStep
  <2>2. n \in GovStates /\ n.armed = h.armed
    BY <1>1, RescueUpdate
  <2> HIDE DEF h, n
  <2>3. Accounts([event |-> "floorRescue", g |-> n])
    BY <1>1, <2>2 DEF Events
  <2> QED BY <2>1, <2>3
<1>6. CASE ~bump /\ ~rescue /\ low /\ h.lowSeen
  <2>1. GovStep(s, live) = [event |-> "clamped", g |-> Verdict(h)]
    BY <1>6 DEF GovStep
  <2>2. h.armed
    BY <1>2, <1>6
  <2>3. Verdict(h) \in GovStates /\ ~Verdict(h).armed
    BY <1>1, VerdictType
  <2> HIDE DEF h
  <2>4. Accounts([event |-> "clamped", g |-> Verdict(h)])
    BY <1>1, <2>2, <2>3 DEF Events
  <2> QED BY <2>1, <2>4
<1>7. CASE ~bump /\ ~rescue /\ ~(low /\ h.lowSeen) /\ WindowOver(h, live)
  <2> DEFINE e == IF low THEN "clamped" ELSE "held"
  <2>1. GovStep(s, live) = [event |-> e, g |-> Verdict(k)]
    BY <1>7 DEF GovStep
  <2>2. h.armed
    BY <1>7 DEF WindowOver
  <2>3. Verdict(k) \in GovStates /\ ~Verdict(k).armed
    BY <1>3, VerdictType
  <2>4. e \in {"held", "clamped"}
    OBVIOUS
  <2> HIDE DEF h, k, e
  <2>5. Accounts([event |-> e, g |-> Verdict(k)])
    BY <1>1, <2>2, <2>3, <2>4 DEF Events
  <2> QED BY <2>1, <2>5
<1>8. CASE /\ ~bump /\ ~rescue /\ ~(low /\ h.lowSeen) /\ ~WindowOver(h, live)
           /\ TraceMs # 0 /\ h.sinceTrace >= TraceMs
  <2> DEFINE n == [k EXCEPT !.sinceTrace = 0]
  <2>1. GovStep(s, live) = [event |-> "trace", g |-> n]
    BY <1>8 DEF GovStep
  <2>2. n \in GovStates /\ n.armed = k.armed
    BY <1>3, AgeReset
  <2> HIDE DEF h, k, n
  <2>3. Accounts([event |-> "trace", g |-> n])
    BY <1>1, <1>3, <2>2 DEF Events
  <2> QED BY <2>1, <2>3
<1>9. CASE /\ ~bump /\ ~rescue /\ ~(low /\ h.lowSeen) /\ ~WindowOver(h, live)
           /\ ~(TraceMs # 0 /\ h.sinceTrace >= TraceMs)
  <2>1. GovStep(s, live) = [event |-> "none", g |-> k]
    BY <1>9 DEF GovStep
  <2> HIDE DEF h, k
  <2>2. Accounts([event |-> "none", g |-> k])
    BY <1>1, <1>3 DEF Events
  <2> QED BY <2>1, <2>2
<1> QED
  BY <1>4, <1>5, <1>6, <1>7, <1>8, <1>9

-----------------------------------------------------------------------------
(* The thread and the game *)

LEMMA AccountedInit == Init => Accounted
<1> SUFFICES ASSUME Init PROVE Accounted
  OBVIOUS
<1>1. g \in GovStates /\ ~g.armed
  BY GovInitType DEF Init, GovInit
<1>2. intact \in BOOLEAN
  BY Zenon DEF Init
<1> QED
  BY <1>1, <1>2 DEF Init, Accounted, TypeOK, OneVerdictPerBump, Rates, Events, Origins

\* A write of the game keeps the account.
LEMMA WriteKeeps ==
  ASSUME Accounted, NEW v \in Rates, NEW how \in Origins, Writes(v, how),
         phase' \in {"lobby", "match"}, inLobby' \in 0 .. DescentMs + 2
  PROVE  Accounted'
<1>1. intact' \in BOOLEAN
  BY Zenon DEF Writes
<1>2. rate' \in Rates /\ origin' \in Origins /\ sinceStep' \in 0 .. DescentMs + StepEvery
  BY DEF Writes
<1>3. UNCHANGED << g, thread, event, owed >>
  BY DEF Writes
<1> QED
  BY <1>1, <1>2, <1>3 DEF Accounted, TypeOK, OneVerdictPerBump

LEMMA AccountedStep == Accounted /\ [Next]_vars => Accounted'
<1> SUFFICES ASSUME Accounted, [Next]_vars PROVE Accounted'
  OBVIOUS
<1> USE DEF Accounted, TypeOK, OneVerdictPerBump
<1>1. CASE Poll
  <2> DEFINE s == GovStep(g, rate)
  <2>1. /\ g' = s.g /\ event' = s.event
        /\ thread' = IF s.event \in {"bumped", "floorRescue"} THEN "write" ELSE "sleep"
        /\ owed' = CASE s.event = "bumped" -> owed + 1
                     [] s.event \in {"held", "clamped"} -> owed - 1
                     [] OTHER -> owed
        /\ UNCHANGED << rate, phase, inLobby, sinceStep, origin, intact >>
    BY <1>1 DEF Poll
  <2>2. /\ s.g \in GovStates /\ s.event \in Events
        /\ s.event = "bumped" => ~g.armed /\ s.g.armed
        /\ s.event \in {"held", "clamped"} => g.armed /\ ~s.g.armed
        /\ s.event \notin {"bumped", "held", "clamped"} => s.g.armed = g.armed
    BY GovStepAccounts
  <2> HIDE DEF s
  <2>3. owed' = IF g'.armed THEN 1 ELSE 0
    BY <2>1, <2>2 DEF Events
  <2> QED
    BY <2>1, <2>2, <2>3
<1>2. CASE Poke
  BY <1>2 DEF Poke, Rates, Origins
<1>3. CASE StartMatch
  <2>1. ColdStart \in Rates /\ "start" \in Origins
    BY DEF Rates, Origins
  <2>2. Writes(ColdStart, "start") /\ phase' = "match" /\ inLobby' = 0
    BY <1>3 DEF StartMatch
  <2> QED
    BY <2>1, <2>2, WriteKeeps
<1>4. CASE EndMatch
  BY <1>4 DEF EndMatch
<1>5. CASE Overwrite
  <2>1. PICK v \in {ColdStart, ClampFloor} : Writes(v, "lost")
    BY <1>5 DEF Overwrite
  <2>2. v \in Rates /\ "lost" \in Origins
    BY DEF Rates, Origins
  <2>3. UNCHANGED << phase, inLobby >>
    BY <1>5 DEF Overwrite
  <2> QED
    BY <2>1, <2>2, <2>3, WriteKeeps
<1>6. CASE Adjust
  BY <1>6 DEF Adjust, Rates, Origins
<1>7. CASE Tick
  <2>1. g' \in GovStates /\ g'.armed = g.armed
    BY <1>7, OlderType DEF Tick
  <2>2. inLobby' \in 0 .. DescentMs + 2
    BY <1>7, CappedRange DEF Tick
  <2>3. sinceStep' \in 0 .. DescentMs + StepEvery
    BY <1>7 DEF Tick, Capped
  <2> QED
    BY <1>7, <2>1, <2>2, <2>3 DEF Tick
<1>8. CASE UNCHANGED vars
  BY <1>8 DEF vars
<1> QED
  BY <1>1, <1>2, <1>3, <1>4, <1>5, <1>6, <1>7, <1>8 DEF Next

LEMMA AccountedAlways == Safety => []Accounted
BY AccountedInit, AccountedStep, PTL DEF Safety

\* The type invariant of the governor thread and the game, for every setting.
THEOREM TypeCorrect == Spec => []TypeOK
<1>1. Accounted => TypeOK
  BY DEF Accounted
<1> QED
  BY <1>1, AccountedAlways, PTL DEF Spec

\* "Exactly one verdict per bump" (gov_trace.h:307), for every setting and
\* whatever the game writes between two readings.
THEOREM BumpsAreAccounted == Spec => []OneVerdictPerBump
<1>1. Accounted => OneVerdictPerBump
  BY DEF Accounted
<1> QED
  BY <1>1, AccountedAlways, PTL DEF Spec

-----------------------------------------------------------------------------
(* What a poll does, read from the state before it and the state after: the *)
(* rest of the proofs opens gov_trace_step no more.                         *)

\* A value from which the sentinel may be walked onto, and a state in which it
\* was.
InBand(v) == v > ColdStart /\ v - ColdStart <= DescentBand
Descended(s) == s.lastSeen = ColdStart /\ InBand(s.prevDistinct) /\ s.prevHold <= DescentMs

\* What n keeps of s: the reading and its history.
SameReading(s, n) ==
  /\ n.lastSeen = s.lastSeen /\ n.polled = s.polled /\ n.sinceChange = s.sinceChange
  /\ n.prevDistinct = s.prevDistinct /\ n.prevHold = s.prevHold

\* What n keeps of s: the last bump and the last rescue.
SamePokes(s, n) ==
  /\ n.armed = s.armed /\ n.sinceBump = s.sinceBump
  /\ n.rescued = s.rescued /\ n.sinceRescue = s.sinceRescue

\* What a reading of live writes of s into n.
Notes(s, live, n) ==
  /\ n.lastSeen = live /\ n.polled = TRUE
  /\ s.polled /\ live # s.lastSeen =>
       n.prevDistinct = s.lastSeen /\ n.prevHold = s.sinceChange /\ n.sinceChange = 0
  /\ ~(s.polled /\ live # s.lastSeen) =>
       /\ n.prevDistinct = s.prevDistinct /\ n.prevHold = s.prevHold
       /\ n.sinceChange = s.sinceChange

LEMMA NotedFields ==
  ASSUME NEW s \in GovStates, NEW live \in Rates
  PROVE  Notes(s, live, Noted(s, live)) /\ SamePokes(s, Noted(s, live))
<1>1. CASE s.polled /\ live # s.lastSeen
  <2>1. Noted(s, live) =
          [s EXCEPT !.lastSeen = live, !.prevDistinct = s.lastSeen,
                    !.prevHold = s.sinceChange, !.sinceChange = 0]
    BY <1>1 DEF Noted
  <2>2. s.polled = TRUE
    BY <1>1 DEF GovStates
  <2> QED BY <1>1, <2>1, <2>2 DEF Notes, SamePokes, GovStates
<1>2. CASE ~(s.polled /\ live # s.lastSeen)
  <2>1. Noted(s, live) = [s EXCEPT !.lastSeen = live, !.polled = TRUE]
    BY <1>2, Zenon DEF Noted
  <2> QED BY <1>2, <2>1 DEF Notes, SamePokes, GovStates
<1> QED BY <1>1, <1>2

\* The decision on h, the state that noted the reading, is the event and n.
Decides(s, live, h, e, n) ==
  /\ SameReading(h, n)
  /\ e = "bumped" => live = ColdStart /\ ~Descent(s, h, live) /\ n.sinceBump = 0
  /\ e = "floorRescue" => Descent(s, h, live) /\ ~h.armed /\ n.armed = h.armed
  /\ e = "clamped" => Reverted(h, live)
  /\ Descent(s, h, live) /\ MayRescue(h) => e = "floorRescue"
  /\ e # "floorRescue" => n.rescued = h.rescued /\ n.sinceRescue = h.sinceRescue
  /\ e # "bumped" => n.sinceBump = h.sinceBump
  /\ e # "bumped" /\ n.armed => h.armed /\ h.sinceBump < VerifyMs

LEMMA GovStepDecides ==
  ASSUME NEW s \in GovStates, NEW live \in Rates
  PROVE  Decides(s, live, Noted(s, live), GovStep(s, live).event, GovStep(s, live).g)
<1> DEFINE h == Noted(s, live)
           descent == Descent(s, h, live)
           low == Reverted(h, live)
           k == [h EXCEPT !.lowSeen = low]
           bump == live = ColdStart /\ ~descent /\ MayBump(h)
           rescue == descent /\ MayRescue(h)
           D(r) == Decides(s, live, h, r.event, r.g)
<1>1. h \in GovStates
  BY NotedType
<1>2. low \in BOOLEAN
  BY <1>1 DEF Reverted, GovStates
<1>3. k \in GovStates /\ SameReading(h, k) /\ SamePokes(h, k)
  <2> HIDE DEF h, low
  <2> QED BY <1>1, <1>2 DEF GovStates, SameReading, SamePokes
<1>4. CASE bump
  <2> DEFINE n == [h EXCEPT !.bumped = TRUE, !.sinceBump = 0, !.armed = TRUE]
  <2>1. GovStep(s, live) = [event |-> "bumped", g |-> n]
    BY <1>4 DEF GovStep
  <2>2. SameReading(h, n) /\ n.sinceBump = 0 /\ n.rescued = h.rescued /\ n.sinceRescue = h.sinceRescue
    <3> HIDE DEF h
    <3> QED BY <1>1 DEF GovStates, SameReading
  <2>3. D([event |-> "bumped", g |-> n])
    <3> HIDE DEF h, n
    <3> QED BY <1>4, <2>2 DEF Decides
  <2> QED BY <2>1, <2>3
<1>5. CASE ~bump /\ rescue
  <2> DEFINE n == [h EXCEPT !.rescued = TRUE, !.sinceRescue = 0]
  <2>1. GovStep(s, live) = [event |-> "floorRescue", g |-> n]
    BY <1>5 DEF GovStep
  <2>2. SameReading(h, n) /\ n.sinceBump = h.sinceBump /\ n.armed = h.armed
    <3> HIDE DEF h
    <3> QED BY <1>1 DEF GovStates, SameReading
  <2>3. ~h.armed
    BY <1>5 DEF MayRescue
  <2>4. D([event |-> "floorRescue", g |-> n])
    <3> HIDE DEF h, n
    <3> QED BY <1>5, <2>2, <2>3 DEF Decides
  <2> QED BY <2>1, <2>4
<1>6. ASSUME NEW n \in GovStates, ~n.armed, SameReading(h, n), n.sinceBump = h.sinceBump,
             n.rescued = h.rescued, n.sinceRescue = h.sinceRescue, ~rescue,
             NEW e \in {"held", "clamped"}, e = "clamped" => low
      PROVE  Decides(s, live, h, e, n)
  <2> HIDE DEF h
  <2> QED BY <1>6 DEF Decides
<1>7. ASSUME NEW q \in GovStates
      PROVE  /\ ~Verdict(q).armed /\ SameReading(q, Verdict(q)) /\ Verdict(q).sinceBump = q.sinceBump
             /\ Verdict(q).rescued = q.rescued /\ Verdict(q).sinceRescue = q.sinceRescue
  <2>1. ~Verdict(q).armed
    BY VerdictType
  <2> QED BY <2>1 DEF Verdict, GovStates, SameReading
<1>8. CASE ~bump /\ ~rescue /\ low /\ h.lowSeen
  <2>1. GovStep(s, live) = [event |-> "clamped", g |-> Verdict(h)]
    BY <1>8 DEF GovStep
  <2>2. Verdict(h) \in GovStates
    BY <1>1, VerdictType
  <2>3. D([event |-> "clamped", g |-> Verdict(h)])
    <3> HIDE DEF h, low, rescue
    <3> DEFINE n == Verdict(h)
    <3>1. /\ ~n.armed /\ SameReading(h, n) /\ n.sinceBump = h.sinceBump
          /\ n.rescued = h.rescued /\ n.sinceRescue = h.sinceRescue
      BY <1>1, <1>7
    <3> HIDE DEF n
    <3>2. Decides(s, live, h, "clamped", n)
      BY <1>6, <1>8, <2>2, <3>1 DEF n
    <3> QED BY <3>2 DEF n
  <2> QED BY <2>1, <2>3
<1>9. CASE ~bump /\ ~rescue /\ ~(low /\ h.lowSeen) /\ WindowOver(h, live)
  <2> DEFINE e == IF low THEN "clamped" ELSE "held"
  <2>1. GovStep(s, live) = [event |-> e, g |-> Verdict(k)]
    BY <1>9 DEF GovStep
  <2>2. Verdict(k) \in GovStates
    BY <1>3, VerdictType
  <2>3. e \in {"held", "clamped"} /\ (e = "clamped" => low)
    OBVIOUS
  <2>5. D([event |-> e, g |-> Verdict(k)])
    <3> HIDE DEF h, k, e, low, rescue
    <3> DEFINE n == Verdict(k)
    <3>1. /\ n \in GovStates
          /\ ~n.armed /\ SameReading(k, n) /\ n.sinceBump = k.sinceBump
          /\ n.rescued = k.rescued /\ n.sinceRescue = k.sinceRescue
      BY <1>3, <1>7, <2>2
    <3> HIDE DEF n
    <3>2. /\ SameReading(h, n) /\ n.sinceBump = h.sinceBump
          /\ n.rescued = h.rescued /\ n.sinceRescue = h.sinceRescue
      BY <1>3, <3>1 DEF SameReading, SamePokes
    <3>3. Decides(s, live, h, e, n)
      BY <1>6, <1>9, <2>3, <3>1, <3>2
    <3> QED BY <3>3 DEF n
  <2> QED BY <2>1, <2>5
<1>10. CASE ~bump /\ ~rescue /\ ~(low /\ h.lowSeen) /\ ~WindowOver(h, live)
  <2> DEFINE n == [k EXCEPT !.sinceTrace = 0]
  <2>1. \/ GovStep(s, live) = [event |-> "trace", g |-> n]
        \/ GovStep(s, live) = [event |-> "none", g |-> k]
    BY <1>10 DEF GovStep
  <2>2. SameReading(k, n) /\ SamePokes(k, n)
    <3> HIDE DEF k
    <3> QED BY <1>3 DEF GovStates, SameReading, SamePokes
  <2>3. h.armed => h.sinceBump < VerifyMs
    BY <1>1, <1>10 DEF WindowOver, GovStates
  <2>4. ASSUME NEW q, SameReading(h, q), SamePokes(h, q), NEW e \in {"trace", "none"}
        PROVE  Decides(s, live, h, e, q)
    <3> HIDE DEF h
    <3> QED BY <1>10, <2>3, <2>4 DEF Decides, SamePokes
  <2>5. SameReading(h, n) /\ SamePokes(h, n)
    <3> HIDE DEF h, k, n
    <3> QED BY <1>3, <2>2 DEF SameReading, SamePokes
  <2>6. D([event |-> "trace", g |-> n]) /\ D([event |-> "none", g |-> k])
    <3> HIDE DEF h, k, n
    <3> QED BY <1>3, <2>4, <2>5
  <2> QED BY <2>1, <2>6
<1> QED
  BY <1>4, <1>5, <1>8, <1>9, <1>10

\* A poll, in terms of the states before and after it.
PollGives ==
  /\ Notes(g, rate, g')
  /\ event' = "bumped" =>
       rate = ColdStart /\ ~(g.polled /\ Descended(g')) /\ g'.sinceBump = 0
  /\ event' = "floorRescue" => g.polled /\ Descended(g') /\ ~g'.armed
  /\ event' = "clamped" => g.armed /\ rate <= ClampFloor /\ Target - rate > DownSlack
  /\ g.polled /\ Descended(g') /\ MayRescue(g) => event' = "floorRescue"
  /\ event' # "floorRescue" => g'.rescued = g.rescued /\ g'.sinceRescue = g.sinceRescue
  /\ event' # "bumped" => g'.sinceBump = g.sinceBump
  /\ event' # "bumped" /\ g'.armed => g.armed /\ g.sinceBump < VerifyMs
  /\ thread' = IF event' \in {"bumped", "floorRescue"} THEN "write" ELSE "sleep"

LEMMA PollFields == TypeOK /\ Poll => PollGives
<1> SUFFICES ASSUME TypeOK, Poll PROVE PollGives
  OBVIOUS
<1> DEFINE h == Noted(g, rate)
           s == GovStep(g, rate)
<1>1. g \in GovStates /\ rate \in Rates
  BY DEF TypeOK
<1>2. Notes(g, rate, h) /\ SamePokes(g, h)
  BY <1>1, NotedFields
<1>3. Decides(g, rate, h, event', g')
  <2>1. g' = s.g /\ event' = s.event
    BY DEF Poll
  <2>2. Decides(g, rate, h, s.event, s.g)
    BY <1>1, GovStepDecides
  <2> HIDE DEF h, s
  <2> QED BY <2>1, <2>2
<1>4. thread' = IF event' \in {"bumped", "floorRescue"} THEN "write" ELSE "sleep"
  BY DEF Poll
<1>5. Notes(g, rate, g')
  <2> HIDE DEF h
  <2> QED BY <1>2, <1>3 DEF Decides, Notes, SameReading
<1>6. Descent(g, h, rate) <=> g.polled /\ Descended(g')
  <2> HIDE DEF h
  <2> QED BY <1>2, <1>3 DEF Decides, Notes, SameReading, Descent, Descended, InBand
<1>7. MayRescue(h) <=> MayRescue(g)
  <2> HIDE DEF h
  <2> QED BY <1>2 DEF SamePokes, MayRescue
<1>8. Reverted(h, rate) => g.armed /\ rate <= ClampFloor /\ Target - rate > DownSlack
  <2> HIDE DEF h
  <2> QED BY <1>2 DEF SamePokes, Reverted
<1> HIDE DEF h
<1> QED
  BY <1>2, <1>3, <1>4, <1>5, <1>6, <1>7, <1>8 DEF Decides, SamePokes, PollGives

\* The fields the invariants below read, with their types.
Fields(s) ==
  /\ s.armed \in BOOLEAN /\ s.polled \in BOOLEAN /\ s.rescued \in BOOLEAN
  /\ s.sinceBump \in 0 .. VerifyMs /\ s.sinceRescue \in 0 .. DescentMs
  /\ s.lastSeen \in Rates /\ s.prevDistinct \in Rates
  /\ s.sinceChange \in 0 .. DescentMs + 1 /\ s.prevHold \in 0 .. DescentMs + 1

LEMMA StateFields == ASSUME NEW s \in GovStates PROVE Fields(s)
BY DEF GovStates, Fields

\* A tick, in terms of the states before and after it.
TickGives ==
  /\ thread = "sleep" /\ thread' = "poll"
  /\ g'.lastSeen = g.lastSeen /\ g'.polled = g.polled
  /\ g'.prevDistinct = g.prevDistinct /\ g'.prevHold = g.prevHold
  /\ g'.armed = g.armed /\ g'.rescued = g.rescued
  /\ g'.sinceBump = Capped(g.sinceBump, VerifyMs)
  /\ g'.sinceRescue = Capped(g.sinceRescue, DescentMs)
  /\ g'.sinceChange = Capped(g.sinceChange, DescentMs + 1)

LEMMA TickFields == TypeOK /\ Tick => TickGives
BY DEF TypeOK, Tick, TickGives, Older, GovStates

\* What every step keeps true, and so may be assumed of the state after it.
LEMMA TypeStep == Accounted /\ [Next]_vars => TypeOK /\ TypeOK'
BY AccountedStep DEF Accounted

-----------------------------------------------------------------------------
(* A clamp is an overwrite                                                  *)
(*                                                                          *)
(* Between a poke nothing overwrote and the reading that judges it, the     *)
(* rate moves by single steps StepEvery apart: how far it can have come     *)
(* from the target is bounded by the time since the bump.                   *)

\* The ticks the governor needs from the target to v.
Walk(v) == (Target - v) * StepEvery

\* The verdict falls before the governor can have walked both to the clamp
\* floor and out of the slack.  The header's window is 10 s, the game's steps
\* are a couple of seconds and at most a few hundred apart, and the floor is
\* 24000 below a target of 40000 (gov_trace.h:33-35 and 70-81).
WalkIsSlow ==
  /\ VerifyMs > 0
  /\ Walk(ClampFloor) > VerifyMs \/ Walk(Target - DownSlack - 1) > VerifyMs

WalkBounded ==
  /\ g.armed /\ thread = "write" => g.sinceBump = 0
  /\ g.armed /\ thread = "sleep" => g.sinceBump < VerifyMs
  /\ g.armed /\ thread # "write" /\ intact => Walk(rate) + sinceStep <= g.sinceBump

LEMMA WalkSteps ==
  ASSUME NEW v \in Int
  PROVE  /\ Walk(v) \in Int /\ Walk(Target) = 0
         /\ Walk(v + 1) = Walk(v) - StepEvery /\ Walk(v - 1) = Walk(v) + StepEvery
BY DEF Walk

LEMMA WalkDown ==
  ASSUME NEW v \in Int, NEW w \in Int, v <= w
  PROVE  Walk(v) >= Walk(w)
<1>1. PICK d \in Nat : w = v + d
  <2>1. w - v \in Nat /\ w = v + (w - v)
    OBVIOUS
  <2> QED BY <2>1
<1>2. Walk(v) = Walk(w) + d * StepEvery /\ d * StepEvery >= 0
  BY <1>1 DEF Walk
<1>3. Walk(w) \in Int /\ d * StepEvery \in Int
  BY WalkSteps
<1> QED BY <1>2, <1>3

LEMMA WalkStep ==
  ASSUME WalkIsSlow
  PROVE  Accounted /\ WalkBounded /\ [Next]_vars => WalkBounded'
<1> SUFFICES ASSUME Accounted, WalkBounded, [Next]_vars PROVE WalkBounded'
  OBVIOUS
<1>1. TypeOK /\ TypeOK'
  BY TypeStep
<1>2. Fields(g) /\ Fields(g') /\ rate \in Rates /\ sinceStep \in Nat /\ intact \in BOOLEAN
  BY <1>1, StateFields DEF TypeOK
<1>3. VerifyMs > 0
  BY DEF WalkIsSlow
<1>4. CASE Poll
  <2>1. PollGives /\ thread = "poll" /\ UNCHANGED << rate, sinceStep, intact >>
    BY <1>1, <1>4, PollFields DEF Poll
  <2>2. thread' \in {"write", "sleep"} /\ (thread' = "sleep" => event' # "bumped")
    BY <2>1 DEF PollGives
  <2> QED BY <1>2, <2>1, <2>2 DEF PollGives, WalkBounded, Fields
<1>5. CASE Poke
  <2>1. rate' = Target /\ sinceStep' = 0 /\ thread = "write" /\ thread' = "sleep" /\ g' = g
    BY <1>5 DEF Poke
  <2>2. Walk(rate') = 0
    BY <2>1, WalkSteps
  <2> QED BY <1>2, <1>3, <2>1, <2>2 DEF WalkBounded, Fields
<1>6. CASE StartMatch \/ Overwrite
  <2>1. intact' = FALSE /\ UNCHANGED << g, thread >>
    BY <1>6 DEF StartMatch, Overwrite, Writes
  <2> QED BY <2>1 DEF WalkBounded
<1>7. CASE EndMatch
  BY <1>7 DEF EndMatch, WalkBounded
<1>8. CASE Adjust
  <2>1. /\ rate' = rate + 1 \/ rate' = rate - 1
        /\ sinceStep >= StepEvery /\ sinceStep' = 0 /\ UNCHANGED << g, thread, intact >>
    BY <1>8 DEF Adjust
  <2>2. Walk(rate') <= Walk(rate) + StepEvery /\ Walk(rate) \in Int /\ Walk(rate') \in Int
    BY <1>2, <2>1, WalkSteps DEF Rates
  <2> QED BY <1>2, <2>1, <2>2 DEF WalkBounded, Fields
<1>9. CASE Tick
  <2>1. TickGives /\ sinceStep' <= sinceStep + 1 /\ sinceStep' \in Nat /\ UNCHANGED << rate, intact >>
    BY <1>1, <1>9, TickFields DEF Tick, Capped, TypeOK
  <2>2. Walk(rate) \in Int
    BY <1>2, WalkSteps DEF Rates
  <2>3. Walk(rate') = Walk(rate)
    BY <2>1
  <2> QED BY <1>2, <2>1, <2>2, <2>3 DEF WalkBounded, Fields, TickGives, Capped
<1>10. CASE UNCHANGED vars
  BY <1>10 DEF vars, WalkBounded
<1> QED
  BY <1>4, <1>5, <1>6, <1>7, <1>8, <1>9, <1>10 DEF Next

\* A poke that nothing overwrote is not called clamped.
LEMMA ClampedWasOverwritten ==
  ASSUME WalkIsSlow
  PROVE  Accounted /\ WalkBounded /\ [Next]_vars => (event' = "clamped" /\ Poll => ~intact)
<1> SUFFICES ASSUME Accounted, WalkBounded, Poll, event' = "clamped", intact PROVE FALSE
  OBVIOUS
<1>1. TypeOK
  BY DEF Accounted
<1>2. /\ g.armed /\ thread = "poll"
      /\ rate <= ClampFloor /\ Target - rate > DownSlack
  BY <1>1, PollFields DEF PollGives, Poll
<1>3. Fields(g) /\ rate \in Nat /\ sinceStep \in Nat
  BY <1>1, StateFields DEF TypeOK, Rates
<1>4. PICK w \in {ClampFloor, Target - DownSlack - 1} : Walk(w) > VerifyMs
  BY DEF WalkIsSlow
<1>5. w \in Int /\ rate \in Int /\ rate <= w
  BY <1>2, <1>3, <1>4
<1>6. Walk(rate) >= Walk(w) /\ Walk(rate) \in Int /\ Walk(w) \in Int
  <2>1. Walk(rate) >= Walk(w)
    BY <1>5, WalkDown
  <2>2. Walk(rate) \in Int /\ Walk(w) \in Int
    BY <1>5, WalkSteps
  <2> QED BY <2>1, <2>2
<1>7. Walk(rate) + sinceStep <= g.sinceBump
  BY <1>2 DEF WalkBounded
<1> QED BY <1>3, <1>4, <1>6, <1>7 DEF Fields

\* "POKE DID NOT HOLD" is said only of a poke the game overwrote
\* (gov_trace.h:70-81), for every window the governor cannot walk down in.
THEOREM ClampsAreOverwrites ==
  ASSUME WalkIsSlow
  PROVE  Spec => ClampIsOverwrite
<1>1. Init => WalkBounded
  BY DEF Init, GovInit, WalkBounded
<1>2. Accounted /\ WalkBounded /\ [Next]_vars => WalkBounded'
  BY WalkStep
<1>3. Accounted /\ WalkBounded /\ [Next]_vars => [event' = "clamped" /\ Poll => ~intact]_vars
  BY ClampedWasOverwritten
<1> QED
  BY <1>1, <1>2, <1>3, AccountedAlways, PTL DEF Spec, Safety, ClampIsOverwrite

-----------------------------------------------------------------------------
(* A rescue is no start                                                     *)
(*                                                                          *)
(* A match start writes the sentinel over the value of the lobby, which the *)
(* thread has by then seen for longer than a descent lets a value last.  A  *)
(* match may also end just above the sentinel, or on it with a descent half *)
(* noticed: the lobby then outlasts every reason not to rescue, and the     *)
(* thread has left the sentinel before the next start.                      *)

\* A poke is not mistaken for a value just above the sentinel: 40000 against
\* 4000 and a band of 2000 (gov_trace.h:167-179).
TargetAboveBand == Target > ColdStart + DescentBand

\* A verdict falls sooner than a descent is forgotten: 10 s against 30 s.
WindowWithinLobby == 0 < VerifyMs /\ VerifyMs < DescentMs

\* The lobby's value is the one the thread saw, for as long as the lobby has
\* lasted, unless the thread has just written it.
LobbySeen ==
  /\ phase = "match" => inLobby = 0
  /\ ~g.polled => g.prevDistinct = 0
  /\ phase = "lobby" /\ (inLobby >= 2 \/ (inLobby = 1 /\ thread # "poll")) =>
       g.polled /\ (g.lastSeen = rate \/ rate = Target)
  /\ phase = "lobby" /\ InBand(g.lastSeen) => g.sinceChange + 1 >= inLobby

\* On the sentinel in a lobby, what stands against a rescue ages with it; a
\* descent is still remembered only in a lobby too young to start a match.
LobbyRescues ==
  /\ phase = "lobby" /\ rate = ColdStart /\ thread # "write" =>
       /\ g.rescued => g.sinceRescue >= inLobby \/ g.sinceRescue = DescentMs
       /\ g.armed => /\ inLobby < VerifyMs \/ (inLobby = VerifyMs /\ thread = "poll")
                     /\ g.sinceBump >= inLobby
  /\ phase = "lobby" /\ Descended(g) =>
       \/ inLobby < DescentMs
       \/ inLobby = DescentMs /\ (thread # "sleep" \/ rate = Target)
       \/ inLobby = DescentMs + 1 /\ thread = "poll" /\ rate = Target

\* A sentinel that a match start wrote was not walked onto.
StartWritten ==
  origin = "start" /\ rate = ColdStart /\ g.polled /\ thread # "write" =>
    (InBand(g.lastSeen) => g.sinceChange > DescentMs) /\ ~Descended(g)

StartIInv == LobbySeen /\ LobbyRescues /\ StartWritten

LEMMA StartStep ==
  ASSUME TargetAboveBand, WindowWithinLobby
  PROVE  Accounted /\ StartIInv /\ [Next]_vars => StartIInv'
<1> SUFFICES ASSUME Accounted, StartIInv, [Next]_vars PROVE StartIInv'
  OBVIOUS
<1>1. TypeOK /\ TypeOK'
  BY TypeStep
<1>2. /\ Fields(g) /\ Fields(g') /\ rate \in Nat /\ inLobby \in 0 .. DescentMs + 2
      /\ thread \in {"poll", "write", "sleep"} /\ phase \in {"lobby", "match"}
  BY <1>1, StateFields DEF TypeOK, Rates
<1> USE DEF StartIInv, Fields, Rates
<1>3. CASE Poll
  <2>1. PollGives /\ thread = "poll" /\ UNCHANGED << rate, phase, inLobby, origin >>
    BY <1>1, <1>3, PollFields DEF Poll
  <2>2. /\ thread' \in {"write", "sleep"}
        /\ thread' = "sleep" => event' # "bumped" /\ event' # "floorRescue"
        /\ event' = "floorRescue" => thread' = "write"
    BY <2>1 DEF PollGives
  <2>3. Notes(g, rate, g')
    BY <2>1 DEF PollGives
  <2>4. LobbySeen'
    BY <1>2, <2>1, <2>2, <2>3 DEF Notes, LobbySeen, InBand, TargetAboveBand
  <2>5. Descended(g') /\ g.polled /\ rate = g.lastSeen => Descended(g)
    BY <2>3 DEF Notes, Descended
  <2>6. Descended(g') => g.polled
    BY <1>2, <2>3 DEF Notes, Descended, InBand, LobbySeen
  <2>7. Descended(g') => rate = ColdStart
    BY <2>3 DEF Notes, Descended
  <2>8. Descended(g') /\ rate # g.lastSeen => InBand(g.lastSeen) /\ g.sinceChange <= DescentMs
    BY <2>3, <2>6 DEF Notes, Descended
  <2>9. ASSUME phase = "lobby", rate = ColdStart, thread' = "sleep"
        PROVE  /\ g'.rescued => g'.sinceRescue >= inLobby \/ g'.sinceRescue = DescentMs
               /\ g'.armed => inLobby < VerifyMs /\ g'.sinceBump >= inLobby
    BY <1>2, <2>1, <2>2, <2>9 DEF PollGives, LobbyRescues
  <2>10. ASSUME phase = "lobby", Descended(g')
         PROVE  inLobby < DescentMs \/ (inLobby = DescentMs /\ thread' = "write")
    <3>1. CASE rate # g.lastSeen
      <4>1. inLobby <= 1
        BY <1>2, <2>1, <2>7, <2>10, <3>1 DEF LobbySeen, TargetAboveBand
      <4> QED BY <1>2, <4>1 DEF WindowWithinLobby
    <3>2. CASE rate = g.lastSeen
      <4>1. Descended(g)
        BY <2>5, <2>6, <2>10, <3>2
      <4>2. inLobby < DescentMs \/ inLobby = DescentMs
        BY <1>2, <2>1, <2>7, <2>10, <4>1 DEF LobbyRescues
      <4>3. ASSUME inLobby = DescentMs PROVE thread' = "write"
        <5>1. ~g.armed /\ (g.rescued => g.sinceRescue >= DescentMs)
          BY <1>2, <2>1, <2>7, <2>10, <4>3 DEF LobbyRescues, WindowWithinLobby
        <5>2. MayRescue(g)
          BY <5>1 DEF MayRescue
        <5> QED BY <2>1, <2>2, <2>6, <2>10, <5>2 DEF PollGives
      <4> QED BY <4>2, <4>3
    <3> QED BY <3>1, <3>2
  <2>11. LobbyRescues'
    BY <2>1, <2>2, <2>9, <2>10 DEF LobbyRescues
  <2>12. ASSUME origin = "start", rate = ColdStart PROVE ~Descended(g') /\ ~InBand(g'.lastSeen)
    <3>1. ~InBand(g'.lastSeen)
      BY <2>3, <2>12 DEF Notes, InBand
    <3>2. ~Descended(g')
      BY <1>2, <2>1, <2>5, <2>6, <2>8, <2>12 DEF StartWritten
    <3> QED BY <3>1, <3>2
  <2>13. StartWritten'
    BY <2>1, <2>12 DEF StartWritten
  <2> QED BY <2>4, <2>11, <2>13
<1>4. CASE Poke
  <2>1. /\ thread = "write" /\ rate' = Target /\ origin' = "poke" /\ thread' = "sleep"
        /\ UNCHANGED << g, phase, inLobby >>
    BY <1>4 DEF Poke
  <2>2. LobbySeen'
    BY <1>2, <2>1 DEF LobbySeen
  <2>3. LobbyRescues'
    BY <1>2, <2>1 DEF LobbyRescues
  <2> QED BY <2>1, <2>2, <2>3 DEF StartWritten
<1>5. CASE StartMatch
  <2>1. /\ phase = "lobby" /\ inLobby = DescentMs + 2 /\ phase' = "match" /\ inLobby' = 0
        /\ UNCHANGED << g, thread >>
    BY <1>5 DEF StartMatch, Writes
  <2>2. InBand(g.lastSeen) => g.sinceChange > DescentMs
    BY <1>2, <2>1 DEF LobbySeen
  <2>3. ~Descended(g)
    BY <1>2, <2>1 DEF LobbyRescues
  <2>4. LobbySeen' /\ LobbyRescues'
    BY <2>1 DEF LobbySeen, LobbyRescues
  <2> QED BY <2>1, <2>2, <2>3, <2>4 DEF StartWritten
<1>6. CASE EndMatch
  <2>1. /\ phase = "match" /\ phase' = "lobby" /\ inLobby = 0
        /\ UNCHANGED << rate, g, thread, inLobby, origin >>
    BY <1>6 DEF EndMatch, LobbySeen
  <2>2. LobbySeen'
    BY <1>2, <2>1 DEF LobbySeen
  <2>3. LobbyRescues'
    BY <1>2, <2>1 DEF LobbyRescues, WindowWithinLobby
  <2> QED BY <2>1, <2>2, <2>3 DEF StartWritten
<1>7. CASE Overwrite \/ Adjust
  <2>1. phase = "match" /\ origin' # "start" /\ UNCHANGED << g, thread, phase, inLobby >>
    BY <1>7 DEF Overwrite, Adjust, Writes
  <2> QED BY <2>1 DEF LobbySeen, LobbyRescues, StartWritten
<1>8. CASE Tick
  <2>1. TickGives /\ UNCHANGED << rate, phase, origin >>
    BY <1>1, <1>8, TickFields DEF Tick
  <2>2. inLobby' = IF phase = "lobby" THEN Capped(inLobby, DescentMs + 2) ELSE inLobby
    BY <1>8 DEF Tick
  <2>3. Descended(g') <=> Descended(g)
    BY <2>1 DEF TickGives, Descended
  <2>4. LobbySeen'
    BY <1>2, <2>1, <2>2 DEF TickGives, LobbySeen, Capped
  <2>5. LobbyRescues'
    BY <1>2, <2>1, <2>2, <2>3 DEF TickGives, LobbyRescues, Capped, WindowWithinLobby
  <2>6. StartWritten'
    BY <1>2, <2>1, <2>3 DEF TickGives, StartWritten, Capped
  <2> QED BY <2>4, <2>5, <2>6
<1>9. CASE UNCHANGED vars
  BY <1>9 DEF vars, LobbySeen, LobbyRescues, StartWritten
<1> QED
  BY <1>3, <1>4, <1>5, <1>6, <1>7, <1>8, <1>9 DEF Next

\* What is rescued was walked onto.
LEMMA RescuedWasWalked ==
  Accounted /\ StartIInv /\ [Next]_vars => (event' = "floorRescue" /\ Poll => origin # "start")
<1> SUFFICES ASSUME Accounted, StartIInv, Poll, event' = "floorRescue", origin = "start"
             PROVE  FALSE
  OBVIOUS
<1>1. TypeOK /\ thread = "poll"
  BY DEF Accounted, Poll
<1>2. g.polled /\ Descended(g') /\ Notes(g, rate, g')
  BY <1>1, PollFields DEF PollGives
<1>3. rate = ColdStart
  BY <1>2 DEF Notes, Descended
<1>4. (InBand(g.lastSeen) => g.sinceChange > DescentMs) /\ ~Descended(g)
  BY <1>1, <1>2, <1>3 DEF StartIInv, StartWritten
<1>5. CASE rate = g.lastSeen
  BY <1>2, <1>4, <1>5 DEF Notes, Descended
<1>6. CASE rate # g.lastSeen
  <2>1. InBand(g.lastSeen) /\ g.sinceChange <= DescentMs
    BY <1>2, <1>6 DEF Notes, Descended
  <2>2. g.sinceChange \in Nat
    BY <1>1, StateFields DEF TypeOK, Fields
  <2> QED BY <1>4, <2>1, <2>2
<1> QED BY <1>5, <1>6

\* A match start is never taken for a collapse (gov_trace.h:44-50), for every
\* target above the band and every window shorter than a descent.
THEOREM StartsAreNotRescued ==
  ASSUME TargetAboveBand, WindowWithinLobby
  PROVE  Spec => RescueIsNoStart
<1>1. Init => StartIInv
  BY DEF Init, GovInit, StartIInv, LobbySeen, LobbyRescues, StartWritten, Descended, InBand,
         WindowWithinLobby
<1>2. Accounted /\ StartIInv /\ [Next]_vars => StartIInv'
  BY StartStep
<1>3. Accounted /\ StartIInv /\ [Next]_vars => [event' = "floorRescue" /\ Poll => origin # "start"]_vars
  BY RescuedWasWalked
<1> QED
  BY <1>1, <1>2, <1>3, AccountedAlways, PTL DEF Spec, Safety, RescueIsNoStart

-----------------------------------------------------------------------------
(* A bump is no collapse                                                    *)
(*                                                                          *)
(* A step of the governor comes after the thread has seen the value it      *)
(* leaves, and a step onto the sentinel leaves a value seen for less than a *)
(* descent: the reading that finds the sentinel finds the descent with it.  *)

\* A value lasts longer than a poll (100 ms against a couple of seconds), one
\* step is within the band, and the stock floor is not below the sentinel.
StepsApart == StepEvery >= 2 /\ DescentBand >= 1 /\ ColdStart <= ClampFloor

\* What the thread has seen of the rate, from how long it has stood.
StepsSeen ==
  /\ rate >= ColdStart
  /\ ~g.polled => thread = "poll" /\ g.sinceChange = 0
  /\ sinceStep >= 2 \/ (sinceStep = 1 /\ thread # "poll") => g.polled /\ g.lastSeen = rate
  /\ thread = "write" => g.lastSeen = ColdStart
  /\ origin = "poke" => rate = Target /\ (g.lastSeen = ColdStart \/ g.lastSeen = Target)
  /\ rate = ColdStart + 1 /\ g.polled /\ g.lastSeen = rate => g.sinceChange <= sinceStep

\* A sentinel the governor stepped onto is known to have been walked onto, or
\* will be at the next reading.
StepWritten ==
  origin = "step" /\ rate = ColdStart =>
    /\ g.polled
    /\ \/ Descended(g)
       \/ /\ g.lastSeen = ColdStart + 1
          /\ g.sinceChange < DescentMs \/ (thread = "poll" /\ g.sinceChange = DescentMs)

StepIInv == StepsSeen /\ StepWritten

\* A reading that finds a sentinel the governor stepped onto finds the descent.
LEMMA WalkIsNoticed ==
  ASSUME StepsApart, Accounted, StepIInv, Poll, origin = "step", rate = ColdStart
  PROVE  g.polled /\ Descended(g')
<1>1. TypeOK /\ thread = "poll"
  BY DEF Accounted, Poll
<1>2. Notes(g, rate, g') /\ Fields(g)
  BY <1>1, PollFields, StateFields DEF PollGives, TypeOK
<1>3. g.polled
  BY DEF StepIInv, StepWritten
<1>4. CASE Descended(g)
  BY <1>2, <1>3, <1>4 DEF Notes, Descended
<1>5. CASE g.lastSeen = ColdStart + 1 /\ g.sinceChange <= DescentMs
  BY <1>2, <1>3, <1>5 DEF Notes, Descended, InBand, StepsApart
<1> QED
  BY <1>2, <1>4, <1>5 DEF StepIInv, StepWritten, Fields

LEMMA StepStep ==
  ASSUME TargetAboveBand, StepsApart
  PROVE  Accounted /\ StepIInv /\ [Next]_vars => StepIInv'
<1> SUFFICES ASSUME Accounted, StepIInv, [Next]_vars PROVE StepIInv'
  OBVIOUS
<1>1. TypeOK /\ TypeOK'
  BY TypeStep
<1>2. /\ Fields(g) /\ Fields(g') /\ rate \in Nat /\ sinceStep \in 0 .. DescentMs + StepEvery
      /\ thread \in {"poll", "write", "sleep"}
  BY <1>1, StateFields DEF TypeOK, Rates
<1>3. Target > ColdStart + 1
  BY DEF TargetAboveBand, StepsApart
<1> USE DEF StepIInv, Fields, Rates
<1>4. CASE Poll
  <2>1. PollGives /\ thread = "poll" /\ UNCHANGED << rate, sinceStep, origin >>
    BY <1>1, <1>4, PollFields DEF Poll
  <2>2. Notes(g, rate, g')
    BY <2>1 DEF PollGives
  <2>3. thread' = "write" => rate = ColdStart
    BY <2>1, <2>2 DEF PollGives, Notes, Descended
  <2>4. StepsSeen'
    BY <1>2, <2>1, <2>2, <2>3 DEF Notes, StepsSeen
  <2>5. StepWritten'
    BY <1>4, <2>1, <2>2, WalkIsNoticed DEF Notes, StepWritten
  <2> QED BY <2>4, <2>5
<1>5. CASE Poke
  <2>1. /\ thread = "write" /\ rate' = Target /\ origin' = "poke" /\ thread' = "sleep"
        /\ sinceStep' = 0 /\ g' = g
    BY <1>5 DEF Poke
  <2> QED BY <1>2, <1>3, <2>1 DEF StepsSeen, StepWritten
<1>6. CASE StartMatch
  <2>1. rate' = ColdStart /\ origin' = "start" /\ sinceStep' = 0 /\ UNCHANGED << g, thread >>
    BY <1>6 DEF StartMatch, Writes
  <2> QED BY <1>2, <2>1 DEF StepsSeen, StepWritten
<1>7. CASE EndMatch
  BY <1>7 DEF EndMatch, StepsSeen, StepWritten
<1>8. CASE Overwrite
  <2>1. /\ origin = "poke" /\ rate' \in {ColdStart, ClampFloor} /\ origin' = "lost"
        /\ sinceStep' = 0 /\ UNCHANGED << g, thread >>
    BY <1>8 DEF Overwrite, Writes
  <2> QED BY <1>2, <1>3, <2>1 DEF StepsSeen, StepWritten, StepsApart
<1>9. CASE Adjust
  <2>1. /\ rate' = rate + 1 \/ (rate > ColdStart /\ rate' = rate - 1)
        /\ rate' = ColdStart => sinceStep < DescentMs
        /\ sinceStep >= StepEvery /\ sinceStep' = 0 /\ origin' = "step"
        /\ UNCHANGED << g, thread >>
    BY <1>9 DEF Adjust
  <2>2. g.polled /\ g.lastSeen = rate
    BY <1>2, <2>1 DEF StepsSeen, StepsApart
  <2>3. StepsSeen'
    BY <1>2, <2>1, <2>2 DEF StepsSeen
  <2>4. rate' = ColdStart => rate = ColdStart + 1
    BY <1>2, <2>1 DEF StepsSeen
  <2>5. StepWritten'
    BY <1>2, <2>1, <2>2, <2>4 DEF StepsSeen, StepWritten
  <2> QED BY <2>3, <2>5
<1>10. CASE Tick
  <2>1. TickGives /\ UNCHANGED << rate, origin >> /\ sinceStep' = Capped(sinceStep, DescentMs + StepEvery)
    BY <1>1, <1>10, TickFields DEF Tick
  <2>2. Descended(g') <=> Descended(g)
    BY <2>1 DEF TickGives, Descended
  <2>3. StepsSeen'
    BY <1>2, <2>1 DEF TickGives, StepsSeen, StepsApart, Capped
  <2>4. StepWritten'
    BY <1>2, <2>1, <2>2 DEF TickGives, StepWritten, Capped
  <2> QED BY <2>3, <2>4
<1>11. CASE UNCHANGED vars
  BY <1>11 DEF vars, StepsSeen, StepWritten
<1> QED
  BY <1>4, <1>5, <1>6, <1>7, <1>8, <1>9, <1>10, <1>11 DEF Next

\* What is bumped was not walked onto.
LEMMA BumpedWasNotWalked ==
  ASSUME StepsApart
  PROVE  Accounted /\ StepIInv /\ [Next]_vars => (event' = "bumped" /\ Poll => origin # "step")
<1> SUFFICES ASSUME Accounted, StepIInv, Poll, event' = "bumped", origin = "step" PROVE FALSE
  OBVIOUS
<1>1. rate = ColdStart /\ ~(g.polled /\ Descended(g'))
  BY PollFields DEF PollGives, Accounted
<1> QED BY <1>1, WalkIsNoticed

\* A collapse is never taken for a match start (gov_trace.h:98), for every
\* band a step is within and every governor slower than the poll.
THEOREM CollapsesAreNotStarts ==
  ASSUME TargetAboveBand, StepsApart
  PROVE  Spec => BumpIsNoCollapse
<1>1. Init => StepIInv
  BY DEF Init, GovInit, StepIInv, StepsSeen, StepWritten, StepsApart
<1>2. Accounted /\ StepIInv /\ [Next]_vars => StepIInv'
  BY StepStep
<1>3. Accounted /\ StepIInv /\ [Next]_vars => [event' = "bumped" /\ Poll => origin # "step"]_vars
  BY BumpedWasNotWalked
<1> QED
  BY <1>1, <1>2, <1>3, AccountedAlways, PTL DEF Spec, Safety, BumpIsNoCollapse

-----------------------------------------------------------------------------
(* The other thread that writes the game's memory                           *)

\* The table is what the environment asks for.
WantIsAsked ==
  /\ want \in [Globals -> Nat]
  /\ \A e \in Globals : want[e] # 0 => Asked(e, want[e])

\* The thread polls only a build it knows.
KnownBuild == pc \in {"poll", "apply", "store"} => sigs = 1

\* An entry that is asserted looked right.
AppliedWasPlausible ==
  /\ state \in [Globals -> {"pending", "applied", "vetoed"}]
  /\ seen \in [Globals -> Nat]
  /\ \A e \in Globals : state[e] = "applied" => Plausible(e, seen[e])

\* So is the one about to be stored, and it has a target.
StoreIsGated ==
  /\ i \in Nat /\ (pc = "apply" => i > 0)
  /\ pc = "store" => i \in Globals /\ want[i] # 0 /\ state[i] = "applied"

\* What the game did not write is a target, and its entry is asserted.
OursIsGated ==
  /\ mem \in [Globals -> Nat] /\ game \in [Globals -> Nat]
  /\ \A e \in Globals :
       mem[e] # game[e] => mem[e] = want[e] /\ mem[e] # 0 /\ sigs = 1 /\ state[e] = "applied"

NetIInv == WantIsAsked /\ KnownBuild /\ AppliedWasPlausible /\ StoreIsGated /\ OursIsGated

\* A target is 0, the entry's own variable or one of the presets.
LEMMA NetTargetIsAsked ==
  ASSUME NEW e \in Globals, env[e] \in Nat \cup {Unset}
  PROVE  NetTarget(e) \in Nat /\ (NetTarget(e) # 0 => Asked(e, NetTarget(e)))
<1> DEFINE preset == IF relaxOn /\ Relax[e] # 0 THEN Relax[e] ELSE IF tuneOn THEN Tune[e] ELSE 0
           asked == IF env[e] = Unset THEN preset ELSE env[e]
<1>1. NetTarget(e) = IF asked # 0 /\ ~Plausible(e, asked) THEN preset ELSE asked
  BY Zenon DEF NetTarget
<1>2. preset \in Nat /\ (preset = 0 \/ Plausible(e, preset))
  BY GlobalsAssumption DEF Plausible
<1>3. CASE env[e] # Unset /\ (env[e] = 0 \/ Plausible(e, env[e]))
  BY <1>1, <1>3 DEF Asked
<1>4. CASE env[e] = Unset \/ (env[e] # 0 /\ ~Plausible(e, env[e]))
  <2>1. NetTarget(e) = preset
    BY <1>1, <1>2, <1>4
  <2>2. preset # 0 => \/ relaxOn /\ preset = Relax[e]
                      \/ tuneOn /\ preset = Tune[e] /\ ~(relaxOn /\ Relax[e] # 0)
    OBVIOUS
  <2> QED
    BY <1>2, <1>4, <2>1, <2>2 DEF Asked
<1> QED
  BY <1>3, <1>4

LEMMA NetInitOK == NetInit => NetIInv
<1> SUFFICES ASSUME NetInit PROVE NetIInv
  OBVIOUS
<1>1. WantIsAsked
  <2>1. \A e \in Globals : env[e] \in Nat \cup {Unset}
    BY GlobalsAssumption DEF NetInit
  <2> QED
    BY <2>1, NetTargetIsAsked DEF NetInit, WantIsAsked
<1> QED
  BY <1>1, GlobalsAssumption
     DEF NetInit, NetIInv, KnownBuild, AppliedWasPlausible, StoreIsGated, OursIsGated

LEMMA NetWantIsKept == WantIsAsked /\ UNCHANGED config => WantIsAsked'
  BY DEF WantIsAsked, config, Asked

\* The decision on an entry.
LEMMA NetReadOK == ASSUME NetIInv, Read PROVE NetIInv'
<1> USE DEF NetIInv
<1>1. i \in Globals /\ i > 0 /\ pc = "apply" /\ UNCHANGED << config, mem, game >>
  BY GlobalsAssumption DEF Read, Globals, StoreIsGated
<1>2. WantIsAsked'
  BY <1>1, NetWantIsKept
<1>3. CASE want[i] = 0 \/ state[i] = "vetoed"
  <2>1. i' = i + 1 /\ UNCHANGED << pc, state, seen >>
    BY <1>3 DEF Read
  <2> QED
    BY <1>1, <1>2, <2>1
       DEF config, KnownBuild, AppliedWasPlausible, StoreIsGated, OursIsGated
<1>4. CASE want[i] # 0 /\ state[i] # "vetoed"
  <2>1. /\ seen' = [seen EXCEPT ![i] = IF state[i] = "pending" THEN mem[i] ELSE @]
        /\ state' = [state EXCEPT ![i] =
             IF @ = "pending" /\ ~Plausible(i, mem[i]) THEN "vetoed" ELSE "applied"]
        /\ \/ pc' = "store" /\ i' = i /\ state'[i] = "applied"
           \/ pc' = pc /\ i' = i + 1
    BY <1>4 DEF Read
  <2>2. AppliedWasPlausible'
    BY <1>1, <1>4, <2>1 DEF AppliedWasPlausible, OursIsGated, Plausible
  <2>3. KnownBuild' /\ StoreIsGated'
    BY <1>1, <1>4, <2>1 DEF config, KnownBuild, StoreIsGated
  <2>4. \A e \in Globals : state[e] = "applied" => state'[e] = "applied"
    BY <1>1, <2>1 DEF AppliedWasPlausible
  <2>5. OursIsGated'
    BY <1>1, <2>4 DEF config, OursIsGated
  <2> QED
    BY <1>2, <2>2, <2>3, <2>5
<1> QED
  BY <1>3, <1>4

LEMMA NetStoreOK == ASSUME NetIInv, Store PROVE NetIInv'
<1> USE DEF NetIInv
<1>1. WantIsAsked' /\ KnownBuild' /\ AppliedWasPlausible' /\ StoreIsGated'
  BY NetWantIsKept DEF Store, config, KnownBuild, AppliedWasPlausible, StoreIsGated
<1>2. OursIsGated'
  BY DEF Store, config, OursIsGated, StoreIsGated, KnownBuild, WantIsAsked
<1> QED
  BY <1>1, <1>2

LEMMA NetParseOK ==
  ASSUME NetIInv, NEW e \in Globals, NEW v \in GameValues, Parse(e, v) PROVE NetIInv'
<1> USE DEF NetIInv
<1>1. WantIsAsked' /\ KnownBuild' /\ AppliedWasPlausible' /\ StoreIsGated'
  BY NetWantIsKept DEF Parse, config, KnownBuild, AppliedWasPlausible, StoreIsGated
<1>2. OursIsGated'
  BY GlobalsAssumption DEF Parse, config, OursIsGated
<1> QED
  BY <1>1, <1>2

\* The other steps leave the table and the addresses alone.
LEMMA NetControlOK ==
  ASSUME NetIInv, Attach \/ NetPoll \/ EndPass \/ MatchStarts \/ Shutdown \/ UNCHANGED netVars
  PROVE  NetIInv'
<1> USE DEF NetIInv
<1>1. UNCHANGED << config, state, seen, mem, game >>
  BY DEF Attach, NetPoll, EndPass, MatchStarts, Shutdown, netVars
<1>2. WantIsAsked' /\ AppliedWasPlausible' /\ OursIsGated'
  BY <1>1, NetWantIsKept DEF config, AppliedWasPlausible, OursIsGated
<1>3. KnownBuild' /\ StoreIsGated'
  BY <1>1 DEF Attach, NetPoll, EndPass, MatchStarts, Shutdown, netVars, config, KnownBuild, StoreIsGated
<1> QED
  BY <1>2, <1>3

\* The thread writes only what the environment asks for, in a known build, to addresses
\* that looked right on first contact, however its reads and stores and the parser's
\* writes interleave and for any table, gates and environment.
THEOREM OnlyWhatIsAsked == NetSpec => []WritesOnlyWhatIsAsked
<1>1. NetInit => NetIInv
  BY NetInitOK
<1>2. NetIInv /\ [NetNext]_netVars => NetIInv'
  <2> SUFFICES ASSUME NetIInv, [NetNext]_netVars PROVE NetIInv'
    OBVIOUS
  <2>1. CASE Read
    BY <2>1, NetReadOK
  <2>2. CASE Store
    BY <2>2, NetStoreOK
  <2>3. CASE \E e \in Globals, v \in GameValues : Parse(e, v)
    BY <2>3, NetParseOK
  <2>4. CASE Attach \/ NetPoll \/ EndPass \/ MatchStarts \/ Shutdown \/ UNCHANGED netVars
    BY <2>4, NetControlOK
  <2> QED
    BY <2>1, <2>2, <2>3, <2>4 DEF NetNext, Thread
<1>3. NetIInv => WritesOnlyWhatIsAsked
  BY DEF NetIInv, OursIsGated, AppliedWasPlausible, WantIsAsked, WritesOnlyWhatIsAsked
<1> QED
  BY <1>1, <1>2, <1>3, PTL DEF NetSpec
=============================================================================
