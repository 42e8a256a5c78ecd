--------------------------- MODULE SendPath_proofs ---------------------------
(***************************************************************************)
(* Theorems about SendPath, for every value of its constants.              *)
(***************************************************************************)
EXTENDS SendPath, TLAPS

-----------------------------------------------------------------------------
(* Facts about the pieces *)

LEMMA DebtType ==
  ASSUME NEW x \in Int
  PROVE  Debt(x) \in Nat
<1>1. CASE x < 0
  <2>1. (0 - x) * Second \in Nat
    BY <1>1, PaceAssumption
  <2>2. ((0 - x) * Second) \div Rate \in Nat
    BY <2>1, PaceAssumption
  <2> QED BY <1>1, <2>2 DEF Debt
<1>2. CASE ~(x < 0)
  BY <1>2 DEF Debt
<1> QED BY <1>1, <1>2

LEMMA RefillType ==
  ASSUME NEW b \in [tokens : Int, last : Nat], NEW t \in Nat
  PROVE  Refill(b, t) \in [tokens : Int, last : Nat]
<1>1. CASE t > b.last
  <2>1. ((t - b.last) * Rate) \in Nat
    BY <1>1, PaceAssumption
  <2>2. ((t - b.last) * Rate) \div Second \in Int
    BY <2>1, PaceAssumption
  <2> QED BY <1>1, <2>2, PaceAssumption DEF Refill
<1>2. CASE ~(t > b.last)
  BY <1>2 DEF Refill
<1> QED BY <1>1, <1>2

\* The shape of the answer of pace_admit.
LEMMA AdmitType ==
  ASSUME NEW b \in [tokens : Int, last : Nat], NEW held \in Nat,
         NEW len \in Nat, NEW t \in Nat
  PROVE  LET a == PaceAdmit(b, held, len, t)
         IN  /\ a.what \in {"SendNow", "Queued", "FlushThenSend"}
             /\ a.bucket \in [tokens : Int, last : Nat]
             /\ a.due \in Nat
<1> DEFINE f == Refill(b, t)
<1>1. f \in [tokens : Int, last : Nat]
  BY RefillType
<1>2. Debt(f.tokens - len) \in Nat
  <2>1. f.tokens - len \in Int
    BY <1>1
  <2> QED BY <2>1, DebtType
<1> HIDE DEF f
<1>3. t + Debt(f.tokens - len) \in Nat /\ f.tokens - len \in Int
  BY <1>1, <1>2
<1> QED BY <1>1, <1>3 DEF PaceAdmit, f

LEMMA FateType ==
  ASSUME NEW e
  PROVE  Fate(e) \in Outcome
BY DEF Fate, Outcome

\* Popping the head of a queue shifts the others by one.
LEMMA TailFacts ==
  ASSUME NEW S, NEW q \in Seq(S), q # << >>
  PROVE  /\ Head(q) = q[1] /\ Head(q) \in S
         /\ Tail(q) \in Seq(S)
         /\ Len(Tail(q)) = Len(q) - 1
         /\ \A i \in DOMAIN Tail(q) : i + 1 \in DOMAIN q /\ Tail(q)[i] = q[i + 1]
  OBVIOUS

LEMMA AppendFacts ==
  ASSUME NEW S, NEW q \in Seq(S), NEW e \in S
  PROVE  /\ Append(q, e) \in Seq(S)
         /\ Len(Append(q, e)) = Len(q) + 1
         /\ DOMAIN Append(q, e) = 1 .. Len(q) + 1
         /\ \A i \in 1 .. Len(q) : Append(q, e)[i] = q[i]
         /\ Append(q, e)[Len(q) + 1] = e
  OBVIOUS

-----------------------------------------------------------------------------
(* The arithmetic of the bucket *)

\* Rounding down loses less than one divisor.
LEMMA DivBounds ==
  ASSUME NEW a \in Nat, NEW d \in Nat \ {0}
  PROVE  /\ a \div d \in Nat
         /\ (a \div d) * d <= a
         /\ a < (a \div d) * d + d
  OBVIOUS

\* Waiting e ticks pays at most e ticks of debt, whatever the two roundings do.
LEMMA DebtPaid ==
  ASSUME NEW x \in Int, NEW y \in Int, NEW e \in Nat,
         y <= x + (e * Rate) \div Second
  PROVE  Debt(x) <= e + Debt(y)
<1> DEFINE gain == (e * Rate) \div Second
<1> DEFINE u == (0 - x) * Second
<1> DEFINE v == (0 - y) * Second
<1> USE PaceAssumption
<1>1. e * Rate \in Nat /\ gain \in Nat /\ gain * Second <= e * Rate
  <2>1. e * Rate \in Nat
    OBVIOUS
  <2> QED BY <2>1, DivBounds
<1>2. u \in Int /\ v \in Int
  OBVIOUS
<1>3. y <= x + gain
  OBVIOUS
<1>4. u <= v + gain * Second
  <2>1. (y - x) * Second <= gain * Second
    BY <1>1, <1>3
  <2>2. (y - x) * Second = u - v
    OBVIOUS
  <2> QED BY <1>1, <1>2, <2>1, <2>2
<1>5. u <= v + e * Rate
  BY <1>1, <1>2, <1>4
<1>6. CASE x >= 0
  <2>1. Debt(x) = 0
    BY <1>6 DEF Debt
  <2>2. Debt(y) \in Nat
    <3>1. CASE y < 0
      <4>1. v \in Nat
        BY <3>1
      <4> QED BY <3>1, <4>1, DivBounds DEF Debt
    <3>2. CASE ~(y < 0)
      BY <3>2 DEF Debt
    <3> QED BY <3>1, <3>2
  <2> QED BY <2>1, <2>2
<1>7. CASE x < 0
  <2> DEFINE du == u \div Rate
  <2>1. u \in Nat
    BY <1>7
  <2>2. du \in Nat /\ du * Rate <= u
    BY <2>1, DivBounds
  <2>3. Debt(x) = du
    BY <1>7 DEF Debt
  <2>4. CASE y < 0
    <3> DEFINE dv == v \div Rate
    <3>1. v \in Nat
      BY <2>4
    <3>2. dv \in Nat /\ v < dv * Rate + Rate
      BY <3>1, DivBounds
    <3>3. Debt(y) = dv
      BY <2>4 DEF Debt
    <3> HIDE DEF u, v, gain, du, dv
    <3>4. du * Rate < dv * Rate + Rate + e * Rate
      BY <1>1, <1>2, <1>5, <2>2, <3>2
    <3>5. du * Rate < (dv + 1 + e) * Rate
      BY <3>4, <2>2, <3>2
    <3>6. du < dv + 1 + e
      BY <3>5, <2>2, <3>2
    <3> QED BY <2>3, <3>3, <3>6, <2>2, <3>2
  <2>5. CASE ~(y < 0)
    <3>1. v <= 0
      BY <2>5
    <3>2. Debt(y) = 0
      BY <2>5 DEF Debt
    <3> HIDE DEF u, v, gain, du
    <3>3. du * Rate <= e * Rate
      BY <1>1, <1>2, <1>5, <2>2, <3>1
    <3>4. du <= e
      BY <3>3, <2>2
    <3> QED BY <2>3, <3>2, <3>4, <2>2
  <2> QED BY <2>4, <2>5
<1> QED BY <1>6, <1>7
\* A refill at t leaves a bucket whose debt ends no earlier than before.
LEMMA RefillFacts ==
  ASSUME NEW b \in [tokens : Int, last : Nat], NEW t \in Nat,
         b.last <= t, b.tokens <= Burst
  PROVE  /\ Refill(b, t).last = t
         /\ Refill(b, t).tokens <= Burst
         /\ b.last + Debt(b.tokens) <= t + Debt(Refill(b, t).tokens)
<1> DEFINE f == Refill(b, t)
<1> USE PaceAssumption
<1>1. f \in [tokens : Int, last : Nat]
  BY RefillType
<1>2. Debt(b.tokens) \in Nat /\ Debt(f.tokens) \in Nat
  BY <1>1, DebtType
<1>3. CASE t > b.last
  <2> DEFINE e == t - b.last
  <2>1. e \in Nat
    BY <1>3
  <2>2. (e * Rate) \div Second \in Int
    <3>1. e * Rate \in Nat
      BY <2>1
    <3> QED BY <3>1
  <2>3. f.last = t /\ f.tokens <= Burst
        /\ f.tokens <= b.tokens + (e * Rate) \div Second
    BY <1>3, <2>2 DEF Refill
  <2>4. Debt(b.tokens) <= e + Debt(f.tokens)
    <3> HIDE DEF e, f
    <3> QED BY <1>1, <2>1, <2>3, DebtPaid
  <2> HIDE DEF f
  <2> QED BY <1>2, <2>3, <2>4 DEF f
<1>4. CASE t = b.last
  BY <1>2, <1>4 DEF Refill
<1> QED BY <1>3, <1>4

\* Only a datagram with a sequence number is queued or flushes the queue, and
\* none is let past a queue.
LEMMA AdmitOrder ==
  ASSUME NEW b, NEW held \in Nat, NEW len \in Nat, NEW t
  PROVE  LET a == PaceAdmit(b, held, len, t)
         IN  /\ a.what = "SendNow" => len < SeqMinPay \/ held = 0
             /\ a.what # "SendNow" => len >= SeqMinPay
BY PaceAssumption DEF PaceAdmit

\* What pace_admit answers: when it queues, when it lets a datagram through,
\* and that a queued datagram falls due when the debt it leaves is paid.
LEMMA AdmitFacts ==
  ASSUME NEW b \in [tokens : Int, last : Nat], NEW held \in Nat,
         NEW len \in Nat, NEW t \in Nat,
         b.last <= t, b.tokens <= Burst
  PROVE  LET a == PaceAdmit(b, held, len, t)
         IN  /\ a.bucket.last <= t
             /\ a.bucket.tokens <= Burst
             /\ a.what = "SendNow" => a.bucket = b \/ held = 0
             /\ a.what = "Queued" =>
                  /\ a.due = a.bucket.last + Debt(a.bucket.tokens)
                  /\ b.last + Debt(b.tokens) <= a.due
<1> DEFINE f == Refill(b, t)
<1> DEFINE y == f.tokens - len
<1> USE PaceAssumption
<1>1. f \in [tokens : Int, last : Nat] /\ y \in Int
  BY RefillType
<1>2. f.last = t /\ f.tokens <= Burst /\ b.last + Debt(b.tokens) <= t + Debt(f.tokens)
  BY RefillFacts
<1>3. Debt(f.tokens) <= Debt(y)
  <2>1. (0 * Rate) \div Second = 0
    OBVIOUS
  <2>2. y <= f.tokens + (0 * Rate) \div Second
    BY <1>1, <2>1
  <2> HIDE DEF f, y
  <2>3. Debt(f.tokens) <= 0 + Debt(y)
    BY <1>1, <2>2, DebtPaid
  <2> QED BY <1>1, <2>3, DebtType
<1>4. Debt(b.tokens) \in Nat /\ Debt(f.tokens) \in Nat /\ Debt(y) \in Nat
  <2> HIDE DEF f, y
  <2> QED BY <1>1, DebtType
<1> HIDE DEF f
<1>5. b.last + Debt(b.tokens) <= t + Debt(y) /\ y <= Burst
  <2> HIDE DEF y
  <2>1. b.last + Debt(b.tokens) <= t + Debt(y)
    BY <1>2, <1>3, <1>4
  <2>2. y <= Burst
    BY <1>1, <1>2 DEF y
  <2> QED BY <2>1, <2>2
<1> QED BY <1>1, <1>2, <1>4, <1>5 DEF PaceAdmit, f

-----------------------------------------------------------------------------
(* Types *)

LEMMA InHandType ==
  ASSUME TypeOK, NEW due \in Nat
  PROVE  InHand(due) \in Datagram
<1>1. game.sock \in Handles /\ game.id \in Nat
  BY DEF TypeOK
<1>2. sock[game.sock] \in [owner : {"game", "none", "other"}, gen : Nat]
  BY <1>1 DEF TypeOK
<1> QED BY <1>1, <1>2 DEF InHand, Datagram

LEMMA OutsideType ==
  ASSUME NEW h \in Handles
  PROVE  Outside(h) \in [pc : GamePcs, id : Nat, len : Nat, sock : Handles, t : Nat]
BY DEF Outside, GamePcs

LEMMA TransmitType ==
  ASSUME wire \in Seq([id : Nat, on : Outcome]), NEW e \in Datagram, Transmit(e)
  PROVE  wire' \in Seq([id : Nat, on : Outcome])
<1> DEFINE r == [id |-> e.id, on |-> Fate(e)]
<1>1. r \in [id : Nat, on : Outcome]
  BY FateType DEF Datagram
<1>2. wire' = wire \/ wire' = Append(wire, r)
  BY DEF Transmit
<1>3. \A x \in [id : Nat, on : Outcome] :
        Append(wire, x) \in Seq([id : Nat, on : Outcome])
  OBVIOUS
<1> HIDE DEF r
<1> QED BY <1>1, <1>2, <1>3, Zenon

LEMMA DupBudgetType ==
  ASSUME TypeOK
  PROVE  DupBudget \in [start : Nat, sent : Nat]
BY DEF TypeOK, DupBudget

\* Every step keeps every variable in its type.
LEMMA TypeStep ==
  ASSUME TypeOK, [Next]_vars
  PROVE  TypeOK'
<1> USE DEF TypeOK
<1>1. ASSUME NEW h \in Handles, NEW len \in Lens, NEW route \in Routes,
             Call(h, len, route)
      PROVE  TypeOK'
  <2>1. len \in Nat
    BY SendPathAssumption
  <2>2. game' \in [pc : GamePcs, id : Nat, len : Nat, sock : Handles, t : Nat]
    BY <1>1, <2>1 DEF Call, GamePcs
  <2>3. sends' \in Nat
    BY <1>1 DEF Call
  <2> QED BY <1>1, <2>2, <2>3 DEF Call, paceVars, dupVars, netVars
<1>2. CASE Take
  <2> DEFINE a == PaceAdmit(bucket, Len(queue), game.len, game.t)
  <2>0. Len(queue) \in Nat /\ game.len \in Nat /\ game.t \in Nat
    OBVIOUS
  <2>1. a.bucket \in [tokens : Int, last : Nat] /\ a.due \in Nat
    BY <2>0, AdmitType
  <2>2. InHand(a.due) \in Datagram
    BY <2>1, InHandType
  <2> HIDE DEF a
  <2>3. queue' \in Seq(Datagram)
    <3>1. queue' = queue \/ queue' = Append(queue, InHand(a.due))
      BY <1>2 DEF Take, a
    <3>2. \A e \in Datagram : Append(queue, e) \in Seq(Datagram)
      OBVIOUS
    <3> QED BY <2>2, <3>1, <3>2, Zenon
  <2>4. game' \in [pc : GamePcs, id : Nat, len : Nat, sock : Handles, t : Nat]
    <3>1. game \in [pc : GamePcs, id : Nat, len : Nat, sock : Handles, t : Nat]
      OBVIOUS
    <3>2. \/ game' = Outside(game.sock)
          \/ game' = [game EXCEPT !.pc = "send"]
          \/ game' = [game EXCEPT !.pc = "flush"]
      BY <1>2 DEF Take
    <3> QED BY ONLY <3>1, <3>2, OutsideType DEF GamePcs
  <2>5. bucket' \in [tokens : Int, last : Nat]
    BY <1>2, <2>1 DEF Take, a
  <2>6. paceCs' \in {"free", "game", "pacer"}
    BY <1>2 DEF Take
  <2> QED BY <1>2, <2>3, <2>4, <2>5, <2>6 DEF Take, dupVars, netVars
<1>3. CASE FlushOne
  <2>1. Head(queue) \in Datagram /\ Tail(queue) \in Seq(Datagram)
    BY <1>3, TailFacts DEF FlushOne
  <2>2. wire' \in Seq([id : Nat, on : Outcome])
    BY <1>3, <2>1, TransmitType DEF FlushOne
  <2> QED BY <1>3, <2>1, <2>2 DEF FlushOne, dupVars
<1>4. CASE FlushDone
  BY <1>4 DEF FlushDone, dupVars, netVars, GamePcs
<1>5. CASE Send
  <2>1. wire' \in Seq([id : Nat, on : Outcome])
    BY <1>5, InHandType, TransmitType DEF Send
  <2>2. game' \in [pc : GamePcs, id : Nat, len : Nat, sock : Handles, t : Nat]
    BY <1>5, OutsideType DEF Send, GamePcs
  <2> QED BY <1>5, <2>1, <2>2 DEF Send, paceVars, dupVars
<1>6. CASE Duplicate
  <2>1. now + DupDelay \in Nat
    BY SendPathAssumption
  <2>2. InHand(now + DupDelay) \in Datagram
    BY <2>1, InHandType
  <2>3. game' \in [pc : GamePcs, id : Nat, len : Nat, sock : Handles, t : Nat]
    BY <1>6, OutsideType DEF Duplicate
  <2>4. copies' \subseteq [id : Nat, on : Outcome]
    BY <1>6, FateType DEF Duplicate
  <2>5. dupQ' \subseteq dupQ \cup {InHand(now + DupDelay)}
    BY <1>6 DEF Duplicate, DupEnqueue
  <2>6. DupBudget \in [start : Nat, sent : Nat]
    BY DupBudgetType
  <2>7. dupBucket' \in [start : Nat, sent : Nat]
    <3>1. \/ dupBucket' = dupBucket
          \/ dupBucket' = DupBudget
          \/ dupBucket' = [start |-> DupBudget.start, sent |-> DupBudget.sent + 1]
      BY <1>6 DEF Duplicate, DupEnqueue
    <3> QED BY <2>6, <3>1
  <2> QED BY <1>6, <2>2, <2>3, <2>4, <2>5, <2>7 DEF Duplicate, paceVars
<1>7. CASE DupPop
  BY <1>7 DEF DupPop, paceVars, netVars
<1>8. CASE DupSend
  <2>1. copies' \subseteq [id : Nat, on : Outcome]
    BY <1>8, FateType, SMTT(30) DEF DupSend, Datagram
  <2> QED BY <1>8, <2>1 DEF DupSend, paceVars
<1>9. CASE PacerWake
  BY <1>9 DEF PacerWake, dupVars, netVars
<1>10. CASE PacerLock
  BY <1>10 DEF PacerLock, dupVars, netVars
<1>11. CASE PacerSend
  <2>1. Head(queue) \in Datagram /\ Tail(queue) \in Seq(Datagram)
    BY <1>11, TailFacts DEF PacerSend, HeadDue
  <2>2. wire' \in Seq([id : Nat, on : Outcome])
    BY <1>11, <2>1, TransmitType DEF PacerSend
  <2> QED BY <1>11, <2>1, <2>2 DEF PacerSend, dupVars
<1>12. CASE PacerDone
  BY <1>12 DEF PacerDone, dupVars, netVars
<1>13. ASSUME NEW h \in Handles, Close(h)
       PROVE  TypeOK'
  <2>1. game' \in [pc : GamePcs, id : Nat, len : Nat, sock : Handles, t : Nat]
    BY <1>13 DEF Close, Outside, GamePcs
  <2>2. sock' \in [Handles -> [owner : {"game", "none", "other"}, gen : Nat]]
    BY <1>13 DEF Close
  <2> QED BY <1>13, <2>1, <2>2 DEF Close, paceVars, dupVars, netVars
<1>14. CASE ClosePurgeDups
  BY <1>14 DEF ClosePurgeDups, paceVars, netVars, GamePcs
<1>15. CASE CloseLock
  BY <1>15 DEF CloseLock, dupVars, netVars, GamePcs
<1>16. CASE CloseDone
  <2>1. queue' = queue
    BY <1>16 DEF CloseDone, PurgeSocket
  <2>2. game' \in [pc : GamePcs, id : Nat, len : Nat, sock : Handles, t : Nat]
    BY <1>16, OutsideType DEF CloseDone
  <2> QED BY <1>16, <2>1, <2>2 DEF CloseDone, dupVars, netVars
<1>17. ASSUME NEW h \in Handles, NEW who \in {"game", "other"}, Open(h, who)
       PROVE  TypeOK'
  BY <1>17, SMTT(30) DEF Open, paceVars, dupVars, netVars
<1>18. CASE Tick
  BY <1>18 DEF Tick, paceVars, dupVars, netVars
<1>19. CASE UNCHANGED vars
  BY <1>19 DEF vars
<1> QED
  BY <1>1, <1>2, <1>3, <1>4, <1>5, <1>6, <1>7, <1>8, <1>9, <1>10, <1>11,
     <1>12, <1>13, <1>14, <1>15, <1>16, <1>17, <1>18, <1>19, ZenonT(40) DEF Next

LEMMA TypeInit == Init => TypeOK
BY PaceAssumption DEF Init, TypeOK, PaceInit, Outside, GamePcs, Datagram, Outcome

\* The hooks and the two threads keep every variable in its type.
THEOREM TypeCorrect == Safety => []TypeOK
<1>1. Init => TypeOK
  BY TypeInit
<1>2. TypeOK /\ [Next]_vars => TypeOK'
  BY TypeStep
<1> QED BY <1>1, <1>2, PTL DEF Safety

-----------------------------------------------------------------------------
(* The lock and the due times *)

TInv == TypeOK /\ Locking /\ Timing

\* g_pace_cs follows the two threads through every step.
LEMMA LockingStep ==
  ASSUME TypeOK, Locking, [Next]_vars
  PROVE  Locking'
<1> USE DEF Locking
<1>1. ASSUME NEW h \in Handles, NEW len \in Lens, NEW route \in Routes,
             Call(h, len, route)
      PROVE  Locking'
  BY <1>1 DEF Call, paceVars
<1>2. CASE Take
  BY <1>2 DEF Take, Outside, TypeOK
<1>3. CASE FlushOne
  BY <1>3 DEF FlushOne
<1>4. CASE FlushDone
  BY <1>4 DEF FlushDone, TypeOK
<1>5. CASE Send
  BY <1>5 DEF Send, paceVars, Outside, TypeOK
<1>6. CASE Duplicate
  BY <1>6 DEF Duplicate, paceVars, Outside
<1>7. CASE DupPop
  BY <1>7 DEF DupPop, paceVars
<1>8. CASE DupSend
  BY <1>8 DEF DupSend, paceVars
<1>9. CASE PacerWake
  BY <1>9 DEF PacerWake
<1>10. CASE PacerLock
  BY <1>10 DEF PacerLock, TypeOK
<1>11. CASE PacerSend
  BY <1>11 DEF PacerSend
<1>12. CASE PacerDone
  BY <1>12 DEF PacerDone, TypeOK
<1>13. ASSUME NEW h \in Handles, Close(h)
       PROVE  Locking'
  BY <1>13 DEF Close, paceVars, Outside
<1>14. CASE ClosePurgeDups
  BY <1>14 DEF ClosePurgeDups, paceVars, TypeOK
<1>15. CASE CloseLock
  BY <1>15 DEF CloseLock, TypeOK
<1>16. CASE CloseDone
  BY <1>16 DEF CloseDone, Outside
<1>17. ASSUME NEW h \in Handles, NEW who \in {"game", "other"}, Open(h, who)
       PROVE  Locking'
  BY <1>17 DEF Open, paceVars
<1>18. CASE Tick
  BY <1>18 DEF Tick, paceVars
<1>19. CASE UNCHANGED vars
  BY <1>19 DEF vars
<1> QED
  BY <1>1, <1>2, <1>3, <1>4, <1>5, <1>6, <1>7, <1>8, <1>9, <1>10, <1>11,
     <1>12, <1>13, <1>14, <1>15, <1>16, <1>17, <1>18, <1>19 DEF Next

\* Popping the head keeps the queue sorted and within the bucket's debt.
LEMMA PopKeepsTiming ==
  ASSUME TypeOK, Timing, queue # << >>, queue' = Tail(queue),
         bucket' = bucket, now' = now, game' = game
  PROVE  Timing'
<1>1. \A i \in DOMAIN Tail(queue) : i + 1 \in DOMAIN queue /\ Tail(queue)[i] = queue[i + 1]
  BY TailFacts DEF TypeOK
<1>2. DueSorted'
  <2>1. ASSUME NEW i \in DOMAIN Tail(queue), NEW j \in DOMAIN Tail(queue), i < j
        PROVE  Tail(queue)[i].due <= Tail(queue)[j].due
    <3>1. i + 1 \in DOMAIN queue /\ j + 1 \in DOMAIN queue /\ i + 1 < j + 1
      BY <1>1, <2>1 DEF TypeOK
    <3> QED BY <1>1, <3>1 DEF Timing, DueSorted
  <2> QED BY <2>1 DEF DueSorted
<1>3. game.pc # "flush" => DueWithinDebt'
  BY <1>1 DEF Timing, DueWithinDebt
<1> QED BY <1>2, <1>3 DEF Timing

\* Queueing behind the others keeps it so: the new due time is the end of the
\* bucket's debt, which no earlier due time exceeds.
LEMMA TakeKeepsTiming ==
  ASSUME TypeOK, Locking, Timing, Take
  PROVE  Timing'
<1> DEFINE a == PaceAdmit(bucket, Len(queue), game.len, game.t)
<1>1. /\ bucket \in [tokens : Int, last : Nat]
      /\ Len(queue) \in Nat /\ game.len \in Nat /\ game.t \in Nat
      /\ bucket.last <= game.t /\ game.t <= now /\ bucket.tokens <= Burst
      /\ game.pc # "flush"
  BY DEF TypeOK, Timing, Take
<1>2. /\ a.bucket.last <= game.t
      /\ a.bucket.tokens <= Burst
      /\ a.what = "SendNow" => a.bucket = bucket \/ Len(queue) = 0
      /\ a.what = "Queued" =>
           /\ a.due = a.bucket.last + Debt(a.bucket.tokens)
           /\ bucket.last + Debt(bucket.tokens) <= a.due
  BY <1>1, AdmitFacts
<1>3. a.bucket \in [tokens : Int, last : Nat] /\ a.due \in Nat
  BY <1>1, AdmitType
<1> HIDE DEF a
<1>4. bucket' = a.bucket /\ now' = now
  BY DEF Take, a
<1>5. bucket'.last <= now' /\ bucket'.tokens <= Burst
  <2>1. now \in Nat
    BY DEF TypeOK
  <2> QED BY <1>1, <1>2, <1>3, <1>4, <2>1
<1>6. CASE a.what = "Queued"
  <2> DEFINE e == InHand(a.due)
  <2>1. queue' = Append(queue, e) /\ game'.pc = "idle"
    BY <1>6 DEF Take, Outside, a
  <2>2. e \in Datagram /\ e.due = a.due
    BY <1>3, InHandType DEF InHand
  <2> HIDE DEF e
  <2>3. queue \in Seq(Datagram)
    BY DEF TypeOK
  <2>4. /\ DOMAIN queue' = 1 .. Len(queue) + 1
        /\ \A i \in 1 .. Len(queue) : queue'[i] = queue[i]
        /\ queue'[Len(queue) + 1].due = a.due
    BY <2>1, <2>2, <2>3
  <2>5. ASSUME NEW i \in 1 .. Len(queue)
        PROVE  queue[i].due \in Nat /\ queue[i].due <= a.due
    <3>1. queue[i].due <= bucket.last + Debt(bucket.tokens)
      BY <1>1, <2>3 DEF Timing, DueWithinDebt
    <3>2. queue[i] \in Datagram
      BY <2>3
    <3>3. queue[i].due \in Nat
      BY <3>2 DEF Datagram
    <3>4. bucket.last + Debt(bucket.tokens) \in Nat
      <4>1. Debt(bucket.tokens) \in Nat
        BY <1>1, DebtType
      <4> QED BY <1>1, <4>1
    <3> QED BY <1>2, <1>3, <1>6, <3>1, <3>3, <3>4
  <2>6. DueSorted'
    <3>1. ASSUME NEW i \in 1 .. Len(queue) + 1, NEW j \in 1 .. Len(queue) + 1, i < j
          PROVE  queue'[i].due <= queue'[j].due
      <4>1. CASE j = Len(queue) + 1
        BY <2>4, <2>5, <3>1, <4>1
      <4>2. CASE j # Len(queue) + 1
        <5>1. i \in DOMAIN queue /\ j \in DOMAIN queue
          BY <2>3, <3>1, <4>2
        <5>2. queue[i].due <= queue[j].due
          BY <3>1, <5>1 DEF Timing, DueSorted
        <5> QED BY <2>3, <2>4, <5>1, <5>2
      <4> QED BY <4>1, <4>2
    <3> QED BY <2>4, <3>1 DEF DueSorted
  <2>7. DueWithinDebt'
    <3>1. \A i \in 1 .. Len(queue) + 1 : queue'[i].due <= a.due
      BY <1>3, <2>3, <2>4, <2>5
    <3> QED BY <1>2, <1>4, <1>6, <2>4, <3>1 DEF DueWithinDebt
  <2> QED BY <1>5, <2>1, <2>6, <2>7 DEF Timing
<1>7. CASE a.what = "SendNow"
  <2>1. queue' = queue /\ game'.pc = "send"
    BY <1>1, <1>7 DEF Take, a, TypeOK
  <2>2. DueSorted'
    BY <2>1 DEF Timing, DueSorted
  <2>3. DueWithinDebt'
    <3>1. CASE Len(queue) = 0
      BY <2>1, <3>1 DEF DueWithinDebt, TypeOK
    <3>2. CASE a.bucket = bucket
      BY <1>1, <1>4, <2>1, <3>2 DEF DueWithinDebt, Timing
    <3> QED BY <1>2, <1>7, <3>1, <3>2
  <2> QED BY <1>5, <2>1, <2>2, <2>3 DEF Timing
<1>8. CASE a.what = "FlushThenSend"
  <2>1. queue' = queue /\ game'.pc = "flush"
    BY <1>1, <1>8 DEF Take, a, TypeOK
  <2>2. DueSorted'
    BY <2>1 DEF Timing, DueSorted
  <2> QED BY <1>5, <2>1, <2>2 DEF Timing
<1> QED
  BY <1>6, <1>7, <1>8 DEF Take, a

LEMMA TimingStep ==
  ASSUME TypeOK, Locking, Timing, [Next]_vars
  PROVE  Timing'
<1>0. now \in Nat /\ game.t \in Nat /\ bucket.last \in Nat
  BY DEF TypeOK
\* A step that leaves bucket and queue alone, and the clock if a hook waits.
<1>q. ASSUME UNCHANGED << bucket, queue >>, now' \in Nat, now' >= now,
             game'.pc = "flush" => game.pc = "flush",
             game'.pc = "take" => game' = game \/ game'.t = now,
             game.pc = "flush" => game'.pc = "flush" \/ queue = << >>
      PROVE  Timing'
  <2>1. bucket.last <= now' /\ bucket.tokens <= Burst
    BY <1>0, <1>q DEF Timing
  <2>2. game'.pc = "take" => bucket.last <= game'.t /\ game'.t <= now'
    BY <1>0, <1>q DEF Timing
  <2>3. DueSorted'
    BY <1>q DEF Timing, DueSorted
  <2>4. game'.pc # "flush" => DueWithinDebt'
    BY <1>q DEF Timing, DueWithinDebt
  <2> QED BY <1>q, <2>1, <2>2, <2>3, <2>4 DEF Timing
<1>1. ASSUME NEW h \in Handles, NEW len \in Lens, NEW route \in Routes,
             Call(h, len, route)
      PROVE  Timing'
  BY <1>0, <1>1, <1>q DEF Call, paceVars
<1>2. CASE Take
  BY <1>2, TakeKeepsTiming
<1>3. CASE FlushOne
  BY <1>3, PopKeepsTiming DEF FlushOne
<1>4. CASE FlushDone
  BY <1>0, <1>4, <1>q DEF FlushDone, TypeOK
<1>5. CASE Send
  BY <1>0, <1>5, <1>q DEF Send, paceVars, Outside, TypeOK
<1>6. CASE Duplicate
  BY <1>0, <1>6, <1>q DEF Duplicate, paceVars, Outside
<1>7. CASE DupPop
  BY <1>0, <1>7, <1>q DEF DupPop, paceVars
<1>8. CASE DupSend
  BY <1>0, <1>8, <1>q DEF DupSend, paceVars
<1>9. CASE PacerWake
  BY <1>0, <1>9, <1>q DEF PacerWake
<1>10. CASE PacerLock
  BY <1>0, <1>10, <1>q DEF PacerLock
<1>11. CASE PacerSend
  BY <1>11, PopKeepsTiming DEF PacerSend, HeadDue
<1>12. CASE PacerDone
  BY <1>0, <1>12, <1>q DEF PacerDone
<1>13. ASSUME NEW h \in Handles, Close(h)
       PROVE  Timing'
  BY <1>0, <1>13, <1>q DEF Close, paceVars, Outside
<1>14. CASE ClosePurgeDups
  BY <1>0, <1>14, <1>q DEF ClosePurgeDups, paceVars, TypeOK
<1>15. CASE CloseLock
  BY <1>0, <1>15, <1>q DEF CloseLock, TypeOK
<1>16. CASE CloseDone
  BY <1>0, <1>16, <1>q DEF CloseDone, Outside, PurgeSocket
<1>17. ASSUME NEW h \in Handles, NEW who \in {"game", "other"}, Open(h, who)
       PROVE  Timing'
  BY <1>0, <1>17, <1>q DEF Open, paceVars
<1>18. CASE Tick
  BY <1>0, <1>18, <1>q DEF Tick, paceVars
<1>19. CASE UNCHANGED vars
  BY <1>0, <1>19, <1>q DEF vars
<1> QED
  BY <1>1, <1>2, <1>3, <1>4, <1>5, <1>6, <1>7, <1>8, <1>9, <1>10, <1>11,
     <1>12, <1>13, <1>14, <1>15, <1>16, <1>17, <1>18, <1>19 DEF Next

LEMMA TimingInit == Init => Locking /\ Timing
BY PaceAssumption
   DEF Init, Locking, Timing, PaceInit, Outside, DueSorted, DueWithinDebt

LEMMA TimingInvariant == Safety => []TInv
<1>1. Init => TInv
  BY TypeInit, TimingInit DEF TInv
<1>2. TInv /\ [Next]_vars => TInv'
  BY TypeStep, LockingStep, TimingStep DEF TInv
<1> QED BY <1>1, <1>2, PTL DEF Safety

\* The pacer's queue is always sorted by due time, for every rate, burst,
\* delay bound and unit of the clock.
THEOREM QueueStaysSorted == Safety => []DueSorted
<1>1. TInv => DueSorted
  BY DEF TInv, Timing
<1> QED BY <1>1, TimingInvariant, PTL

\* Looking at the head only, the pacer thread leaves nothing behind that was
\* due when it woke.
THEOREM NothingMissesItsTurn == Safety => DrainLeavesNothingDue
<1>1. TInv /\ PacerDone => \A i \in DOMAIN queue : queue[i].due > pacer.t
  <2> SUFFICES ASSUME TInv, PacerDone, NEW i \in DOMAIN queue
               PROVE  queue[i].due > pacer.t
    OBVIOUS
  <2>1. queue \in Seq(Datagram) /\ queue # << >> /\ pacer.t \in Nat
    BY DEF TInv, TypeOK
  <2>2. 1 \in DOMAIN queue /\ Head(queue) = queue[1] /\ (i = 1 \/ 1 < i)
    BY <2>1
  <2>3. queue[1] \in Datagram /\ queue[i] \in Datagram
    BY <2>1, <2>2
  <2>4. queue[1].due \in Nat /\ queue[i].due \in Nat
    BY <2>3 DEF Datagram
  <2>5. ~(queue[1].due <= pacer.t)
    BY <2>1, <2>2 DEF PacerDone, HeadDue
  <2>6. queue[1].due <= queue[i].due
    BY <2>2, <2>4 DEF TInv, Timing, DueSorted
  <2> QED BY <2>1, <2>4, <2>5, <2>6
<1>2. TInv => [PacerDone => \A i \in DOMAIN queue : queue[i].due > pacer.t]_vars
  BY <1>1
<1> QED BY <1>2, TimingInvariant, PTL DEF DrainLeavesNothingDue

-----------------------------------------------------------------------------
(* The order of the wire *)

\* Giving the datagram numbered next to the real send extends the wire by its
\* number.
LEMMA TransmitNext ==
  ASSUME TypeOK, \A i \in DOMAIN wire : wire[i].id = i,
         NEW e \in Datagram, e.id = Len(wire) + 1, Transmit(e)
  PROVE  /\ Len(wire') = Len(wire) + 1
         /\ \A i \in DOMAIN wire' : wire'[i].id = i
         /\ DOMAIN wire' = 1 .. Len(wire) + 1
<1> DEFINE r == [id |-> e.id, on |-> Fate(e)]
<1>1. r \in [id : Nat, on : Outcome] /\ r.id = Len(wire) + 1
  BY FateType DEF Datagram
<1>2. wire \in Seq([id : Nat, on : Outcome]) /\ Len(wire) \in Nat
  BY DEF TypeOK
<1>3. wire' = Append(wire, r)
  BY <1>2 DEF Transmit
<1> HIDE DEF r
<1> QED BY <1>1, <1>2, <1>3

\* Releasing the head of the queue, by a flush or by the pacer thread.
LEMMA ReleaseKeepsOrder ==
  ASSUME TypeOK, Order, queue # << >>, Transmit(Head(queue)),
         queue' = Tail(queue), game' = game, sends' = sends,
         game.pc # "send" \/ game.id = 0 \/ queue = << >>
  PROVE  Order'
<1> DEFINE e == Head(queue)
<1>1. /\ e \in Datagram /\ e = queue[1] /\ 1 \in DOMAIN queue
      /\ Len(Tail(queue)) = Len(queue) - 1
      /\ \A i \in DOMAIN Tail(queue) : i + 1 \in DOMAIN queue /\ Tail(queue)[i] = queue[i + 1]
      /\ DOMAIN Tail(queue) = 1 .. Len(queue) - 1
      /\ Len(queue) \in Nat /\ Len(wire) \in Nat
  BY DEF TypeOK
<1>2. e.id = Len(wire) + 1
  BY <1>1 DEF Order
<1> HIDE DEF e
<1>3. /\ Len(wire') = Len(wire) + 1
      /\ \A i \in DOMAIN wire' : wire'[i].id = i
  <2>1. Transmit(e)
    BY DEF e
  <2> QED BY <1>1, <1>2, <2>1, TransmitNext DEF Order
<1>4. \A i \in DOMAIN queue' : queue'[i].id = Len(wire') + i
  BY <1>1, <1>3 DEF Order
<1>5. NothingDropped'
  BY <1>1, <1>3 DEF Order, NothingDropped, GameHolds
<1> QED BY <1>3, <1>4, <1>5 DEF Order, GameHolds

\* pace_take: the datagram joins the end of the queue, or goes to the game
\* thread's real send, past an empty queue only.
LEMMA TakeKeepsOrder ==
  ASSUME TypeOK, Order, Take
  PROVE  Order'
<1> DEFINE a == PaceAdmit(bucket, Len(queue), game.len, game.t)
<1>1. /\ Len(queue) \in Nat /\ game.len \in Nat /\ game.t \in Nat
      /\ bucket \in [tokens : Int, last : Nat]
      /\ Len(wire) \in Nat /\ queue \in Seq(Datagram)
      /\ game.pc = "take" /\ wire' = wire /\ sends' = sends
  BY DEF TypeOK, Take, netVars
<1>2. /\ a.what = "SendNow" => game.len < SeqMinPay \/ Len(queue) = 0
      /\ a.what # "SendNow" => game.len >= SeqMinPay
  BY <1>1, AdmitOrder
<1>3. a.due \in Nat
  BY <1>1, AdmitType
<1> HIDE DEF a
<1>4. CASE a.what = "Queued"
  <2> DEFINE e == InHand(a.due)
  <2>1. queue' = Append(queue, e) /\ game' = Outside(game.sock)
    BY <1>4 DEF Take, a
  <2>2. e \in Datagram /\ e.id = game.id
    BY <1>3, InHandType DEF InHand
  <2> HIDE DEF e
  <2>3. game.id # 0
    BY <1>1, <1>2, <1>4, PaceAssumption DEF Order
  <2>4. game.id = sends /\ GameHolds
    BY <1>1, <2>3 DEF Order, GameHolds
  <2>5. sends = Len(wire) + Len(queue) + 1
    BY <2>4 DEF Order, NothingDropped
  <2>6. /\ Len(queue') = Len(queue) + 1
        /\ DOMAIN queue' = 1 .. Len(queue) + 1
        /\ \A i \in 1 .. Len(queue) : queue'[i] = queue[i]
        /\ queue'[Len(queue) + 1].id = game.id
    BY <1>1, <2>1, <2>2
  <2>7. \A i \in DOMAIN queue' : queue'[i].id = Len(wire') + i
    <3>1. ASSUME NEW i \in 1 .. Len(queue) + 1
          PROVE  queue'[i].id = Len(wire) + i
      <4>1. CASE i = Len(queue) + 1
        BY <1>1, <2>4, <2>5, <2>6, <4>1
      <4>2. CASE i # Len(queue) + 1
        <5>1. i \in DOMAIN queue /\ i \in 1 .. Len(queue)
          BY <1>1, <3>1, <4>2
        <5>2. queue[i].id = Len(wire) + i
          BY <5>1 DEF Order
        <5> QED BY <2>6, <5>1, <5>2
      <4> QED BY <4>1, <4>2
    <3> QED BY <1>1, <2>6, <3>1
  <2>8. ~GameHolds' /\ game'.pc = "idle"
    BY <2>1 DEF GameHolds, Outside
  <2>9. NothingDropped'
    BY <1>1, <2>5, <2>6, <2>8 DEF NothingDropped
  <2> QED BY <1>1, <2>7, <2>8, <2>9 DEF Order
<1>5. CASE a.what = "SendNow"
  <2>1. queue' = queue /\ game' = [game EXCEPT !.pc = "send"]
    BY <1>5 DEF Take, a
  <2>2. game'.pc = "send" /\ game'.id = game.id
    BY <2>1 DEF TypeOK
  <2>3. game.id # 0 => queue = << >>
    <3>1. game.id # 0 => ~(game.len < SeqMinPay)
      BY <1>1 DEF Order
    <3> QED BY <1>1, <1>2, <1>5, <3>1
  <2> QED BY <1>1, <2>1, <2>2, <2>3 DEF Order, NothingDropped, GameHolds
<1>6. CASE a.what = "FlushThenSend"
  <2>1. queue' = queue /\ game' = [game EXCEPT !.pc = "flush"]
    BY <1>6 DEF Take, a
  <2>2. game'.pc = "flush" /\ game'.id = game.id
    BY <2>1 DEF TypeOK
  <2>3. game.id # 0
    BY <1>1, <1>2, <1>6, PaceAssumption DEF Order
  <2> QED BY <1>1, <2>1, <2>2, <2>3 DEF Order, NothingDropped, GameHolds
<1> QED BY <1>4, <1>5, <1>6 DEF Take, a

LEMMA OrderStep ==
  ASSUME PlainOnly, TypeOK, Locking, Order, [Next]_vars
  PROVE  Order'
\* A step that leaves the wire, the queue and the number of calls alone, and
\* does not change what the game thread holds.
<1>q. ASSUME wire' = wire, queue' = queue, sends' = sends,
             \/ game' = game
             \/ ~GameHolds /\ game'.pc \notin {"take", "flush", "send"}
      PROVE  Order'
  BY <1>q DEF Order, NothingDropped, GameHolds
<1>1. ASSUME NEW h \in Handles, NEW len \in Lens, NEW route \in Routes,
             Call(h, len, route)
      PROVE  Order'
  <2>1. route = "plain" /\ len <= MaxPktBytes /\ len \in Nat
    BY SendPathAssumption DEF PlainOnly
  <2>2. /\ wire' = wire /\ queue' = queue /\ game.pc = "idle"
        /\ game'.pc = "take" /\ game'.len = len
        /\ IF len >= SeqMinPay THEN sends' = sends + 1 /\ game'.id = sends + 1
                               ELSE sends' = sends /\ game'.id = 0
    BY <1>1, <2>1 DEF Call, paceVars, netVars
  <2>3. sends \in Nat /\ Len(wire) \in Nat /\ Len(queue) \in Nat
    BY DEF TypeOK
  <2> QED BY <2>1, <2>2, <2>3, PaceAssumption DEF Order, NothingDropped, GameHolds
<1>2. CASE Take
  BY <1>2, TakeKeepsOrder
<1>3. CASE FlushOne
  BY <1>3, ReleaseKeepsOrder DEF FlushOne
<1>4. CASE FlushDone
  <2>1. game' = [game EXCEPT !.pc = "send"] /\ queue = << >> /\ game.pc = "flush"
    BY <1>4 DEF FlushDone
  <2>2. game'.pc = "send" /\ game'.id = game.id
    BY <2>1 DEF TypeOK
  <2>3. wire' = wire /\ queue' = queue /\ sends' = sends
    BY <1>4 DEF FlushDone, netVars
  <2> QED BY <2>1, <2>2, <2>3 DEF Order, NothingDropped, GameHolds
<1>5. CASE Send
  <2>1. /\ game.pc = "send" /\ queue' = queue /\ sends' = sends
        /\ Transmit(InHand(0)) /\ game'.pc \in {"dup", "idle"}
    BY <1>5 DEF Send, Outside, paceVars, TypeOK
  <2>2. InHand(0) \in Datagram /\ InHand(0).id = game.id
    BY InHandType DEF InHand
  <2>3. CASE game.id = 0
    <3>1. wire' = wire
      BY <2>1, <2>2, <2>3 DEF Transmit
    <3> QED BY <1>q, <2>1, <2>3, <3>1 DEF GameHolds
  <2>4. CASE game.id # 0
    <3>1. GameHolds /\ queue = << >> /\ game.id = sends /\ sends = Len(wire) + 1
      BY <2>1, <2>4 DEF Order, GameHolds, NothingDropped, TypeOK
    <3>2. /\ Len(wire') = Len(wire) + 1
          /\ \A i \in DOMAIN wire' : wire'[i].id = i
      BY <2>1, <2>2, <3>1, TransmitNext DEF Order
    <3> QED BY <2>1, <3>1, <3>2, SMTT(30) DEF Order, GameHolds, NothingDropped, TypeOK
  <2> QED BY <2>3, <2>4
<1>6. CASE Duplicate
  BY <1>6, <1>q DEF Duplicate, paceVars, Outside, GameHolds
<1>7. CASE DupPop
  BY <1>7, <1>q DEF DupPop, paceVars, netVars
<1>8. CASE DupSend
  BY <1>8, <1>q DEF DupSend, paceVars
<1>9. CASE PacerWake
  BY <1>9, <1>q DEF PacerWake, netVars
<1>10. CASE PacerLock
  BY <1>10, <1>q DEF PacerLock, netVars
<1>11. CASE PacerSend
  <2>1. queue # << >>
    BY <1>11 DEF PacerSend, HeadDue
  <2>2. game.pc # "send" \/ game.id = 0
    BY <2>1 DEF Order, GameHolds
  <2> QED BY <1>11, <2>1, <2>2, ReleaseKeepsOrder DEF PacerSend
<1>12. CASE PacerDone
  BY <1>12, <1>q DEF PacerDone, netVars
<1>13. ASSUME NEW h \in Handles, Close(h)
       PROVE  Order'
  <2>1. game'.pc = "closed"
    BY <1>13 DEF Close, Outside
  <2> QED BY <1>13, <1>q, <2>1 DEF Close, paceVars, netVars, GameHolds
<1>14. CASE ClosePurgeDups
  <2>1. game'.pc = "closeWait"
    BY <1>14 DEF ClosePurgeDups, TypeOK
  <2> QED BY <1>14, <1>q, <2>1 DEF ClosePurgeDups, paceVars, netVars, GameHolds
<1>15. CASE CloseLock
  <2>1. game'.pc = "closeFlush"
    BY <1>15 DEF CloseLock, TypeOK
  <2> QED BY <1>15, <1>q, <2>1 DEF CloseLock, netVars, GameHolds
<1>16. CASE CloseDone
  BY <1>16, <1>q DEF CloseDone, netVars, GameHolds, Outside, PurgeSocket
<1>17. ASSUME NEW h \in Handles, NEW who \in {"game", "other"}, Open(h, who)
       PROVE  Order'
  BY <1>17, <1>q DEF Open, paceVars, netVars
<1>18. CASE Tick
  BY <1>18, <1>q DEF Tick, paceVars, netVars
<1>19. CASE UNCHANGED vars
  BY <1>19, <1>q DEF vars
<1> QED
  BY <1>1, <1>2, <1>3, <1>4, <1>5, <1>6, <1>7, <1>8, <1>9, <1>10, <1>11,
     <1>12, <1>13, <1>14, <1>15, <1>16, <1>17, <1>18, <1>19 DEF Next

OInv == TypeOK /\ Locking /\ Order

LEMMA OrderInvariant ==
  ASSUME PlainOnly
  PROVE  Safety => []OInv
<1>1. Init => OInv
  BY TypeInit, TimingInit DEF OInv, Init, Order, NothingDropped, GameHolds, Outside
<1>2. OInv /\ [Next]_vars => OInv'
  BY TypeStep, LockingStep, OrderStep DEF OInv
<1> QED BY <1>1, <1>2, PTL DEF Safety

\* The pacer drops nothing, through every flush, close and purge.
THEOREM PacerDropsNothing ==
  ASSUME PlainOnly
  PROVE  Safety => []NothingDropped
<1>1. OInv => NothingDropped
  BY DEF OInv, Order
<1> QED BY <1>1, OrderInvariant, PTL

-----------------------------------------------------------------------------
(* Refinement: the send path implements the ordered wire *)

\* What a step may do to the wire and to the number of calls.
LEMMA WireStep ==
  ASSUME PlainOnly, OInv, [Next]_vars
  PROVE  \/ wire' = wire /\ sends' = sends
         \/ wire' = wire /\ sends' = sends + 1 /\ sends < MaxSends
         \/ /\ sends' = sends
            /\ Len(wire) < sends
            /\ \E on \in Outcome : wire' = Append(wire, [id |-> Len(wire) + 1, on |-> on])
<1> DEFINE Shown == \/ wire' = wire /\ sends' = sends
                    \/ wire' = wire /\ sends' = sends + 1 /\ sends < MaxSends
                    \/ /\ sends' = sends
                       /\ Len(wire) < sends
                       /\ \E on \in Outcome :
                            wire' = Append(wire, [id |-> Len(wire) + 1, on |-> on])
<1> USE DEF OInv
<1>r. ASSUME queue # << >>, Transmit(Head(queue)), sends' = sends
      PROVE  Shown
  <2>1. /\ Head(queue).id = Len(wire) + 1
        /\ Len(wire) \in Nat /\ Len(queue) \in Nat /\ Len(queue) > 0
    BY <1>r, SMTT(30) DEF TypeOK, Order
  <2>2. wire' = Append(wire, [id |-> Len(wire) + 1, on |-> Fate(Head(queue))])
    BY <1>r, <2>1 DEF Transmit
  <2>3. Len(wire) < sends
    BY <2>1, SMTT(30) DEF Order, NothingDropped, TypeOK
  <2> QED BY <1>r, <2>2, <2>3, FateType
<1>1. ASSUME NEW h \in Handles, NEW len \in Lens, NEW route \in Routes,
             Call(h, len, route)
      PROVE  Shown
  BY <1>1 DEF Call, netVars
<1>2. CASE Send
  <2>1. InHand(0).id = game.id
    BY DEF InHand
  <2>2. CASE game.id = 0
    BY <1>2, <2>1, <2>2 DEF Send, Transmit
  <2>3. CASE game.id # 0
    <3>1. GameHolds /\ game.id = sends /\ sends = Len(wire) + 1 /\ Len(wire) \in Nat
      BY <1>2, <2>3 DEF Send, Order, GameHolds, NothingDropped, TypeOK
    <3>2. wire' = Append(wire, [id |-> Len(wire) + 1, on |-> Fate(InHand(0))])
      BY <1>2, <2>1, <2>3, <3>1 DEF Send, Transmit
    <3> QED BY <1>2, <3>1, <3>2, FateType DEF Send
  <2> QED BY <2>2, <2>3
<1>3. CASE FlushOne
  BY <1>3, <1>r DEF FlushOne
<1>4. CASE PacerSend
  BY <1>4, <1>r DEF PacerSend, HeadDue
<1>5. CASE Take \/ FlushDone \/ Duplicate \/ DupPop \/ DupSend
  BY <1>5 DEF Take, FlushDone, Duplicate, DupPop, DupSend, netVars
<1>6. CASE PacerWake \/ PacerLock \/ PacerDone \/ Tick
  BY <1>6 DEF PacerWake, PacerLock, PacerDone, Tick, netVars
<1>7. ASSUME NEW h \in Handles, Close(h)
      PROVE  Shown
  BY <1>7 DEF Close, netVars
<1>8. CASE ClosePurgeDups \/ CloseLock \/ CloseDone
  BY <1>8 DEF ClosePurgeDups, CloseLock, CloseDone, netVars
<1>9. ASSUME NEW h \in Handles, NEW who \in {"game", "other"}, Open(h, who)
      PROVE  Shown
  BY <1>9 DEF Open, netVars
<1>10. CASE UNCHANGED vars
  BY <1>10 DEF vars
<1> QED
  BY <1>1, <1>2, <1>3, <1>4, <1>5, <1>6, <1>7, <1>8, <1>9, <1>10 DEF Next

\* With calls the pacer may own, the hooks and the two threads implement the
\* ordered wire: the n-th sequenced datagram of the game is the n-th original
\* given to the real send, and is given once.
THEOREM SendPathImplementsOrderedWire ==
  ASSUME PlainOnly
  PROVE  Safety => InOrderOnce
<1> DEFINE D == [i \in DOMAIN wire |-> wire[i].id]
<1>1. Init => OW!Init
  BY DEF Init, OW!Init
<1>2. OInv /\ [Next]_vars => [OW!Next]_(OW!vars)
  <2> SUFFICES ASSUME OInv, [Next]_vars
               PROVE  [OW!Next]_(OW!vars)
    OBVIOUS
  <2>1. CASE wire' = wire /\ sends' = sends
    BY <2>1 DEF OW!vars
  <2>2. CASE wire' = wire /\ sends' = sends + 1 /\ sends < MaxSends
    BY <2>2 DEF OW!Next, OW!Accept
  <2>3. CASE /\ sends' = sends
             /\ Len(wire) < sends
             /\ \E on \in Outcome : wire' = Append(wire, [id |-> Len(wire) + 1, on |-> on])
    <3>1. PICK on \in Outcome : wire' = Append(wire, [id |-> Len(wire) + 1, on |-> on])
      BY <2>3
    <3>2. wire \in Seq([id : Nat, on : Outcome]) /\ Len(wire) \in Nat
      BY DEF OInv, TypeOK
    <3>3. D \in Seq(Nat) /\ Len(D) = Len(wire)
      <4>1. DOMAIN wire = 1 .. Len(wire)
        BY <3>2
      <4>2. ASSUME NEW i \in 1 .. Len(wire)
            PROVE  wire[i].id \in Nat
        BY <4>1 DEF OInv, Order
      <4>3. D \in [1 .. Len(wire) -> Nat]
        BY <4>1, <4>2
      <4> HIDE DEF D
      <4>4. D \in Seq(Nat)
        BY <3>2, <4>3
      <4> QED BY <3>2, <4>3, <4>4
    <3>4. /\ DOMAIN wire' = 1 .. Len(wire) + 1
          /\ \A i \in 1 .. Len(wire) : wire'[i] = wire[i]
          /\ wire'[Len(wire) + 1].id = Len(wire) + 1
      BY <3>1, <3>2
    <3>5. D' = Append(D, Len(D) + 1)
      <4> DEFINE E == [i \in 1 .. Len(wire) + 1 |->
                        IF i <= Len(wire) THEN wire[i].id ELSE Len(wire) + 1]
      <4>1. D' = [i \in 1 .. Len(wire) + 1 |-> wire'[i].id]
        BY <3>4
      <4>2. D' = E
        BY <3>2, <3>4, <4>1
      <4>3. Append(D, Len(D) + 1) \in Seq(Nat) /\ Len(Append(D, Len(D) + 1)) = Len(wire) + 1
        BY <3>2, <3>3
      <4>4. ASSUME NEW i \in 1 .. Len(wire) + 1
            PROVE  Append(D, Len(D) + 1)[i] = E[i]
        BY <3>2, <3>3
      <4>5. Append(D, Len(D) + 1) = E
        <5> DEFINE A == Append(D, Len(D) + 1)
        <5>1. A = [i \in 1 .. Len(wire) + 1 |-> A[i]]
          BY <4>3
        <5> HIDE DEF A, D
        <5> QED BY <4>4, <5>1 DEF A
      <4> QED BY <4>2, <4>5
    <3> QED BY <2>3, <3>3, <3>5 DEF OW!Next, OW!Deliver
  <2> QED BY <2>1, <2>2, <2>3, WireStep
<1> QED BY <1>1, <1>2, OrderInvariant, PTL DEF Safety, InOrderOnce, OW!Safety

-----------------------------------------------------------------------------
(* Duplicates follow their originals *)

OnWire(w, n) == \E i \in DOMAIN w : w[i].id = n

\* The game thread carries a number exactly when the datagram has one.
CarriesNumber ==
  game.pc \in {"take", "flush", "send"} => (game.id = 0 <=> game.len < SeqMinPay)

\* From the tail of the hook to the wire, wherever a duplicate is, its
\* original has been given to the real send.
CopiesFollow ==
  /\ game.pc = "dup" => OnWire(wire, game.id)
  /\ \A e \in dupQ : OnWire(wire, e.id)
  /\ dupper.pc = "send" => OnWire(wire, dupper.e.id)
  /\ DupAfterOriginal

\* The wire only grows.
LEMMA TransmitGrows ==
  ASSUME TypeOK, NEW e \in Datagram, Transmit(e)
  PROVE  /\ \A n : OnWire(wire, n) => OnWire(wire', n)
         /\ e.id # 0 => OnWire(wire', e.id)
<1> DEFINE r == [id |-> e.id, on |-> Fate(e)]
<1>1. r \in [id : Nat, on : Outcome] /\ r.id = e.id
  BY FateType DEF Datagram
<1>2. wire \in Seq([id : Nat, on : Outcome]) /\ Len(wire) \in Nat
  BY DEF TypeOK
<1>3. wire' = IF e.id = 0 THEN wire ELSE Append(wire, r)
  BY DEF Transmit
<1> HIDE DEF r
<1>4. CASE e.id = 0
  BY <1>3, <1>4 DEF OnWire
<1>5. CASE e.id # 0
  <2>1. wire' = Append(wire, r)
    BY <1>3, <1>5
  <2>2. /\ DOMAIN wire = 1 .. Len(wire)
        /\ DOMAIN wire' = 1 .. Len(wire) + 1
        /\ \A i \in 1 .. Len(wire) : wire'[i] = wire[i]
        /\ wire'[Len(wire) + 1] = r
    BY <1>1, <1>2, <2>1, AppendFacts
  <2>3. ASSUME NEW n, OnWire(wire, n)
        PROVE  OnWire(wire', n)
    <3>1. PICK i \in 1 .. Len(wire) : wire[i].id = n
      BY <2>2, <2>3 DEF OnWire
    <3>2. i \in DOMAIN wire' /\ wire'[i].id = n
      BY <1>2, <2>2, <3>1
    <3> QED BY <3>2 DEF OnWire
  <2>4. OnWire(wire', e.id)
    <3>1. Len(wire) + 1 \in DOMAIN wire'
      BY <1>2, <2>2
    <3> QED BY <1>1, <2>2, <3>1 DEF OnWire
  <2> QED BY <2>3, <2>4
<1> QED BY <1>4, <1>5

LEMMA CarriesStep ==
  ASSUME TypeOK, CarriesNumber, [Next]_vars
  PROVE  CarriesNumber'
<1> USE DEF CarriesNumber
<1>1. ASSUME NEW h \in Handles, NEW len \in Lens, NEW route \in Routes,
             Call(h, len, route)
      PROVE  CarriesNumber'
  <2>1. sends + 1 # 0 /\ len \in Nat
    BY SendPathAssumption DEF TypeOK
  <2>2. game'.len = len /\ game'.id = IF len >= SeqMinPay THEN sends + 1 ELSE 0
    BY <1>1 DEF Call
  <2> QED BY <2>1, <2>2, PaceAssumption
<1>2. CASE Take
  <2>1. \/ game'.pc = "idle"
        \/ game.pc = "take" /\ game'.id = game.id /\ game'.len = game.len
    BY <1>2 DEF Take, Outside, TypeOK
  <2> QED BY <2>1
<1>3. CASE FlushDone
  <2>1. game.pc = "flush" /\ game'.id = game.id /\ game'.len = game.len
    BY <1>3 DEF FlushDone, TypeOK
  <2> QED BY <2>1
<1>4. CASE Send \/ Duplicate \/ CloseDone \/ ClosePurgeDups \/ CloseLock
  <2>1. game'.pc \in {"dup", "idle", "closeWait", "closeFlush"}
    BY <1>4 DEF Send, Duplicate, CloseDone, ClosePurgeDups, CloseLock, Outside, TypeOK
  <2> QED BY <2>1
<1>5. ASSUME NEW h \in Handles, Close(h)
      PROVE  CarriesNumber'
  BY <1>5 DEF Close, Outside
<1>6. CASE \/ FlushOne \/ DupPop \/ DupSend \/ PacerWake \/ PacerLock
           \/ PacerSend \/ PacerDone \/ Tick \/ UNCHANGED vars
  BY <1>6 DEF FlushOne, DupPop, DupSend, PacerWake, PacerLock, PacerSend, PacerDone,
              Tick, vars
<1>7. ASSUME NEW h \in Handles, NEW who \in {"game", "other"}, Open(h, who)
      PROVE  CarriesNumber'
  BY <1>7 DEF Open
<1> QED BY <1>1, <1>2, <1>3, <1>4, <1>5, <1>6, <1>7 DEF Next

LEMMA CopiesStep ==
  ASSUME TypeOK, CarriesNumber, CopiesFollow, [Next]_vars
  PROVE  CopiesFollow'
\* A step that makes no duplicate and forgets nothing of the wire.
<1>q. ASSUME \A n : OnWire(wire, n) => OnWire(wire', n),
             game'.pc = "dup" => OnWire(wire', game'.id),
             dupQ' \subseteq dupQ, dupper' = dupper, copies' = copies
      PROVE  CopiesFollow'
  <2>1. \A e \in dupQ' : OnWire(wire', e.id)
    BY <1>q DEF CopiesFollow
  <2>2. dupper'.pc = "send" => OnWire(wire', dupper'.e.id)
    BY <1>q DEF CopiesFollow
  <2>3. \A c \in copies' : OnWire(wire', c.id)
    BY <1>q DEF CopiesFollow, DupAfterOriginal, OnWire
  <2> QED BY <1>q, <2>1, <2>2, <2>3 DEF CopiesFollow, DupAfterOriginal, OnWire
<1>w. ASSUME wire' = wire
      PROVE  \A n : OnWire(wire, n) <=> OnWire(wire', n)
  BY <1>w DEF OnWire
<1>1. ASSUME NEW h \in Handles, NEW len \in Lens, NEW route \in Routes,
             Call(h, len, route)
      PROVE  CopiesFollow'
  <2>1. game'.pc # "dup" /\ wire' = wire
    BY <1>1 DEF Call, netVars
  <2> QED BY <1>1, <1>q, <1>w, <2>1 DEF Call, dupVars, netVars
<1>2. CASE Take
  <2>1. game'.pc # "dup" /\ wire' = wire
    BY <1>2 DEF Take, netVars, Outside, TypeOK
  <2> QED BY <1>2, <1>q, <1>w, <2>1 DEF Take, dupVars, netVars
<1>3. CASE FlushOne
  <2>1. Head(queue) \in Datagram /\ game'.pc # "dup"
    BY <1>3, TailFacts DEF FlushOne, TypeOK
  <2>2. \A n : OnWire(wire, n) => OnWire(wire', n)
    BY <1>3, <2>1, TransmitGrows DEF FlushOne
  <2> QED BY <1>3, <1>q, <2>1, <2>2 DEF FlushOne, dupVars
<1>4. CASE FlushDone
  <2>1. game'.pc # "dup" /\ wire' = wire
    BY <1>4 DEF FlushDone, netVars, TypeOK
  <2> QED BY <1>4, <1>q, <1>w, <2>1 DEF FlushDone, dupVars, netVars
<1>5. CASE Send
  <2>1. InHand(0) \in Datagram /\ InHand(0).id = game.id
    BY InHandType DEF InHand
  <2>2. /\ \A n : OnWire(wire, n) => OnWire(wire', n)
        /\ game.id # 0 => OnWire(wire', game.id)
    BY <1>5, <2>1, TransmitGrows DEF Send
  <2>3. game'.pc = "dup" => game.len >= SeqMinPay /\ game'.id = game.id
    BY <1>5 DEF Send, Outside, TypeOK
  <2>4. game'.pc = "dup" => OnWire(wire', game'.id)
    <3> SUFFICES ASSUME game'.pc = "dup"
                 PROVE  OnWire(wire', game'.id)
      OBVIOUS
    <3>1. game.len \in Nat /\ ~(game.len < SeqMinPay)
      BY <2>3, PaceAssumption DEF TypeOK
    <3>2. game.id # 0
      BY <1>5, <3>1 DEF Send, CarriesNumber
    <3> QED BY <2>2, <2>3, <3>2
  <2> QED BY <1>5, <1>q, <2>2, <2>4 DEF Send, dupVars
<1>6. CASE Duplicate
  <2>1. wire' = wire /\ game.pc = "dup" /\ game'.pc = "idle" /\ dupper' = dupper
    BY <1>6 DEF Duplicate, Outside
  <2>2. OnWire(wire, game.id)
    BY <2>1 DEF CopiesFollow
  <2>3. \A e \in dupQ' : OnWire(wire, e.id)
    <3>1. dupQ' \subseteq dupQ \cup {InHand(now + DupDelay)}
      BY <1>6 DEF Duplicate, DupEnqueue
    <3>2. InHand(now + DupDelay).id = game.id
      BY DEF InHand
    <3> QED BY <2>2, <3>1, <3>2 DEF CopiesFollow
  <2>4. \A c \in copies' : OnWire(wire, c.id)
    <3>1. copies' \subseteq copies \cup {[id |-> game.id, on |-> Fate(InHand(0))]}
      BY <1>6 DEF Duplicate
    <3> QED BY <2>2, <3>1 DEF CopiesFollow, DupAfterOriginal, OnWire
  <2> QED BY <2>1, <2>3, <2>4 DEF CopiesFollow, DupAfterOriginal, OnWire
<1>7. CASE DupPop
  <2>1. PICK e \in dupQ : dupQ' = dupQ \ {e} /\ dupper' = [pc |-> "send", e |-> e]
    BY <1>7 DEF DupPop
  <2>2. wire' = wire /\ copies' = copies /\ game' = game
    BY <1>7 DEF DupPop, netVars
  <2> QED BY <2>1, <2>2 DEF CopiesFollow, DupAfterOriginal, OnWire
<1>8. CASE DupSend
  <2>1. /\ dupper.pc = "send" /\ wire' = wire /\ game' = game /\ dupQ' = dupQ
        /\ copies' = copies \cup {[id |-> dupper.e.id, on |-> Fate(dupper.e)]}
        /\ dupper'.pc = "idle"
    BY <1>8 DEF DupSend, TypeOK
  <2> QED BY <2>1 DEF CopiesFollow, DupAfterOriginal, OnWire
<1>9. CASE PacerWake \/ PacerLock \/ PacerDone \/ Tick
  <2>1. UNCHANGED << wire, copies, game, dupQ, dupper >>
    BY <1>9 DEF PacerWake, PacerLock, PacerDone, Tick, dupVars, netVars
  <2> QED BY <2>1 DEF CopiesFollow, DupAfterOriginal, OnWire
<1>10. CASE PacerSend
  <2>1. Head(queue) \in Datagram /\ game' = game
    BY <1>10, TailFacts DEF PacerSend, HeadDue, TypeOK
  <2>2. \A n : OnWire(wire, n) => OnWire(wire', n)
    BY <1>10, <2>1, TransmitGrows DEF PacerSend
  <2>3. game'.pc = "dup" => OnWire(wire', game'.id)
    BY <2>1, <2>2 DEF CopiesFollow
  <2> QED BY <1>10, <1>q, <2>2, <2>3 DEF PacerSend, dupVars
<1>11. ASSUME NEW h \in Handles, Close(h)
       PROVE  CopiesFollow'
  <2>1. game'.pc # "dup" /\ wire' = wire
    BY <1>11 DEF Close, Outside, netVars
  <2> QED BY <1>11, <1>q, <1>w, <2>1 DEF Close, dupVars, netVars
<1>12. CASE ClosePurgeDups \/ CloseLock \/ CloseDone
  <2>1. /\ game'.pc # "dup" /\ wire' = wire /\ dupQ' \subseteq dupQ
        /\ dupper' = dupper /\ copies' = copies
    BY <1>12 DEF ClosePurgeDups, CloseLock, CloseDone, Outside, netVars, dupVars, TypeOK
  <2> QED BY <1>q, <1>w, <2>1
<1>13. ASSUME NEW h \in Handles, NEW who \in {"game", "other"}, Open(h, who)
       PROVE  CopiesFollow'
  <2>1. UNCHANGED << wire, copies, game, dupQ, dupper >>
    BY <1>13 DEF Open, dupVars, netVars
  <2> QED BY <2>1 DEF CopiesFollow, DupAfterOriginal, OnWire
<1>14. CASE UNCHANGED vars
  BY <1>14 DEF vars, CopiesFollow, DupAfterOriginal, OnWire
<1> QED
  BY <1>1, <1>2, <1>3, <1>4, <1>5, <1>6, <1>7, <1>8, <1>9, <1>10, <1>11, <1>12,
     <1>13, <1>14 DEF Next

\* A duplicate is given to the real send after its original, whatever sockets
\* are closed, purged and reused in between and on whatever route the original
\* went: no hypothesis on the calls is needed.
THEOREM CopiesComeSecond == Safety => []DupAfterOriginal
<1> DEFINE CInv == TypeOK /\ CarriesNumber /\ CopiesFollow
<1>1. Init => CInv
  BY TypeInit DEF Init, CarriesNumber, CopiesFollow, DupAfterOriginal, Outside
<1>2. CInv /\ [Next]_vars => CInv'
  BY TypeStep, CarriesStep, CopiesStep
<1>3. CInv => DupAfterOriginal
  BY DEF CopiesFollow
<1> QED BY <1>1, <1>2, <1>3, PTL DEF Safety

-----------------------------------------------------------------------------
(* What a close leaves behind *)

\* The game still has the socket the datagram was sent on.
Live(e) == sock[e.sock].owner = "game" /\ sock[e.sock].gen = e.gen

Closing == game.pc \in {"closed", "closeWait", "closeFlush"}

\* A send hook works on a socket that stays the game's until it returns: the
\* close comes from the same thread.
HookOwns ==
  game.pc \in {"take", "flush", "send", "dup"} => sock[game.sock].owner = "game"

\* Between a close and its purge, only datagrams of the socket being closed
\* can be out of date.
QueuesLive ==
  /\ \A e \in dupQ : Live(e) \/ (game.pc = "closed" /\ e.sock = game.sock)
  /\ \A i \in DOMAIN queue :
       Live(queue[i]) \/ (Closing /\ queue[i].sock = game.sock)

LEMMA HookOwnsStep ==
  ASSUME TypeOK, HookOwns, [Next]_vars
  PROVE  HookOwns'
<1> USE DEF HookOwns
<1>1. ASSUME NEW h \in Handles, NEW len \in Lens, NEW route \in Routes,
             Call(h, len, route)
      PROVE  HookOwns'
  BY <1>1 DEF Call
<1>2. CASE Take \/ FlushDone \/ Send
  <2>1. \/ game'.pc = "idle"
        \/ game.pc \in {"take", "flush", "send"} /\ game'.sock = game.sock
    BY <1>2 DEF Take, FlushDone, Send, Outside, TypeOK
  <2>2. sock' = sock
    BY <1>2 DEF Take, FlushDone, Send
  <2> QED BY <2>1, <2>2
<1>3. CASE Duplicate \/ CloseDone \/ ClosePurgeDups \/ CloseLock
  <2>1. game'.pc \in {"idle", "closeWait", "closeFlush"}
    BY <1>3 DEF Duplicate, CloseDone, ClosePurgeDups, CloseLock, Outside, TypeOK
  <2> QED BY <2>1
<1>4. ASSUME NEW h \in Handles, Close(h)
      PROVE  HookOwns'
  BY <1>4 DEF Close, Outside
<1>5. CASE \/ FlushOne \/ DupPop \/ DupSend \/ PacerWake \/ PacerLock
           \/ PacerSend \/ PacerDone \/ Tick \/ UNCHANGED vars
  BY <1>5 DEF FlushOne, DupPop, DupSend, PacerWake, PacerLock, PacerSend, PacerDone,
              Tick, vars
<1>6. ASSUME NEW h \in Handles, NEW who \in {"game", "other"}, Open(h, who)
      PROVE  HookOwns'
  <2>1. game' = game /\ sock[h].owner = "none"
    BY <1>6 DEF Open
  <2>2. \A g \in Handles : g # h => sock'[g] = sock[g]
    BY <1>6 DEF Open, TypeOK
  <2> QED BY <2>1, <2>2 DEF TypeOK
<1> QED BY <1>1, <1>2, <1>3, <1>4, <1>5, <1>6 DEF Next

LEMMA QueuesLiveStep ==
  ASSUME TypeOK, HookOwns, QueuesLive, [Next]_vars
  PROVE  QueuesLive'
<1>t. /\ queue \in Seq(Datagram) /\ Len(queue) \in Nat /\ dupQ \subseteq Datagram
      /\ game.sock \in Handles
      /\ \A e \in Datagram : e.sock \in Handles
  BY DEF TypeOK, Datagram
<1>l. ASSUME sock' = sock
      PROVE  \A e : Live(e)' <=> Live(e)
  BY <1>l DEF Live
\* A step of a hook outside a close, or of another thread: the sockets stay,
\* nothing is added, and the end of a purge is not near.
<1>q. ASSUME sock' = sock, dupQ' \subseteq dupQ, queue' = queue,
             \/ game' = game
             \/ ~Closing
      PROVE  QueuesLive'
  BY <1>l, <1>q DEF QueuesLive, Closing
\* Releasing the head of the queue.
<1>p. ASSUME sock' = sock, dupQ' = dupQ, game' = game,
             queue # << >>, queue' = Tail(queue)
      PROVE  QueuesLive'
  <2>1. \A i \in DOMAIN queue' : i + 1 \in DOMAIN queue /\ queue'[i] = queue[i + 1]
    BY <1>t, <1>p, TailFacts
  <2> QED BY <1>l, <1>p, <2>1 DEF QueuesLive, Closing
\* The datagram in the hands of a send hook is one of a live socket.
<1>h. ASSUME NEW due, sock[game.sock].owner = "game"
      PROVE  Live(InHand(due))
  BY <1>h DEF InHand, Live
<1>1. ASSUME NEW h \in Handles, NEW len \in Lens, NEW route \in Routes,
             Call(h, len, route)
      PROVE  QueuesLive'
  BY <1>1, <1>q DEF Call, Closing, paceVars, dupVars
<1>2. CASE Take
  <2> DEFINE a == PaceAdmit(bucket, Len(queue), game.len, game.t)
  <2>1. sock' = sock /\ dupQ' = dupQ /\ ~Closing /\ sock[game.sock].owner = "game"
    BY <1>2 DEF Take, Closing, dupVars, HookOwns
  <2>2. CASE queue' = queue
    BY <1>q, <2>1, <2>2
  <2>3. CASE a.what = "Queued"
    <3>0. /\ bucket \in [tokens : Int, last : Nat]
          /\ game.len \in Nat /\ game.t \in Nat
      BY DEF TypeOK
    <3>1. a.due \in Nat
      BY <1>t, <3>0, AdmitType
    <3> DEFINE e == InHand(a.due)
    <3>2. queue' = Append(queue, e)
      BY <1>2, <2>3 DEF Take
    <3>3. e \in Datagram /\ Live(e)
      BY <1>h, <2>1, <3>1, InHandType
    <3> HIDE DEF e, a
    <3>4. /\ DOMAIN queue' = 1 .. Len(queue) + 1
          /\ DOMAIN queue = 1 .. Len(queue)
          /\ \A i \in 1 .. Len(queue) : queue'[i] = queue[i]
          /\ queue'[Len(queue) + 1] = e
      BY <1>t, <3>2, <3>3, AppendFacts
    <3>5. \A i \in 1 .. Len(queue) : Live(queue[i])
      BY <2>1, <3>4 DEF QueuesLive
    <3>6. ASSUME NEW i \in 1 .. Len(queue) + 1
          PROVE  Live(queue'[i])
      <4>1. i = Len(queue) + 1 \/ i \in 1 .. Len(queue)
        BY <1>t
      <4> QED BY <3>3, <3>4, <3>5, <4>1
    <3>7. \A x \in dupQ : Live(x)
      BY <2>1 DEF QueuesLive, Closing
    <3> QED BY <1>l, <2>1, <3>4, <3>6, <3>7 DEF QueuesLive
  <2> QED BY <1>2, <2>2, <2>3 DEF Take
<1>3. CASE FlushOne
  BY <1>3, <1>p DEF FlushOne, dupVars
<1>4. CASE FlushDone
  BY <1>4, <1>q DEF FlushDone, Closing, dupVars
<1>5. CASE Send
  BY <1>5, <1>q DEF Send, Closing, paceVars, dupVars
<1>6. CASE Duplicate
  <2>1. /\ sock' = sock /\ queue' = queue /\ ~Closing
        /\ sock[game.sock].owner = "game"
    BY <1>6 DEF Duplicate, Closing, paceVars, HookOwns
  <2>2. dupQ' \subseteq dupQ \cup {InHand(now + DupDelay)}
    BY <1>6 DEF Duplicate, DupEnqueue
  <2>3. \A e \in dupQ' : Live(e)
    BY <1>h, <2>1, <2>2 DEF QueuesLive, Closing
  <2>4. \A i \in DOMAIN queue : Live(queue[i])
    BY <2>1 DEF QueuesLive
  <2> QED BY <1>l, <2>1, <2>3, <2>4 DEF QueuesLive
<1>7. CASE DupPop
  BY <1>7, <1>q DEF DupPop, paceVars
<1>8. CASE DupSend
  BY <1>8, <1>q DEF DupSend, paceVars
<1>9. CASE PacerWake
  BY <1>9, <1>q DEF PacerWake, dupVars
<1>10. CASE PacerLock
  BY <1>10, <1>q DEF PacerLock, dupVars
<1>11. CASE PacerSend
  BY <1>11, <1>p DEF PacerSend, HeadDue, dupVars
<1>12. CASE PacerDone
  BY <1>12, <1>q DEF PacerDone, dupVars
\* A close takes its own socket's datagrams out of date, and no others.
<1>13. ASSUME NEW h \in Handles, Close(h)
       PROVE  QueuesLive'
  <2>1. /\ game'.pc = "closed" /\ game'.sock = h /\ ~Closing
        /\ dupQ' = dupQ /\ queue' = queue
    BY <1>13 DEF Close, Outside, Closing, paceVars, dupVars
  <2>2. \A g \in Handles : g # h => sock'[g] = sock[g]
    BY <1>13 DEF Close, TypeOK
  <2>3. \A e \in Datagram : Live(e) => Live(e)' \/ e.sock = h
    BY <1>t, <2>2 DEF Live
  <2>4. \A e \in dupQ : Live(e)' \/ e.sock = h
    BY <1>t, <2>1, <2>3 DEF QueuesLive, Closing
  <2>5. \A i \in DOMAIN queue : Live(queue[i])' \/ queue[i].sock = h
    BY <1>t, <2>1, <2>3 DEF QueuesLive
  <2> QED BY <2>1, <2>4, <2>5 DEF QueuesLive, Closing, Live
<1>14. CASE ClosePurgeDups
  <2>1. /\ game.pc = "closed" /\ game'.pc = "closeWait" /\ game'.sock = game.sock
        /\ dupQ' = {e \in dupQ : e.sock # game.sock}
        /\ queue' = queue /\ sock' = sock
    BY <1>14 DEF ClosePurgeDups, paceVars, TypeOK
  <2> QED BY <1>l, <2>1 DEF QueuesLive, Closing
<1>15. CASE CloseLock
  <2>1. /\ game.pc = "closeWait" /\ game'.pc = "closeFlush" /\ game'.sock = game.sock
        /\ dupQ' = dupQ /\ queue' = queue /\ sock' = sock
    BY <1>15 DEF CloseLock, dupVars, TypeOK
  <2> QED BY <1>l, <2>1 DEF QueuesLive, Closing
<1>16. CASE CloseDone
  <2>1. /\ game.pc = "closeFlush" /\ game'.pc = "idle"
        /\ dupQ' = dupQ /\ queue' = << >> /\ sock' = sock
    BY <1>16 DEF CloseDone, Outside, PurgeSocket, dupVars, TypeOK
  <2> QED BY <1>l, <2>1 DEF QueuesLive, Closing
\* A handle is given out again only when nobody owns it, and then no live
\* datagram names it.
<1>17. ASSUME NEW h \in Handles, NEW who \in {"game", "other"}, Open(h, who)
       PROVE  QueuesLive'
  <2>1. game' = game /\ dupQ' = dupQ /\ queue' = queue /\ sock[h].owner = "none"
    BY <1>17 DEF Open, paceVars, dupVars
  <2>2. \A g \in Handles : g # h => sock'[g] = sock[g]
    BY <1>17 DEF Open, TypeOK
  <2>3. \A e \in Datagram : Live(e) => Live(e)'
    BY <1>t, <2>1, <2>2 DEF Live
  <2> QED BY <1>t, <2>1, <2>3 DEF QueuesLive, Closing, Live
<1>18. CASE Tick
  BY <1>18, <1>q DEF Tick, paceVars, dupVars
<1>19. CASE UNCHANGED vars
  BY <1>19, <1>q DEF vars
<1> QED
  BY <1>1, <1>2, <1>3, <1>4, <1>5, <1>6, <1>7, <1>8, <1>9, <1>10, <1>11,
     <1>12, <1>13, <1>14, <1>15, <1>16, <1>17, <1>18, <1>19 DEF Next

\* Outside a close, everything the two queues hold would leave on the very
\* socket it was sent on, for any number of handles and incarnations and any
\* other code of the process that opens sockets.
THEOREM CloseForgets == Safety => []ClosedSocketForgotten
<1> DEFINE LInv == TypeOK /\ HookOwns /\ QueuesLive
<1>1. Init => LInv
  BY TypeInit DEF Init, HookOwns, QueuesLive, Outside
<1>2. LInv /\ [Next]_vars => LInv'
  BY TypeStep, HookOwnsStep, QueuesLiveStep
<1>3. LInv => ClosedSocketForgotten
  <2>1. \A e : Live(e) => Fate(e) = "own"
    BY DEF Live, Fate
  <2> QED BY <2>1 DEF QueuesLive, Closing, ClosedSocketForgotten
<1> QED BY <1>1, <1>2, <1>3, PTL DEF Safety
=============================================================================
