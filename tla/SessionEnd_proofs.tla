--------------------------- MODULE SessionEnd_proofs ---------------------------
(***************************************************************************)
(* For any number of threads, handles and peers, any size of the ring and  *)
(* of the table of socket ids, any filter: the state keeps its type, no    *)
(* counter goes unreported, the capture file is the tail of what was       *)
(* recorded, and a socket id names one socket but for the races that are   *)
(* counted.                                                                *)
(***************************************************************************)
EXTENDS SessionEnd, FiniteSetTheorems, SequenceTheorems, TLAPS

USE SessionAssumption

-----------------------------------------------------------------------------
(* Types                                                                    *)

\* What is known of an operation from where it is.
LEMMA OpShape ==
  ASSUME NEW o \in Ops
  PROVE  /\ o.at = "name" => o.h \in Handles /\ o.n \in Nat \ {0}
         /\ o.at \in {"lookup", "record"} => o.h \in Handles /\ o.n \in Nat \ {0} /\ o.sid \in Nat
         /\ o.at \in {"forget", "reorder", "pace"} => o.h \in Handles
         /\ o.at = "say" => /\ o.h \in Handles /\ o.next \in Nexts
                            /\ o.lines \in Seq(Lines \X Nat) /\ o.lines # << >>
<1>1. CASE o = Idle
  BY <1>1 DEF Idle
<1>2. CASE o \in [at : {"name"}, h : Handles, n : Nat \ {0}]
  BY <1>2
<1>3. CASE o \in [at : {"lookup", "record"}, h : Handles, n : Nat \ {0}, sid : Nat]
  BY <1>3
<1>4. CASE o \in [at : {"forget", "reorder", "pace"}, h : Handles]
  BY <1>4
<1>5. CASE o \in [at : {"say"}, h : Handles, lines : Seq(Lines \X Nat) \ {<< >>}, next : Nexts]
  BY <1>5
<1> QED
  BY <1>1, <1>2, <1>3, <1>4, <1>5 DEF Ops

\* The operations there are.
LEMMA OpMade ==
  ASSUME NEW h \in Handles
  PROVE  /\ Idle \in Ops /\ Nexts \subseteq Ops
         /\ \A n \in Nat \ {0} : [at |-> "name", h |-> h, n |-> n] \in Ops
         /\ \A n \in Nat \ {0}, sid \in Nat :
              /\ [at |-> "lookup", h |-> h, n |-> n, sid |-> sid] \in Ops
              /\ [at |-> "record", h |-> h, n |-> n, sid |-> sid] \in Ops
         /\ [at |-> "forget", h |-> h] \in Ops
         /\ [at |-> "reorder", h |-> h] \in Ops
         /\ [at |-> "pace", h |-> h] \in Nexts
<1>1. Idle \in Ops /\ Nexts \subseteq Ops
  BY DEF Ops, Nexts
<1>2. \A n \in Nat \ {0} : [at |-> "name", h |-> h, n |-> n] \in Ops
  BY DEF Ops
<1>3. \A n \in Nat \ {0}, sid \in Nat :
        /\ [at |-> "lookup", h |-> h, n |-> n, sid |-> sid] \in Ops
        /\ [at |-> "record", h |-> h, n |-> n, sid |-> sid] \in Ops
  BY DEF Ops
<1>4. [at |-> "forget", h |-> h] \in Ops /\ [at |-> "reorder", h |-> h] \in Ops
  BY DEF Ops
<1>5. [at |-> "pace", h |-> h] \in Nexts
  BY DEF Nexts
<1> QED
  BY <1>1, <1>2, <1>3, <1>4, <1>5

\* Lines are said as long as there are any.
LEMMA SayingType ==
  ASSUME NEW h \in Handles, NEW lines \in Seq(Lines \X Nat), NEW next \in Nexts
  PROVE  Saying(h, lines, next) \in Ops
<1>1. CASE lines = << >>
  BY <1>1, OpMade DEF Saying
<1>2. CASE lines # << >>
  BY <1>2 DEF Saying, Ops
<1> QED
  BY <1>1, <1>2

LEMMA UnrepeatedType ==
  ASSUME TypeOK, NEW l \in Lines
  PROVE  Unrepeated(l) \in Seq(Lines \X Nat)
<1> DEFINE S == Lines \X Nat
           line == << l, count[l] >>
<1>1. line \in S
  BY DEF TypeOK
<1> HIDE DEF S, line
<1>2. << line >> \in Seq(S) /\ << >> \in Seq(S)
  BY <1>1
<1>3. Unrepeated(l) = << line >> \/ Unrepeated(l) = << >>
  BY Zenon DEF Unrepeated, line
<1>4. Unrepeated(l) \in Seq(S)
  BY <1>2, <1>3
<1> QED
  BY <1>4 DEF S

\* A look-up finds the id, makes one, or finds no room.
LEMMA LookUpType ==
  ASSUME NEW h \in Handles, TypeOK, NEW n, GetSocketId(h, n)
  PROVE  /\ track' \in [DOMAIN track' -> 1 .. nextId' - 1] /\ DOMAIN track' \subseteq Handles
         /\ nextId' \in Nat \ {0} /\ nextId' >= nextId
         /\ IdOf(h) \in Nat /\ IdOf(h) < nextId'
         /\ raced' \subseteq Nat
<1> DEFINE id == IdOf(h)
<1>0. raced' = raced \/ raced' = raced \cup {id}
  BY DEF GetSocketId
<1>1. CASE Tracked(h) = track
  <2>1. track' = track /\ nextId' = nextId
    BY <1>1 DEF GetSocketId
  <2>2. id \in Nat /\ id < nextId
    <3>1. nextId \in Nat \ {0} /\ \A g \in DOMAIN track : track[g] \in 1 .. nextId - 1
      BY DEF TypeOK
    <3>2. id = 0 \/ \E g \in DOMAIN track : id = track[g]
      BY <1>1 DEF IdOf
    <3> HIDE DEF id
    <3> QED BY ONLY <3>1, <3>2
  <2> HIDE DEF id
  <2>3. raced' \subseteq Nat
    BY <1>0, <2>2 DEF TypeOK
  <2>4. track' \in [DOMAIN track' -> 1 .. nextId' - 1] /\ DOMAIN track' \subseteq Handles
    BY <2>1, Zenon DEF TypeOK
  <2>5. nextId' \in Nat \ {0} /\ nextId' >= nextId
    BY <2>1 DEF TypeOK
  <2> QED
    BY <2>1, <2>2, <2>3, <2>4, <2>5 DEF id
<1>2. CASE Tracked(h) # track
  <2>1. Tracked(h) = [g \in DOMAIN track \cup {h} |-> IF g = h THEN nextId ELSE track[g]]
    BY <1>2 DEF Tracked
  <2>2. track' = Tracked(h) /\ nextId' = nextId + 1
    BY <1>2 DEF GetSocketId
  <2>3. id = nextId
    BY <2>1 DEF IdOf
  <2>4. nextId \in Nat \ {0}
    BY DEF TypeOK
  <2>5. DOMAIN track' = DOMAIN track \cup {h}
    BY <2>1, <2>2
  <2>6. ASSUME NEW g \in DOMAIN track' PROVE track'[g] \in 1 .. nextId' - 1
    <3>1. track'[g] = IF g = h THEN nextId ELSE track[g]
      BY <2>1, <2>2, <2>5
    <3>2. g # h => track[g] \in 1 .. nextId - 1
      BY <2>5 DEF TypeOK
    <3> QED
      BY <2>2, <2>4, <3>1, <3>2
  <2>7. track' \in [DOMAIN track' -> 1 .. nextId' - 1]
    <3>1. track' = [g \in DOMAIN track' |-> track'[g]]
      BY <2>1, <2>2
    <3> QED
      BY <2>6, <3>1
  <2> HIDE DEF id
  <2>8. raced' \subseteq Nat
    BY <1>0, <2>3, <2>4 DEF TypeOK
  <2>9. DOMAIN track' \subseteq Handles
    BY <2>5 DEF TypeOK
  <2>10. nextId' \in Nat \ {0} /\ nextId' >= nextId /\ id \in Nat /\ id < nextId'
    BY <2>2, <2>3, <2>4
  <2> QED
    BY <2>7, <2>8, <2>9, <2>10 DEF id
<1> QED
  BY <1>1, <1>2

\* A forgotten id leaves a table that fits.
LEMMA TableShrinks ==
  ASSUME NEW h, TypeOK, IsFiniteSet(DOMAIN track)
  PROVE  LET T == [g \in DOMAIN track \ {h} |-> track[g]]
         IN  /\ T \in [DOMAIN T -> 1 .. nextId - 1] /\ DOMAIN T \subseteq Handles
             /\ IsFiniteSet(DOMAIN T) /\ Cardinality(DOMAIN T) <= TrackCap
<1> DEFINE T == [g \in DOMAIN track \ {h} |-> track[g]]
<1>1. T \in [DOMAIN T -> 1 .. nextId - 1] /\ DOMAIN T \subseteq Handles
  BY DEF TypeOK
<1>2. DOMAIN T = DOMAIN track \ {h}
  OBVIOUS
<1>3. /\ IsFiniteSet(DOMAIN track \ {h})
      /\ Cardinality(DOMAIN track \ {h}) <= Cardinality(DOMAIN track)
  BY FS_Subset, DOMAIN track \ {h} \subseteq DOMAIN track
<1>4. /\ Cardinality(DOMAIN track \ {h}) \in Nat /\ Cardinality(DOMAIN track) \in Nat
  BY <1>3, FS_CardinalityType
<1>5. Cardinality(DOMAIN track) <= TrackCap
  BY DEF TypeOK
<1>6. Cardinality(DOMAIN T) <= TrackCap
  BY <1>2, <1>3, <1>4, <1>5
<1> HIDE DEF T
<1> QED
  BY <1>1, <1>2, <1>3, <1>6 DEF T

\* A look-up makes an id only where there is room for it.
LEMMA TableFits ==
  ASSUME NEW h, TypeOK, IsFiniteSet(DOMAIN track)
  PROVE  IsFiniteSet(DOMAIN Tracked(h)) /\ Cardinality(DOMAIN Tracked(h)) <= TrackCap
<1>1. CASE Tracked(h) = track
  BY <1>1 DEF TypeOK
<1>2. CASE Tracked(h) # track
  <2>1. /\ Tracked(h) = [g \in DOMAIN track \cup {h} |-> IF g = h THEN nextId ELSE track[g]]
        /\ h \notin DOMAIN track /\ ~(Cardinality(DOMAIN track) >= TrackCap)
    BY <1>2 DEF Tracked
  <2>2. DOMAIN Tracked(h) = DOMAIN track \cup {h}
    BY <2>1
  <2>3. IsFiniteSet(DOMAIN track \cup {h}) /\ Cardinality(DOMAIN track \cup {h}) = Cardinality(DOMAIN track) + 1
    BY <2>1, FS_AddElement
  <2>4. Cardinality(DOMAIN track) \in Nat
    BY FS_CardinalityType
  <2>5. Cardinality(DOMAIN track) + 1 <= TrackCap
    BY <2>1, <2>4
  <2> QED
    BY <2>2, <2>3, <2>5
<1> QED
  BY <1>1, <1>2

\* The type invariant, group by group of variables.
KernelOK == socket \in [Handles -> Nat] /\ opened \in Nat
IdsOK ==
  /\ track \in [DOMAIN track -> 1 .. nextId - 1] /\ DOMAIN track \subseteq Handles
  /\ IsFiniteSet(DOMAIN track) /\ Cardinality(DOMAIN track) <= TrackCap
  /\ nextId \in Nat \ {0} /\ raced \subseteq Nat
OpOK == op \in [Threads -> Ops]
CaptureOK ==
  /\ ring \in [0 .. RingRecords - 1 -> Records] /\ hist \in Seq(Records)
  /\ head \in 0 .. RingRecords - 1 /\ held \in 0 .. RingRecords
StatsOK ==
  /\ count \in [Lines -> Nat] /\ flag \in [Lines -> BOOLEAN]
  /\ last \in [Lines -> Nat \cup {Unsaid}] /\ written \in [Lines -> Nat \cup {Unsaid}]
  /\ p2p \in Handles \cup {0}
ExitOK ==
  /\ phase \in {"running", "flush", "done", "stuck"} /\ orphaned \subseteq Locks
  /\ clean \in BOOLEAN
  /\ file \in Seq(Records) /\ wrapped \in BOOLEAN
ProxyOK == proxy \in {"winmm", "dsound"}

Typed == TypeOK /\ IsFiniteSet(DOMAIN track)

LEMMA TypedGroups ==
  /\ Typed <=> ProxyOK /\ KernelOK /\ IdsOK /\ OpOK /\ CaptureOK /\ StatsOK /\ ExitOK
  /\ Typed' <=> ProxyOK' /\ KernelOK' /\ IdsOK' /\ OpOK' /\ CaptureOK' /\ StatsOK' /\ ExitOK'
BY DEF Typed, TypeOK, ProxyOK, KernelOK, IdsOK, OpOK, CaptureOK, StatsOK, ExitOK

\* A group that a step leaves alone keeps its type.
LEMMA GroupsKept ==
  /\ ProxyOK /\ UNCHANGED proxy => ProxyOK'
  /\ KernelOK /\ UNCHANGED kernel => KernelOK'
  /\ IdsOK /\ UNCHANGED ids => IdsOK'
  /\ OpOK /\ UNCHANGED op => OpOK'
  /\ CaptureOK /\ UNCHANGED capture => CaptureOK'
  /\ StatsOK /\ UNCHANGED stats => StatsOK'
  /\ ExitOK /\ UNCHANGED exiting => ExitOK'
<1>1. /\ ProxyOK /\ UNCHANGED proxy => ProxyOK'
      /\ KernelOK /\ UNCHANGED kernel => KernelOK'
  BY DEF ProxyOK, KernelOK, kernel
<1>2. IdsOK /\ UNCHANGED ids => IdsOK'
  BY DEF IdsOK, ids
<1>3. OpOK /\ UNCHANGED op => OpOK'
  BY DEF OpOK
<1>4. CaptureOK /\ UNCHANGED capture => CaptureOK'
  BY DEF CaptureOK, capture
<1>5. StatsOK /\ UNCHANGED stats => StatsOK'
  BY DEF StatsOK, stats
<1>6. ExitOK /\ UNCHANGED exiting => ExitOK'
  BY Zenon DEF ExitOK, exiting
<1> QED
  BY <1>1, <1>2, <1>3, <1>4, <1>5, <1>6

\* A look-up keeps the table's type, and gives an id of it.
LEMMA LookUpKeeps ==
  ASSUME NEW h \in Handles, Typed, NEW n, GetSocketId(h, n)
  PROVE  IdsOK' /\ IdOf(h) \in Nat
<1>1. track' = Tracked(h)
  BY DEF GetSocketId
<1>2. IsFiniteSet(DOMAIN track') /\ Cardinality(DOMAIN track') <= TrackCap
  BY <1>1, TableFits DEF Typed
<1> QED
  BY <1>2, LookUpType DEF Typed, IdsOK

\* One thread goes on to an operation there is.
LEMMA OpMoves ==
  ASSUME OpOK, NEW t \in Threads, NEW o \in Ops, op' = [op EXCEPT ![t] = o]
  PROVE  OpOK'
BY DEF OpOK

\* Operations made from others.
LEMMA OpEdits ==
  ASSUME NEW o \in Ops
  PROVE  /\ o.at = "forget" =>
              [o EXCEPT !.at = "reorder"] \in Ops /\ [o EXCEPT !.at = "reorder"].at = "reorder"
         /\ o.at = "lookup" => \A id \in Nat :
              LET r == [o EXCEPT !.at = "record", !.sid = id]
              IN  r \in Ops /\ r.at = "record" /\ r.h = o.h /\ r.n = o.n /\ r.sid = id
<1>1. ASSUME o.at = "forget"
      PROVE  [o EXCEPT !.at = "reorder"] \in Ops /\ [o EXCEPT !.at = "reorder"].at = "reorder"
  <2>1. o \in [at : {"forget", "reorder", "pace"}, h : Handles]
    BY <1>1 DEF Ops, Idle
  <2> QED
    BY <2>1 DEF Ops
<1>2. ASSUME o.at = "lookup", NEW id \in Nat
      PROVE  LET r == [o EXCEPT !.at = "record", !.sid = id]
             IN  r \in Ops /\ r.at = "record" /\ r.h = o.h /\ r.n = o.n /\ r.sid = id
  <2>1. o \in [at : {"lookup", "record"}, h : Handles, n : Nat \ {0}, sid : Nat]
    BY <1>2 DEF Ops, Idle
  <2> QED
    BY <2>1 DEF Ops
<1> QED
  BY <1>1, <1>2

\* Where the ring is written next.
LEMMA Wrap ==
  ASSUME NEW y \in 0 .. 2 * RingRecords - 1
  PROVE  y % RingRecords = IF y < RingRecords THEN y ELSE y - RingRecords
OBVIOUS

LEMMA TypedInit == Init => Typed
<1> SUFFICES ASSUME Init PROVE Typed
  OBVIOUS
<1>1. ProxyOK /\ KernelOK
  BY DEF Init, ProxyOK, KernelOK
<1>2. IdsOK
  <2>1. DOMAIN track = {}
    BY DEF Init
  <2>2. IsFiniteSet({}) /\ Cardinality({}) = 0
    BY FS_EmptySet
  <2>3. track \in [DOMAIN track -> 1 .. nextId - 1]
    BY <2>1 DEF Init
  <2> QED
    BY <2>1, <2>2, <2>3 DEF Init, IdsOK
<1>3. OpOK
  BY DEF Init, OpOK, Ops
<1>4. CaptureOK
  BY DEF Init, CaptureOK, Records, Blank
<1>5. StatsOK
  BY DEF Init, StatsOK
<1>6. ExitOK
  <2>1. wrapped \in BOOLEAN /\ clean \in BOOLEAN
    BY Zenon DEF Init
  <2> QED
    BY <2>1 DEF Init, ExitOK
<1> QED
  BY <1>1, <1>2, <1>3, <1>4, <1>5, <1>6, TypedGroups

\* The kernel's steps and the calls of the game.
LEMMA GameTyped ==
  ASSUME Typed, NEW t \in Threads, NEW h \in Handles,
         \/ Open(t, h) \/ CloseReal(t, h)
         \/ \E peer \in Peers \cup {0}, seq \in BOOLEAN : Receive(t, h, peer, seq)
  PROVE  Typed'
<1>0. ProxyOK /\ KernelOK /\ IdsOK /\ OpOK /\ CaptureOK /\ StatsOK /\ ExitOK
  BY TypedGroups
<1>1. CASE Open(t, h)
  <2>1. opened + 1 \in Nat \ {0}
    BY <1>0 DEF KernelOK
  <2>2. KernelOK'
    BY <1>0, <1>1, <2>1 DEF Open, KernelOK
  <2>3. PICK o \in Ops : op' = [op EXCEPT ![t] = o]
    BY <1>1, <2>1, OpMade DEF Open
  <2>4. OpOK'
    BY <1>0, <2>3, OpMoves
  <2>5. UNCHANGED << proxy, track, nextId, capture, stats, exiting >>
    BY <1>1 DEF Open
  <2>6. raced' = raced \/ (h \in DOMAIN track /\ raced' = raced \cup {track[h]})
    BY <1>1 DEF Open
  <2>7. raced' \subseteq Nat
    BY <1>0, <2>6 DEF IdsOK
  <2>8. IdsOK'
    BY <1>0, <2>5, <2>7 DEF IdsOK
  <2> QED
    BY <1>0, <2>2, <2>4, <2>5, <2>8, GroupsKept, TypedGroups
<1>2. CASE CloseReal(t, h)
  <2>1. KernelOK'
    BY <1>0, <1>2 DEF CloseReal, KernelOK
  <2>2. PICK o \in Ops : op' = [op EXCEPT ![t] = o]
    BY <1>2, OpMade DEF CloseReal
  <2>3. OpOK'
    BY <1>0, <2>2, OpMoves
  <2>4. UNCHANGED << proxy, ids, capture, stats, exiting >>
    BY <1>2 DEF CloseReal
  <2> QED
    BY <1>0, <2>1, <2>3, <2>4, GroupsKept, TypedGroups
<1>3. ASSUME NEW peer \in Peers \cup {0}, NEW seq \in BOOLEAN, Receive(t, h, peer, seq)
      PROVE  Typed'
  <2>1. count' = [count EXCEPT !["reorder"] = @ + IF seq THEN 1 ELSE 0] /\ p2p' \in {h, p2p}
    BY <1>3 DEF Receive
  <2>2. count' \in [Lines -> Nat]
    BY <1>0, <2>1 DEF StatsOK, Lines
  <2>3. UNCHANGED << proxy, kernel, ids, capture, last, flag, written, exiting >>
    BY <1>3 DEF Receive
  <2>4. StatsOK'
    BY <1>0, <2>1, <2>2, <2>3 DEF StatsOK
  <2>5. socket[h] \in Nat \ {0}
    BY <1>0, <1>3 DEF Receive, KernelOK
  <2>6. PICK o \in Ops : op' = [op EXCEPT ![t] = o]
    <3> DEFINE at == IF proxy = "dsound" THEN "lookup" ELSE "record"
               r == [at |-> at, h |-> h, n |-> socket[h], sid |-> 0]
    <3>1. r \in Ops
      BY <2>5, OpMade
    <3>2. op' = [op EXCEPT ![t] = IF Accepts(peer) THEN r ELSE Idle]
      BY <1>3 DEF Receive
    <3>3. Idle \in Ops
      BY OpMade
    <3> HIDE DEF r
    <3> QED
      BY <3>1, <3>2, <3>3
  <2>7. OpOK'
    BY <1>0, <2>6, OpMoves
  <2> QED
    BY <1>0, <2>3, <2>4, <2>7, GroupsKept, TypedGroups
<1> QED
  BY <1>1, <1>2, <1>3

\* The socket ids and the capture.
LEMMA CaptureTyped ==
  ASSUME Typed, NEW t \in Threads, Name(t) \/ LookUp(t) \/ Record(t)
  PROVE  Typed'
<1>0. ProxyOK /\ KernelOK /\ IdsOK /\ OpOK /\ CaptureOK /\ StatsOK /\ ExitOK
  BY TypedGroups
<1> DEFINE o == op[t]
<1>o. o \in Ops /\ o.at \in {"name", "lookup", "record"}
  BY <1>0 DEF OpOK, Name, LookUp, Record
<1>h. o.h \in Handles /\ o.n \in Nat \ {0} /\ (o.at # "name" => o.sid \in Nat)
  <2> HIDE DEF o
  <2> QED BY <1>o, OpShape
<1>i. Idle \in Ops
  BY DEF Ops
<1>1. CASE Name(t)
  <2>1. GetSocketId(o.h, o.n) /\ op' = [op EXCEPT ![t] = Idle]
        /\ UNCHANGED << proxy, kernel, capture, stats, exiting >>
    BY <1>1 DEF Name
  <2>2. IdsOK'
    <3> HIDE DEF o
    <3> QED BY <1>h, <2>1, LookUpKeeps
  <2>3. OpOK'
    BY <1>0, <1>i, <2>1, OpMoves
  <2> QED
    BY <1>0, <2>1, <2>2, <2>3, GroupsKept, TypedGroups
<1>2. CASE LookUp(t)
  <2> DEFINE id == IdOf(o.h)
             r == [o EXCEPT !.at = "record", !.sid = id]
  <2>1. GetSocketId(o.h, o.n) /\ op' = [op EXCEPT ![t] = r]
        /\ UNCHANGED << proxy, kernel, capture, stats, exiting >>
    <3>1. op' = [op EXCEPT ![t] = [@ EXCEPT !.at = "record", !.sid = IdOf(op[t].h)]]
      BY <1>2 DEF LookUp
    <3>2. op' = [op EXCEPT ![t] = r]
      BY <3>1
    <3> QED BY <1>2, <3>2 DEF LookUp
  <2>2. IdsOK' /\ id \in Nat
    <3> HIDE DEF o
    <3> QED BY <1>h, <2>1, LookUpKeeps
  <2>3. r \in Ops
    <3>1. o.at = "lookup"
      BY <1>2 DEF LookUp
    <3> HIDE DEF o, id
    <3> QED BY <1>o, <2>2, <3>1, OpEdits
  <2> HIDE DEF r
  <2>4. OpOK'
    BY <1>0, <2>1, <2>3, OpMoves
  <2> QED
    BY <1>0, <2>1, <2>2, <2>4, GroupsKept, TypedGroups
<1>3. CASE Record(t)
  <2> DEFINE id == IF proxy = "dsound" THEN o.sid ELSE IdOf(o.h)
             rec == [seq |-> Len(hist), n |-> o.n, sid |-> id]
  <2>1. /\ ring' = [ring EXCEPT ![head] = rec] /\ hist' = Append(hist, rec)
        /\ head' = (head + 1) % RingRecords
        /\ held' = IF held < RingRecords THEN held + 1 ELSE held
        /\ op' = [op EXCEPT ![t] = Idle]
        /\ UNCHANGED << proxy, kernel, stats, exiting >>
    BY <1>3 DEF Record
  <2>2. ASSUME proxy = "dsound" PROVE id \in Nat /\ IdsOK'
    <3>1. id \in Nat
      BY <1>3, <1>h, <2>2 DEF Record
    <3>2. UNCHANGED ids
      BY <1>3, <2>2 DEF Record
    <3> QED
      BY <1>0, <2>2, <3>1, <3>2, GroupsKept
  <2>3. ASSUME proxy # "dsound" PROVE id \in Nat /\ IdsOK'
    <3>1. GetSocketId(o.h, o.n)
      BY <1>3, <2>3 DEF Record
    <3>2. IdsOK' /\ IdOf(o.h) \in Nat
      <4> HIDE DEF o
      <4> QED BY <1>h, <3>1, LookUpKeeps
    <3> QED
      BY <2>3, <3>2
  <2>4. id \in Nat /\ IdsOK'
    BY <2>2, <2>3
  <2>5. rec \in Records
    <3>1. Len(hist) \in Nat
      BY <1>0, LenProperties DEF CaptureOK
    <3> HIDE DEF id, o
    <3> QED BY <1>h, <2>4, <3>1 DEF Records
  <2> HIDE DEF rec
  <2>6. CaptureOK'
    <3>1. head + 1 \in 0 .. 2 * RingRecords - 1 /\ head \in 0 .. RingRecords - 1
      BY <1>0 DEF CaptureOK
    <3>2. head' \in 0 .. RingRecords - 1
      BY <2>1, <3>1, Wrap
    <3>3. hist' \in Seq(Records)
      BY <1>0, <2>1, <2>5, AppendProperties DEF CaptureOK
    <3>4. ring' \in [0 .. RingRecords - 1 -> Records] /\ held' \in 0 .. RingRecords
      BY <1>0, <2>1, <2>5 DEF CaptureOK
    <3> QED BY <3>2, <3>3, <3>4 DEF CaptureOK
  <2>7. OpOK'
    BY <1>0, <1>i, <2>1, OpMoves
  <2> QED
    BY <1>0, <2>1, <2>4, <2>6, <2>7, GroupsKept, TypedGroups
<1> QED
  BY <1>1, <1>2, <1>3

\* The steps of a close after the real one.
LEMMA CloseTyped ==
  ASSUME Typed, NEW t \in Threads,
         Forget(t) \/ CloseReorder(t) \/ ClosePace(t) \/ Say(t)
  PROVE  Typed'
<1>0. ProxyOK /\ KernelOK /\ IdsOK /\ OpOK /\ CaptureOK /\ StatsOK /\ ExitOK
  BY TypedGroups
<1> DEFINE o == op[t]
<1>o. o \in Ops
  BY <1>0 DEF OpOK
<1>1. CASE Forget(t)
  <2> DEFINE r == [o EXCEPT !.at = "reorder"]
             T == [g \in DOMAIN track \ {o.h} |-> track[g]]
  <2>1. op' = [op EXCEPT ![t] = r]
    <3>1. op' = [op EXCEPT ![t] = [@ EXCEPT !.at = "reorder"]]
      BY <1>1 DEF Forget
    <3> QED BY <3>1
  <2>2. track' = T /\ UNCHANGED << proxy, kernel, nextId, raced, capture, stats, exiting >>
    BY <1>1 DEF Forget
  <2>3. r \in Ops
    <3>1. o.at = "forget"
      BY <1>1 DEF Forget
    <3> HIDE DEF o
    <3> QED BY <1>o, <3>1, OpEdits
  <2>4. /\ T \in [DOMAIN T -> 1 .. nextId - 1] /\ DOMAIN T \subseteq Handles
        /\ IsFiniteSet(DOMAIN T) /\ Cardinality(DOMAIN T) <= TrackCap
    <3> HIDE DEF o
    <3> QED BY TableShrinks DEF Typed
  <2> HIDE DEF r, T
  <2>5. OpOK'
    BY <1>0, <2>1, <2>3, OpMoves
  <2>6. IdsOK'
    BY <1>0, <2>2, <2>4 DEF IdsOK
  <2> QED
    BY <1>0, <2>2, <2>5, <2>6, GroupsKept, TypedGroups
<1>2. CASE CloseReorder(t)
  <2> DEFINE lines == IF o.h = p2p THEN << << "reorder", count["reorder"] >> >> ELSE << >>
             next == [at |-> "pace", h |-> o.h]
             r == Saying(o.h, lines, next)
  <2>1. o.h \in Handles
    <3>1. o.at = "reorder"
      BY <1>2 DEF CloseReorder
    <3> HIDE DEF o
    <3> QED BY <1>o, <3>1, OpShape
  <2>2. lines \in Seq(Lines \X Nat)
    <3>1. << "reorder", count["reorder"] >> \in Lines \X Nat
      BY <1>0 DEF StatsOK, Lines
    <3> DEFINE S == Lines \X Nat
               l == << "reorder", count["reorder"] >>
    <3> HIDE DEF S, l
    <3>2. << l >> \in Seq(S) /\ << >> \in Seq(S)
      BY <3>1 DEF S, l
    <3>3. lines = << l >> \/ lines = << >>
      BY Zenon DEF l
    <3>4. lines \in Seq(S)
      BY <3>2, <3>3
    <3> QED BY <3>4 DEF S
  <2>3. next \in Nexts
    <3> HIDE DEF o
    <3> QED BY <2>1, OpMade
  <2>4. r \in Ops
    <3> HIDE DEF o, lines, next
    <3> QED BY <2>1, <2>2, <2>3, SayingType
  <2>5. op' = [op EXCEPT ![t] = r]
    <3>1. op' = [op EXCEPT ![t] =
            Saying(@.h, IF @.h = p2p THEN << << "reorder", count["reorder"] >> >> ELSE << >>,
                   [at |-> "pace", h |-> @.h])]
      BY <1>2 DEF CloseReorder
    <3> QED BY <3>1
  <2>6. p2p' \in {0, p2p} /\ UNCHANGED << proxy, kernel, ids, capture, count, last, flag, written, exiting >>
    BY <1>2 DEF CloseReorder
  <2> HIDE DEF r
  <2>7. OpOK'
    BY <1>0, <2>4, <2>5, OpMoves
  <2>8. StatsOK'
    BY <1>0, <2>6 DEF StatsOK
  <2> QED
    BY <1>0, <2>6, <2>7, <2>8, GroupsKept, TypedGroups
<1>3. CASE ClosePace(t)
  <2> DEFINE lines == Unrepeated("send") \o Unrepeated("dampen")
             r == Saying(o.h, lines, Idle)
  <2>1. o.h \in Handles
    <3>1. o.at = "pace"
      BY <1>3 DEF ClosePace
    <3> HIDE DEF o
    <3> QED BY <1>o, <3>1, OpShape
  <2>2. lines \in Seq(Lines \X Nat)
    <3>1. Unrepeated("send") \in Seq(Lines \X Nat) /\ Unrepeated("dampen") \in Seq(Lines \X Nat)
      BY UnrepeatedType DEF Typed, Lines
    <3> QED BY <3>1, ConcatProperties
  <2>3. r \in Ops
    <3>1. Idle \in Nexts
      BY DEF Nexts
    <3> HIDE DEF o, lines
    <3> QED BY <2>1, <2>2, <3>1, SayingType
  <2>4. op' = [op EXCEPT ![t] = r]
    <3>1. op' = [op EXCEPT ![t] = Saying(@.h, Unrepeated("send") \o Unrepeated("dampen"), Idle)]
      BY <1>3 DEF ClosePace
    <3> QED BY <3>1
  <2>5. /\ last' = [l \in Lines |-> IF l \in {"send", "dampen"} THEN count[l] ELSE last[l]]
        /\ UNCHANGED << proxy, kernel, ids, capture, count, flag, written, p2p, exiting >>
    BY <1>3 DEF ClosePace
  <2> HIDE DEF r
  <2>6. OpOK'
    BY <1>0, <2>3, <2>4, OpMoves
  <2>7. last' \in [Lines -> Nat \cup {Unsaid}]
    BY <1>0, <2>5 DEF StatsOK
  <2>8. StatsOK'
    BY <1>0, <2>5, <2>7 DEF StatsOK
  <2> QED
    BY <1>0, <2>5, <2>6, <2>8, GroupsKept, TypedGroups
<1>4. CASE Say(t)
  <2> DEFINE line == Head(o.lines)
             r == Saying(o.h, Tail(o.lines), o.next)
  <2>1. /\ o.h \in Handles /\ o.next \in Nexts
        /\ o.lines \in Seq(Lines \X Nat) /\ o.lines # << >>
    <3>1. o.at = "say"
      BY <1>4 DEF Say
    <3> HIDE DEF o
    <3> QED BY <1>o, <3>1, OpShape
  <2>2. line \in Lines \X Nat /\ Tail(o.lines) \in Seq(Lines \X Nat)
    <3> HIDE DEF o
    <3> QED BY <2>1, HeadTailProperties
  <2>3. line[1] \in Lines /\ line[2] \in Nat
    <3> HIDE DEF line
    <3> QED BY <2>2
  <2>4. r \in Ops
    <3> HIDE DEF o
    <3> QED BY <2>1, <2>2, SayingType
  <2>5. op' = [op EXCEPT ![t] = r]
    <3>1. op' = [op EXCEPT ![t] = Saying(@.h, Tail(@.lines), @.next)]
      BY <1>4 DEF Say
    <3> QED BY <3>1
  <2>6. /\ written' = [written EXCEPT ![line[1]] = line[2]] /\ flag' = [flag EXCEPT ![line[1]] = TRUE]
        /\ UNCHANGED << proxy, kernel, ids, capture, count, last, p2p, exiting >>
    BY <1>4 DEF Say
  <2> HIDE DEF r, line
  <2>7. OpOK'
    BY <1>0, <2>4, <2>5, OpMoves
  <2>8. StatsOK'
    BY <1>0, <2>3, <2>6 DEF StatsOK
  <2> QED
    BY <1>0, <2>6, <2>7, <2>8, GroupsKept, TypedGroups
<1> QED
  BY <1>1, <1>2, <1>3, <1>4

\* The file as Flush writes it: a sequence of as many records as are held, each
\* from the slot the index leads to.
Start == (head + RingRecords - held) % RingRecords
Slot(i) == (Start + i - 1) % RingRecords

LEMMA FlushedFile ==
  ASSUME CaptureOK, Flush
  PROVE  /\ file' \in Seq(Records) /\ Len(file') = held
         /\ \A i \in 1 .. held : Slot(i) \in 0 .. RingRecords - 1 /\ file'[i] = ring[Slot(i)]
<1>1. /\ head \in 0 .. RingRecords - 1 /\ held \in 0 .. RingRecords
      /\ ring \in [0 .. RingRecords - 1 -> Records]
  BY DEF CaptureOK
<1>2. Start \in 0 .. RingRecords - 1
  <2>1. head + RingRecords - held \in 0 .. 2 * RingRecords - 1
    BY <1>1
  <2> QED
    BY <2>1, Wrap DEF Start
<1>3. ASSUME NEW i \in 1 .. held PROVE Slot(i) \in 0 .. RingRecords - 1
  <2>1. Start + i - 1 \in 0 .. 2 * RingRecords - 1
    BY <1>1, <1>2
  <2> QED
    BY <2>1, Wrap, SMTT(30) DEF Slot
<1>4. file' = [i \in 1 .. held |-> ring[Slot(i)]]
  BY DEF Flush, Start, Slot
<1>5. \A i \in 1 .. held : ring[Slot(i)] \in Records
  BY <1>1, <1>3
<1>6. file' \in Seq(Records)
  <2>1. held \in Nat
    BY <1>1
  <2> HIDE DEF Slot
  <2>2. [i \in 1 .. held |-> ring[Slot(i)]] \in Seq(Records)
    BY <1>5, <2>1, IsASeq
  <2> QED
    BY <1>4, <2>2
<1>7. Len(file') = held
  <2>1. held \in Nat /\ DOMAIN file' = 1 .. held
    BY <1>1, <1>4
  <2> QED
    BY <1>6, <2>1, LenProperties
<1> QED
  BY <1>3, <1>4, <1>6, <1>7

\* The end of the process.
LEMMA EndTyped ==
  ASSUME Typed, Exit \/ Flush
  PROVE  Typed'
<1>0. ProxyOK /\ KernelOK /\ IdsOK /\ OpOK /\ CaptureOK /\ StatsOK /\ ExitOK
  BY TypedGroups
<1>1. CASE Exit
  <2>1. PICK orphans \in SUBSET Locks :
          /\ orphaned' = orphans
          /\ written' = [l \in Lines |-> IF l \in Emitted(orphans) THEN count[l] ELSE written[l]]
          /\ flag' = [l \in Lines |-> l \in Emitted(orphans) \/ flag[l]]
    BY <1>1 DEF Exit
  <2>2. /\ phase' \in {"flush", "stuck"} /\ clean' = AlreadyLogged
        /\ UNCHANGED << proxy, kernel, ids, op, capture, count, last, p2p, file, wrapped >>
    BY <1>1 DEF Exit
  <2>3. written' \in [Lines -> Nat \cup {Unsaid}]
    BY <1>0, <2>1 DEF StatsOK
  <2>4. flag' \in [Lines -> BOOLEAN]
    BY <2>1
  <2>5. StatsOK'
    BY <1>0, <2>2, <2>3, <2>4 DEF StatsOK
  <2>6. wrapped' \in BOOLEAN
    BY <1>0, <2>2, Zenon DEF ExitOK
  <2>7. clean' \in BOOLEAN
    <3>1. AlreadyLogged = TRUE \/ AlreadyLogged = FALSE
      BY Zenon DEF AlreadyLogged
    <3> QED BY <2>2, <3>1, Zenon
  <2>8. ExitOK'
    BY <1>0, <2>1, <2>2, <2>6, <2>7 DEF ExitOK
  <2> QED
    BY <1>0, <2>2, <2>5, <2>8, GroupsKept, TypedGroups
<1>2. CASE Flush
  <2>1. phase' = "done" /\ UNCHANGED << proxy, kernel, ids, op, capture, stats, orphaned, clean >>
    BY <1>2 DEF Flush
  <2>2. wrapped' \in BOOLEAN /\ clean' \in BOOLEAN
    <3>1. wrapped' = (Len(hist) > held)
      BY <1>2 DEF Flush
    <3>2. wrapped' = TRUE \/ wrapped' = FALSE
      BY <1>0, <3>1, LenProperties DEF CaptureOK
    <3>3. clean' \in BOOLEAN
      BY <1>0, <2>1, Zenon DEF ExitOK
    <3> QED BY <3>2, <3>3
  <2>3. file' \in Seq(Records)
    BY <1>0, <1>2, FlushedFile
  <2>4. ExitOK'
    BY <1>0, <2>1, <2>2, <2>3 DEF ExitOK
  <2> QED
    BY <1>0, <2>1, <2>4, GroupsKept, TypedGroups
<1> QED
  BY <1>1, <1>2

LEMMA TypedStep == Typed /\ [Next]_vars => Typed'
<1> SUFFICES ASSUME Typed, [Next]_vars PROVE Typed'
  OBVIOUS
<1>1. ASSUME NEW t \in Threads, NEW h \in Handles, Open(t, h) \/ CloseReal(t, h) PROVE Typed'
  BY <1>1, GameTyped
<1>2. ASSUME NEW t \in Threads, NEW h \in Handles, NEW peer \in Peers \cup {0},
             NEW seq \in BOOLEAN, Receive(t, h, peer, seq)
      PROVE  Typed'
  BY <1>2, GameTyped
<1>3. ASSUME NEW h \in Handles, Send(h) PROVE Typed'
  <2>1. /\ count' = [l \in Lines |-> IF l = "reorder" THEN count[l] ELSE count[l] + 1]
        /\ UNCHANGED << proxy, kernel, ids, op, capture, last, flag, written, p2p, exiting >>
    BY <1>3 DEF Send
  <2>2. ProxyOK /\ KernelOK /\ IdsOK /\ OpOK /\ CaptureOK /\ StatsOK /\ ExitOK
    BY TypedGroups
  <2>3. \A l \in Lines : count[l] \in Nat
    BY <2>2 DEF StatsOK
  <2>4. StatsOK'
    BY <2>1, <2>2, <2>3 DEF StatsOK
  <2> QED
    BY <2>1, <2>2, <2>4, GroupsKept, TypedGroups
<1>4. ASSUME NEW t \in Threads, Name(t) \/ LookUp(t) \/ Record(t) PROVE Typed'
  BY <1>4, CaptureTyped
<1>5. ASSUME NEW t \in Threads, Forget(t) \/ CloseReorder(t) \/ ClosePace(t) \/ Say(t)
      PROVE  Typed'
  BY <1>5, CloseTyped
<1>6. CASE Exit \/ Flush
  BY <1>6, EndTyped
<1>7. CASE UNCHANGED vars
  <2>1. UNCHANGED << proxy, kernel, ids, op, capture, stats, exiting >>
    BY <1>7 DEF vars, kernel, ids, capture, stats, exiting
  <2> QED
    BY <2>1, GroupsKept, TypedGroups
<1> QED
  BY <1>1, <1>2, <1>3, <1>4, <1>5, <1>6, <1>7 DEF Next

LEMMA TypedAlways == Spec => []Typed
BY TypedInit, TypedStep, PTL DEF Spec

\* The state keeps its type, and the table of socket ids its size, whatever
\* sockets the game opens and closes and wherever the exit finds the threads.
THEOREM TypeCorrect == Spec => []TypeOK
<1>1. Typed => TypeOK
  BY DEF Typed
<1> QED
  BY <1>1, TypedAlways, PTL

-----------------------------------------------------------------------------
(* No counter goes unreported                                               *)

\* A line that counts as logged has been said.
FlagMeansSaid == \A l \in Lines : flag[l] => written[l] # Unsaid

\* Only saying a line and the report at exit touch what the log says.
LEMMA SaidStep ==
  Typed /\ FlagMeansSaid /\ NothingUnreported /\ [Next]_vars => FlagMeansSaid' /\ NothingUnreported'
<1> SUFFICES ASSUME Typed, FlagMeansSaid, NothingUnreported, [Next]_vars
             PROVE  FlagMeansSaid' /\ NothingUnreported'
  OBVIOUS
<1>1. StatsOK /\ OpOK /\ ProxyOK
  BY TypedGroups
<1>2. ASSUME UNCHANGED << flag, written, phase, orphaned, clean, proxy >>
      PROVE  FlagMeansSaid' /\ NothingUnreported'
  BY <1>2 DEF FlagMeansSaid, NothingUnreported
<1>3. ASSUME NEW t \in Threads, Say(t) PROVE FlagMeansSaid' /\ NothingUnreported'
  <2> DEFINE o == op[t]
             line == Head(o.lines)
  <2>1. line[1] \in Lines /\ line[2] \in Nat
    <3>1. o \in Ops /\ o.at = "say"
      BY <1>1, <1>3 DEF OpOK, Say
    <3> HIDE DEF o
    <3>2. o.lines \in Seq(Lines \X Nat) /\ o.lines # << >>
      BY <3>1, OpShape
    <3>3. line \in Lines \X Nat
      BY <3>2, HeadTailProperties
    <3> HIDE DEF line
    <3> QED BY <3>3
  <2>2. /\ written' = [written EXCEPT ![line[1]] = line[2]] /\ flag' = [flag EXCEPT ![line[1]] = TRUE]
        /\ phase = "running" /\ phase' = phase
    BY <1>3 DEF Say, Running, exiting
  <2> HIDE DEF line
  <2>3. FlagMeansSaid'
    BY <1>1, <2>1, <2>2 DEF FlagMeansSaid, StatsOK, Unsaid
  <2> QED
    BY <2>2, <2>3 DEF NothingUnreported
<1>4. CASE Exit
  <2>1. PICK orphans \in SUBSET Locks :
          /\ orphaned' = orphans
          /\ written' = [l \in Lines |-> IF l \in Emitted(orphans) THEN count[l] ELSE written[l]]
          /\ flag' = [l \in Lines |-> l \in Emitted(orphans) \/ flag[l]]
          /\ phase' = IF HeldUp(orphans) THEN "stuck" ELSE "flush"
    BY <1>4 DEF Exit
  <2>2. proxy' = proxy /\ clean' = AlreadyLogged
    BY <1>4 DEF Exit
  <2>3. \A l \in Lines : l \in Emitted(orphans) => written'[l] # Unsaid
    BY <1>1, <2>1 DEF StatsOK, Unsaid
  <2>4. \A l \in Lines : l \notin Emitted(orphans) /\ flag[l] => written'[l] # Unsaid
    BY <2>1 DEF FlagMeansSaid
  <2>5. FlagMeansSaid'
    BY <2>1, <2>3, <2>4 DEF FlagMeansSaid
  <2>6. ASSUME NEW l \in Lines
        PROVE  \/ l \in Emitted(orphans) \/ flag[l] \/ LockOf(l) \in orphans
               \/ HeldUp(orphans)
               \/ l = "rtt" /\ (RttOn => proxy = "winmm" /\ AlreadyLogged)
    <3>1. CASE AlreadyLogged
      BY <1>1, <3>1 DEF AlreadyLogged, Lines, ProxyOK
    <3>2. CASE ~AlreadyLogged
      BY <3>2 DEF Emitted, Due
    <3> QED BY <3>1, <3>2
  <2>7. NothingUnreported'
    <3> SUFFICES ASSUME NEW l \in Lines
                 PROVE  \/ written'[l] # Unsaid \/ LockOf(l) \in orphaned'
                        \/ phase' = "stuck" /\ "log" \in orphaned'
                        \/ l = "rtt" /\ (RttOn => proxy' = "winmm" /\ clean')
      BY DEF NothingUnreported
    <3>1. HeldUp(orphans) => phase' = "stuck" /\ "log" \in orphaned'
      BY <2>1 DEF HeldUp
    <3> QED BY <2>1, <2>2, <2>3, <2>4, <2>6, <3>1
  <2> QED
    BY <2>5, <2>7
<1>5. CASE Flush
  <2>1. phase = "flush" /\ UNCHANGED << flag, written, orphaned, clean, proxy >>
    BY <1>5 DEF Flush, stats
  <2> QED
    BY <2>1 DEF FlagMeansSaid, NothingUnreported
<1>6. ASSUME NEW t \in Threads, NEW h \in Handles,
             \/ Open(t, h) \/ CloseReal(t, h) \/ Send(h) \/ Name(t) \/ LookUp(t) \/ Record(t)
             \/ Forget(t) \/ CloseReorder(t) \/ ClosePace(t)
             \/ \E peer \in Peers \cup {0}, seq \in BOOLEAN : Receive(t, h, peer, seq)
      PROVE  UNCHANGED << flag, written, phase, orphaned, clean, proxy >>
  BY <1>6 DEF Open, CloseReal, Send, Name, LookUp, Record, Forget, CloseReorder, ClosePace,
              Receive, stats, exiting
<1>7. CASE UNCHANGED vars
  BY <1>2, <1>7 DEF vars
<1>8. ASSUME NEW h \in Handles, Send(h) PROVE UNCHANGED << flag, written, phase, orphaned, clean, proxy >>
  BY <1>8 DEF Send, exiting
<1>9. ASSUME NEW t \in Threads, Name(t) \/ LookUp(t) \/ Record(t) \/ Forget(t) \/ CloseReorder(t) \/ ClosePace(t)
      PROVE  UNCHANGED << flag, written, phase, orphaned, clean, proxy >>
  BY <1>9 DEF Name, LookUp, Record, Forget, CloseReorder, ClosePace, stats, exiting
<1> QED
  BY <1>2, <1>3, <1>4, <1>5, <1>6, <1>7, <1>8, <1>9 DEF Next

\* No counter goes unreported (netcode_hooks.cpp:3265), wherever the exit
\* catches the threads in a close and whichever locks it orphans, for any
\* number of threads, sockets and locks: but for the counter whose lock is
\* orphaned, for the exit that waits for the log's, and for the sampler's in
\* Windows after a close has said the others.
THEOREM CountersReported == Spec => []NothingUnreported
<1>1. Init => FlagMeansSaid /\ NothingUnreported
  BY DEF Init, FlagMeansSaid, NothingUnreported
<1> QED
  BY <1>1, SaidStep, TypedAlways, PTL DEF Spec

-----------------------------------------------------------------------------
(* The file is the tail                                                     *)

\* The ring holds the last records: from the slot before head backwards, and when
\* it is full from the top on.
RingIsTail ==
  /\ held = IF Len(hist) < RingRecords THEN Len(hist) ELSE RingRecords
  /\ held < RingRecords => head = held
  /\ \A x \in 0 .. RingRecords - 1 :
       /\ x < head => ring[x] = hist[Len(hist) - head + x + 1]
       /\ x >= head /\ held = RingRecords =>
            ring[x] = hist[Len(hist) - RingRecords - head + x + 1]

\* A record goes over the oldest one.
LEMMA RecordedTail ==
  ASSUME Typed, RingIsTail, NEW t \in Threads, Record(t)
  PROVE  RingIsTail'
<1>1. /\ ring \in [0 .. RingRecords - 1 -> Records] /\ hist \in Seq(Records)
      /\ head \in 0 .. RingRecords - 1 /\ held \in 0 .. RingRecords
  BY DEF Typed, TypeOK
<1>2. CaptureOK'
  BY CaptureTyped, TypedGroups
<1>3. PICK rec : ring' = [ring EXCEPT ![head] = rec] /\ hist' = Append(hist, rec)
  BY DEF Record
<1>4. head' = (head + 1) % RingRecords /\ held' = IF held < RingRecords THEN held + 1 ELSE held
  BY DEF Record
<1>5. head' = IF head + 1 < RingRecords THEN head + 1 ELSE 0
  <2>1. head + 1 \in 0 .. 2 * RingRecords - 1
    BY <1>1
  <2> DEFINE y == head + 1
  <2>2. y % RingRecords = IF y < RingRecords THEN y ELSE y - RingRecords
    <3>1. y \in 0 .. 2 * RingRecords - 1
      BY <2>1
    <3> HIDE DEF y
    <3> QED BY <3>1, Wrap
  <2>3. head + 1 < RingRecords \/ head + 1 = RingRecords
    BY <1>1
  <2> QED
    BY <1>1, <1>4, <2>2, <2>3
<1> DEFINE n == Len(hist)
<1>6. n \in Nat /\ Len(hist') = n + 1
  <2>1. hist \in Seq(Records) /\ hist' \in Seq(Records)
    BY <1>1, <1>2 DEF CaptureOK
  <2>2. n \in Nat
    BY <2>1, LenProperties
  <2>3. Len(hist') = n + 1
    BY <1>3, <2>1
  <2> QED BY <2>2, <2>3
<1>7. hist'[n + 1] = rec /\ \A i \in 1 .. n : hist'[i] = hist[i]
  BY <1>1, <1>3
<1>8. held' = IF n + 1 < RingRecords THEN n + 1 ELSE RingRecords
  BY <1>4, <1>6 DEF RingIsTail
<1>9. held' < RingRecords => head' = held'
  BY <1>1, <1>4, <1>5, <1>6 DEF RingIsTail
<1> HIDE DEF n
<1>10. ASSUME NEW x \in 0 .. RingRecords - 1, x < head'
       PROVE  ring'[x] = hist'[Len(hist') - head' + x + 1]
  <2>1. head' = head + 1
    BY <1>1, <1>5, <1>10
  <2>2. CASE x = head
    <3>1. Len(hist') - head' + x + 1 = n + 1
      BY <1>1, <1>6, <2>1, <2>2
    <3> QED BY <1>1, <1>3, <1>7, <2>2, <3>1
  <2>3. CASE x # head
    <3>1. x < head /\ ring'[x] = ring[x]
      BY <1>1, <1>3, <1>10, <2>1, <2>3
    <3>2. ring[x] = hist[n - head + x + 1]
      BY <3>1 DEF RingIsTail, n
    <3>3. n - head + x + 1 \in 1 .. n
      BY <1>1, <1>6, <3>1 DEF RingIsTail, n
    <3>4. Len(hist') - head' + x + 1 = n - head + x + 1
      BY <1>1, <1>6, <2>1
    <3> QED BY <1>7, <3>1, <3>2, <3>3, <3>4
  <2> QED BY <2>2, <2>3
<1>11. ASSUME NEW x \in 0 .. RingRecords - 1, x >= head', held' = RingRecords
       PROVE  ring'[x] = hist'[Len(hist') - RingRecords - head' + x + 1]
  <2>1. CASE head + 1 < RingRecords
    <3>1. head' = head + 1 /\ held = RingRecords
      BY <1>1, <1>4, <1>5, <1>11, <2>1 DEF RingIsTail
    <3>2. ring'[x] = ring[x] /\ ring[x] = hist[n - RingRecords - head + x + 1]
      BY <1>1, <1>3, <1>11, <3>1 DEF RingIsTail, n
    <3>3. n - RingRecords - head + x + 1 \in 1 .. n
      BY <1>1, <1>6, <1>11, <3>1 DEF RingIsTail, n
    <3>4. Len(hist') - RingRecords - head' + x + 1 = n - RingRecords - head + x + 1
      BY <1>1, <1>6, <3>1
    <3> QED BY <1>7, <3>2, <3>3, <3>4
  <2>2. CASE head + 1 = RingRecords
    <3>1. head' = 0
      BY <1>1, <1>5, <2>2
    <3>2. CASE x = head
      <4>1. Len(hist') - RingRecords - head' + x + 1 = n + 1
        BY <1>1, <1>6, <2>2, <3>1, <3>2
      <4> QED BY <1>1, <1>3, <1>7, <3>2, <4>1
    <3>3. CASE x # head
      <4>1. x < head /\ ring'[x] = ring[x]
        BY <1>1, <1>3, <2>2, <3>3
      <4>2. ring[x] = hist[n - head + x + 1]
        BY <4>1 DEF RingIsTail, n
      <4>3. n - head + x + 1 \in 1 .. n
        BY <1>1, <1>6, <4>1 DEF RingIsTail, n
      <4>4. Len(hist') - RingRecords - head' + x + 1 = n - head + x + 1
        BY <1>1, <1>6, <2>2, <3>1
      <4> QED BY <1>7, <4>1, <4>2, <4>3, <4>4
    <3> QED BY <3>2, <3>3
  <2> QED BY <1>1, <2>1, <2>2
<1>12. held' = IF Len(hist') < RingRecords THEN Len(hist') ELSE RingRecords
  BY <1>6, <1>8
<1>13. ASSUME NEW x \in 0 .. RingRecords - 1
       PROVE  /\ x < head' => ring'[x] = hist'[Len(hist') - head' + x + 1]
              /\ x >= head' /\ held' = RingRecords =>
                   ring'[x] = hist'[Len(hist') - RingRecords - head' + x + 1]
  BY <1>10, <1>11
<1> QED
  BY <1>9, <1>12, <1>13 DEF RingIsTail

\* Flush writes the ring out from its oldest record.
LEMMA FlushedTail ==
  ASSUME Typed, RingIsTail, Flush
  PROVE  FileIsTail'
<1> DEFINE n == Len(hist)
           s == SubSeq(hist, n - held + 1, n)
<1>1. /\ ring \in [0 .. RingRecords - 1 -> Records] /\ hist \in Seq(Records)
      /\ head \in 0 .. RingRecords - 1 /\ held \in 0 .. RingRecords
      /\ n \in Nat
  BY LenProperties DEF Typed, TypeOK
<1>2. /\ file' \in Seq(Records) /\ Len(file') = held
      /\ \A i \in 1 .. held : Slot(i) \in 0 .. RingRecords - 1 /\ file'[i] = ring[Slot(i)]
  BY FlushedFile, TypedGroups
<1>3. held = IF n < RingRecords THEN n ELSE RingRecords
  BY DEF RingIsTail
<1>4. hist' = hist /\ wrapped' = (n > held)
  BY DEF Flush, capture
<1> HIDE DEF n
<1>5. ASSUME NEW i \in 1 .. held PROVE file'[i] = hist[n - held + i]
  <2> DEFINE x == Slot(i)
  <2>1. CASE held < RingRecords
    <3>1. head = held
      BY <2>1 DEF RingIsTail
    <3>2. Start = 0
      <4>1. head + RingRecords - held = RingRecords
        BY <1>1, <3>1
      <4>2. RingRecords \in 0 .. 2 * RingRecords - 1 /\ ~(RingRecords < RingRecords)
        OBVIOUS
      <4>3. RingRecords % RingRecords = 0
        BY <4>2, Wrap
      <4> QED BY <4>1, <4>3 DEF Start
    <3>3. x = i - 1
      <4> DEFINE y == Start + i - 1
      <4>1. y = i - 1 /\ y \in 0 .. 2 * RingRecords - 1 /\ y < RingRecords
        BY <1>1, <3>2
      <4> HIDE DEF y
      <4>2. y % RingRecords = y
        BY <4>1, Wrap
      <4> QED BY <4>1, <4>2 DEF Slot, y
    <3>4. x \in 0 .. RingRecords - 1 /\ x < head
      BY <1>1, <1>2, <3>1, <3>3
    <3> HIDE DEF x
    <3>5. ring[x] = hist[n - head + x + 1]
      BY <3>4 DEF RingIsTail, n
    <3>6. n - head + x + 1 = n - held + i
      BY <1>1, <3>1, <3>3
    <3>7. file'[i] = ring[x]
      BY <1>2 DEF x
    <3> QED BY <3>5, <3>6, <3>7
  <2>2. CASE held = RingRecords
    <3>1. Start = head
      <4>1. head + RingRecords - held = head /\ head \in 0 .. 2 * RingRecords - 1 /\ head < RingRecords
        BY <1>1, <2>2
      <4>2. head % RingRecords = head
        BY <4>1, Wrap
      <4> QED BY <4>1, <4>2 DEF Start
    <3>2. x = IF head + i - 1 < RingRecords THEN head + i - 1 ELSE head + i - 1 - RingRecords
      <4> DEFINE y == Start + i - 1
      <4>0. x = y % RingRecords
        BY Zenon DEF Slot
      <4> HIDE DEF x
      <4>1. y = head + i - 1 /\ y \in 0 .. 2 * RingRecords - 1
        BY <1>1, <3>1
      <4> HIDE DEF y
      <4>2. y % RingRecords = IF y < RingRecords THEN y ELSE y - RingRecords
        BY <4>1, Wrap
      <4>3. x = IF y < RingRecords THEN y ELSE y - RingRecords
        BY <4>0, <4>2, Zenon
      <4> QED BY <1>1, <4>1, <4>3
    <3>3. x \in 0 .. RingRecords - 1 /\ file'[i] = ring[x]
      BY <1>2
    <3> HIDE DEF x
    <3>4. CASE head + i - 1 < RingRecords
      <4>1. x = head + i - 1 /\ x >= head
        BY <1>1, <3>2, <3>4
      <4>2. ring[x] = hist[n - RingRecords - head + x + 1]
        BY <2>2, <3>3, <4>1 DEF RingIsTail, n
      <4>3. n - RingRecords - head + x + 1 = n - held + i
        BY <1>1, <2>2, <4>1
      <4> QED BY <3>3, <4>2, <4>3
    <3>5. CASE ~(head + i - 1 < RingRecords)
      <4>1. x = head + i - 1 - RingRecords /\ x < head
        BY <1>1, <3>2, <3>5
      <4>2. ring[x] = hist[n - head + x + 1]
        BY <3>3, <4>1 DEF RingIsTail, n
      <4>3. n - head + x + 1 = n - held + i
        BY <1>1, <2>2, <4>1
      <4> QED BY <3>3, <4>2, <4>3
    <3> QED BY <3>4, <3>5
  <2> QED BY <1>1, <2>1, <2>2
<1>6. file' = s
  <2>1. n - held + 1 \in 1 .. n + 1 /\ n \in n - held .. n
    BY <1>1, <1>3
  <2>2. s \in Seq(Records) /\ Len(s) = held /\ \A i \in 1 .. held : s[i] = hist[n - held + i]
    BY <1>1, <1>3, <2>1, SubSeqProperties DEF n
  <2> HIDE DEF s
  <2>3. \A i \in 1 .. held : file'[i] = s[i]
    BY <1>5, <2>2
  <2> QED BY <1>2, <2>2, <2>3, SeqEqual
<1>7. Len(file') = RingRecords \/ file' = hist
  <2>1. CASE n < RingRecords
    <3>1. held = n
      BY <1>3, <2>1
    <3>2. \A i \in 1 .. n : file'[i] = hist[i]
      BY <1>1, <1>5, <3>1
    <3> QED BY <1>1, <1>2, <3>1, <3>2, SeqEqual DEF n
  <2>2. CASE ~(n < RingRecords)
    BY <1>2, <1>3, <2>2
  <2> QED BY <2>1, <2>2
<1>8. wrapped' <=> Len(file') < Len(hist')
  BY <1>1, <1>2, <1>4 DEF n
<1>9. file' = SubSeq(hist', Len(hist') - Len(file') + 1, Len(hist'))
  BY <1>2, <1>4, <1>6, Zenon DEF n
<1> QED
  BY <1>4, <1>7, <1>8, <1>9, Zenon DEF FileIsTail

\* Only a record touches the ring, and only while the process runs.
LEMMA TailStep == Typed /\ RingIsTail /\ FileIsTail /\ [Next]_vars => RingIsTail' /\ FileIsTail'
<1> SUFFICES ASSUME Typed, RingIsTail, FileIsTail, [Next]_vars PROVE RingIsTail' /\ FileIsTail'
  OBVIOUS
<1>1. ASSUME UNCHANGED capture PROVE RingIsTail'
  BY <1>1, Zenon DEF RingIsTail, capture
<1>2. ASSUME Running, UNCHANGED exiting PROVE FileIsTail'
  BY <1>2 DEF FileIsTail, Running, exiting
<1>3. ASSUME NEW t \in Threads, NEW h \in Handles, Open(t, h) \/ CloseReal(t, h)
      PROVE  Running /\ UNCHANGED << capture, exiting >>
  BY <1>3 DEF Open, CloseReal
<1>4. ASSUME NEW t \in Threads, NEW h \in Handles, NEW peer \in Peers \cup {0},
             NEW seq \in BOOLEAN, Receive(t, h, peer, seq)
      PROVE  Running /\ UNCHANGED << capture, exiting >>
  BY <1>4 DEF Receive
<1>5. ASSUME NEW h \in Handles, Send(h) PROVE Running /\ UNCHANGED << capture, exiting >>
  BY <1>5 DEF Send
<1>6. ASSUME NEW t \in Threads,
             Name(t) \/ LookUp(t) \/ Forget(t) \/ CloseReorder(t) \/ ClosePace(t) \/ Say(t)
      PROVE  Running /\ UNCHANGED << capture, exiting >>
  BY <1>6 DEF Name, LookUp, Forget, CloseReorder, ClosePace, Say
<1>7. ASSUME NEW t \in Threads, Record(t) PROVE RingIsTail' /\ FileIsTail'
  <2>1. Running /\ UNCHANGED exiting
    BY <1>7 DEF Record
  <2> QED BY <1>2, <1>7, <2>1, RecordedTail
<1>8. CASE Exit
  <2>1. phase' \in {"flush", "stuck"} /\ UNCHANGED capture
    BY <1>8 DEF Exit
  <2> QED BY <1>1, <2>1 DEF FileIsTail
<1>9. CASE Flush
  <2>1. UNCHANGED capture
    BY <1>9 DEF Flush
  <2> QED BY <1>1, <1>9, <2>1, FlushedTail
<1>10. CASE UNCHANGED vars
  <2>1. UNCHANGED capture
    BY <1>10 DEF vars, capture
  <2>2. UNCHANGED << phase, file, hist, wrapped >>
    BY <1>10 DEF vars
  <2> QED BY <1>1, <2>1, <2>2, Zenon DEF FileIsTail
<1> QED
  BY <1>1, <1>2, <1>3, <1>4, <1>5, <1>6, <1>7, <1>8, <1>9, <1>10 DEF Next

\* The capture file holds the last events recorded, in their order and without a
\* gap ("the capture is the session TAIL", netcode_hooks.cpp:1176), and its meta
\* file says when older ones are missing, for any size of the ring.
THEOREM CaptureIsTail == Spec => []FileIsTail
<1>1. Init => RingIsTail /\ FileIsTail
  <2> SUFFICES ASSUME Init PROVE RingIsTail /\ FileIsTail
    OBVIOUS
  <2>1. Len(hist) = 0 /\ held = 0 /\ head = 0 /\ phase = "running"
    BY DEF Init
  <2>2. RingIsTail
    BY <2>1 DEF RingIsTail
  <2> QED BY <2>1, <2>2 DEF FileIsTail
<1> QED
  BY <1>1, TailStep, TypedAlways, PTL DEF Spec

-----------------------------------------------------------------------------
(* A socket id names one socket                                             *)

\* An event of socket n has the id s, in the capture or on its way there; some
\* thread is about to forget the id of the handle h.
Uses(s, n) ==
  \/ \E i \in DOMAIN hist : hist[i].sid = s /\ hist[i].n = n
  \/ \E t \in Threads : op[t].at = "record" /\ op[t].sid = s /\ op[t].n = n
Forgetting(h) == \E t \in Threads : op[t].at = "forget" /\ op[t].h = h
Ids == Nat \ {0}

\* An id that no race has spoiled names one socket; it was given out; and as
\* long as a handle has it, that socket is open under the handle, or the thread
\* that closed it is about to forget it.
OneSocket == \A s \in Ids \ raced : \A n, m \in Nat : Uses(s, n) /\ Uses(s, m) => n = m
Known == \A s \in Ids, n \in Nat : Uses(s, n) => s < nextId
Distinct == \A g, h \in DOMAIN track : track[g] = track[h] => g = h
CurrentAt(h) ==
  IF socket[h] = 0 THEN Forgetting(h) ELSE \A n \in Nat : Uses(track[h], n) => n = socket[h]
Current == \A h \in DOMAIN track : track[h] \notin raced => CurrentAt(h)
IdsInv == OneSocket /\ Known /\ Distinct /\ Current

\* What a step that makes no id may do: drop users, and spoil ids.
Fewer == \A s \in Ids, n \in Nat : Uses(s, n)' => Uses(s, n)

LEMMA TrackedIds ==
  ASSUME TypeOK, NEW g \in DOMAIN track
  PROVE  track[g] \in Ids /\ track[g] < nextId
<1>1. track[g] \in 1 .. nextId - 1 /\ nextId \in Nat
  BY DEF TypeOK
<1> QED
  BY <1>1 DEF Ids

\* A thread that goes on to anything but a record with an id.
LEMMA MoveUses ==
  ASSUME OpOK, NEW t \in Threads, NEW o, op' = [op EXCEPT ![t] = o], hist' = hist,
         o.at = "record" => o.sid = 0
  PROVE  /\ Fewer
         /\ op[t].at # "forget" => \A h : Forgetting(h) => Forgetting(h)'
<1>1. /\ op'[t] = o
      /\ \A u \in Threads : u # t => op'[u] = op[u]
  BY DEF OpOK
<1>2. Fewer
  <2> SUFFICES ASSUME NEW s \in Ids, NEW n \in Nat, Uses(s, n)' PROVE Uses(s, n)
    BY DEF Fewer
  <2>1. CASE \E i \in DOMAIN hist' : hist'[i].sid = s /\ hist'[i].n = n
    BY <2>1 DEF Uses
  <2>2. ASSUME NEW u \in Threads, op'[u].at = "record" /\ op'[u].sid = s /\ op'[u].n = n
        PROVE  Uses(s, n)
    <3>1. u # t
      BY <1>1, <2>2 DEF Ids
    <3> QED BY <1>1, <2>2, <3>1 DEF Uses
  <2> QED BY <2>1, <2>2 DEF Uses
<1>3. ASSUME op[t].at # "forget", NEW h, Forgetting(h) PROVE Forgetting(h)'
  <2>1. PICK u \in Threads : op[u].at = "forget" /\ op[u].h = h
    BY <1>3 DEF Forgetting
  <2>2. op'[u] = op[u]
    BY <1>1, <1>3, <2>1
  <2> QED BY <2>1, <2>2 DEF Forgetting
<1> QED
  BY <1>2, <1>3

\* A step that leaves the kernel and the ids alone.
LEMMA FewerKeep ==
  ASSUME Typed, IdsInv, UNCHANGED << socket, ids >>, Fewer,
         \A h : Forgetting(h) => Forgetting(h)'
  PROVE  IdsInv'
<1>1. UNCHANGED << socket, track, nextId, raced >>
  BY DEF ids
<1>2. OneSocket'
  BY <1>1 DEF OneSocket, IdsInv, Fewer
<1>3. Known'
  BY <1>1 DEF Known, IdsInv, Fewer
<1>4. Distinct'
  BY <1>1 DEF Distinct, IdsInv
<1>5. Current'
  <2> SUFFICES ASSUME NEW h \in DOMAIN track, track[h] \notin raced PROVE CurrentAt(h)'
    BY <1>1 DEF Current
  <2>1. CurrentAt(h)
    BY DEF Current, IdsInv
  <2>2. track[h] \in Ids
    BY TrackedIds DEF Typed
  <2> QED BY <1>1, <2>1, <2>2 DEF CurrentAt, Fewer
<1> QED
  BY <1>2, <1>3, <1>4, <1>5 DEF IdsInv

\* A look-up for an event of socket n.
LEMMA LookUpKeepsIds ==
  ASSUME Typed, IdsInv, NEW h \in Handles, NEW n \in Nat \ {0}, GetSocketId(h, n),
         socket' = socket,
         \A g : Forgetting(g) => Forgetting(g)',
         \A s \in Ids, m \in Nat : Uses(s, m)' => Uses(s, m) \/ (s = IdOf(h) /\ m = n)
  PROVE  IdsInv'
<1> DEFINE id == IdOf(h)
<1>1. /\ track \in [DOMAIN track -> 1 .. nextId - 1] /\ nextId \in Nat \ {0}
      /\ \A g \in DOMAIN track : track[g] \in Ids /\ track[g] < nextId
  BY TrackedIds DEF Typed, TypeOK
<1>2. /\ track' = Tracked(h)
      /\ nextId' = IF Tracked(h) = track THEN nextId ELSE nextId + 1
      /\ raced' = IF socket[h] = n THEN raced ELSE raced \cup {id}
  BY DEF GetSocketId
<1>3. raced \subseteq raced' /\ (id \notin raced' => socket[h] = n)
  BY <1>2
<1>4. CASE id = 0
  <2>1. track' = track /\ nextId' = nextId
    <3>1. CASE Tracked(h) = track
      BY <1>2, <3>1
    <3>2. CASE Tracked(h) # track
      <4>1. Tracked(h) = [g \in DOMAIN track \cup {h} |-> IF g = h THEN nextId ELSE track[g]]
        BY <3>2 DEF Tracked
      <4>2. id = nextId
        BY <4>1 DEF IdOf
      <4> QED BY <1>1, <1>4, <4>2
    <3> QED BY <3>1, <3>2
  <2>2. Fewer
    BY <1>4 DEF Fewer, Ids
  <2>3. OneSocket' /\ Known' /\ Distinct'
    BY <1>3, <2>1, <2>2 DEF OneSocket, Known, Distinct, IdsInv, Fewer
  <2>4. Current'
    <3> SUFFICES ASSUME NEW g \in DOMAIN track, track[g] \notin raced PROVE CurrentAt(g)'
      BY <1>3, <2>1 DEF Current
    <3>1. CurrentAt(g) /\ track[g] \in Ids
      BY <1>1 DEF Current, IdsInv
    <3> QED BY <2>1, <2>2, <3>1 DEF CurrentAt, Fewer
  <2> QED BY <2>3, <2>4 DEF IdsInv
<1>5. CASE id # 0
  <2>1. /\ id \in Ids /\ id < nextId' /\ nextId <= nextId'
        /\ DOMAIN track \subseteq DOMAIN track' /\ DOMAIN track' = DOMAIN track \cup {h}
        /\ \A g \in DOMAIN track' : IF g = h THEN track'[g] = id ELSE track'[g] = track[g] /\ track[g] # id
        /\ \A m \in Nat : Uses(id, m) /\ id \notin raced' => m = n
    <3>1. CASE Tracked(h) = track
      <4>1. h \in DOMAIN track /\ id = track[h] /\ track' = track /\ nextId' = nextId
        BY <1>2, <1>5, <3>1 DEF IdOf
      <4> HIDE DEF id
      <4>2. id \in Ids /\ id < nextId' /\ nextId <= nextId'
        BY <1>1, <4>1
      <4>3. \A g \in DOMAIN track : g # h => track[g] # id
        BY <4>1 DEF Distinct, IdsInv
      <4>4. ASSUME NEW m \in Nat, Uses(id, m), id \notin raced' PROVE m = n
        <5>1. socket[h] = n /\ id \notin raced
          BY <1>3, <4>4
        <5>2. CurrentAt(h)
          BY <4>1, <5>1 DEF Current, IdsInv
        <5> QED BY <4>1, <4>4, <5>1, <5>2 DEF CurrentAt
      <4> QED BY <4>1, <4>2, <4>3, <4>4
    <3>2. CASE Tracked(h) # track
      <4>1. /\ Tracked(h) = [g \in DOMAIN track \cup {h} |-> IF g = h THEN nextId ELSE track[g]]
            /\ h \notin DOMAIN track
        BY <3>2 DEF Tracked
      <4>2. id = nextId /\ nextId' = nextId + 1
        BY <1>2, <3>2, <4>1 DEF IdOf
      <4> HIDE DEF id
      <4>3. id \in Ids /\ id < nextId' /\ nextId <= nextId'
        BY <1>1, <4>2 DEF Ids
      <4>4. \A g \in DOMAIN track : track[g] # id
        BY <1>1, <4>2 DEF Ids
      <4>5. \A m \in Nat : ~Uses(id, m)
        BY <1>1, <4>2, <4>3 DEF Known, IdsInv
      <4>6. /\ DOMAIN track' = DOMAIN track \cup {h} /\ track'[h] = id
            /\ \A g \in DOMAIN track : track'[g] = track[g]
        BY <1>2, <4>1, <4>2
      <4> QED BY <4>1, <4>3, <4>4, <4>5, <4>6
    <3> QED BY <3>1, <3>2
  <2>2. \A s \in Ids, m \in Nat : Uses(s, m)' => Uses(s, m) \/ (s = id /\ m = n)
    OBVIOUS
  <2> HIDE DEF id
  <2>3. OneSocket'
    <3> SUFFICES ASSUME NEW s \in Ids, s \notin raced', NEW k \in Nat, NEW m \in Nat,
                        Uses(s, k)', Uses(s, m)'
                 PROVE  k = m
      BY DEF OneSocket
    <3>1. CASE s = id
      BY <2>1, <2>2, <3>1
    <3>2. CASE s # id
      <4>1. Uses(s, k) /\ Uses(s, m) /\ s \notin raced
        BY <1>3, <2>2, <3>2
      <4> QED BY <4>1 DEF OneSocket, IdsInv
    <3> QED BY <3>1, <3>2
  <2>4. Known'
    <3> SUFFICES ASSUME NEW s \in Ids, NEW m \in Nat, Uses(s, m)' PROVE s < nextId'
      BY DEF Known
    <3>1. CASE Uses(s, m)
      <4>1. s < nextId
        BY <3>1 DEF Known, IdsInv
      <4>2. s \in Nat /\ nextId \in Nat /\ nextId' \in Nat
        BY <1>1, <1>2 DEF Ids
      <4> QED BY <2>1, <4>1, <4>2
    <3> QED BY <2>1, <2>2, <3>1
  <2>5. Distinct'
    BY <2>1 DEF Distinct, IdsInv
  <2>6. Current'
    <3> SUFFICES ASSUME NEW g \in DOMAIN track', track'[g] \notin raced' PROVE CurrentAt(g)'
      BY DEF Current
    <3>1. CASE g = h
      <4>1. track'[g] = id /\ socket'[g] = n /\ n # 0 /\ id \notin raced'
        BY <1>3, <2>1, <3>1
      <4>2. PICK s \in Ids : s = id
        BY <2>1
      <4>3. \A m \in Nat : Uses(s, m)' => m = n
        BY <2>1, <2>2, <4>1, <4>2
      <4>4. track'[g] = s /\ socket'[g] # 0
        BY <4>1, <4>2
      <4> QED BY <4>1, <4>3, <4>4 DEF CurrentAt
    <3>2. CASE g # h
      <4>1. g \in DOMAIN track /\ track'[g] = track[g] /\ track[g] # id /\ track[g] \notin raced
        BY <1>3, <2>1, <3>2
      <4>2. CurrentAt(g) /\ track[g] \in Ids
        BY <1>1, <4>1 DEF Current, IdsInv
      <4>3. \A m \in Nat : Uses(track[g], m)' => Uses(track[g], m)
        BY <2>2, <4>1, <4>2
      <4> QED BY <4>1, <4>2, <4>3 DEF CurrentAt
    <3> QED BY <3>1, <3>2
  <2> QED BY <2>3, <2>4, <2>5, <2>6 DEF IdsInv
<1> QED
  BY <1>4, <1>5

\* After the lines under a lock comes no record.
LEMMA SayingGoesOn ==
  ASSUME NEW h, NEW lines, NEW next \in Nexts
  PROVE  Saying(h, lines, next).at \notin {"record", "forget"}
BY DEF Saying, Nexts, Idle

\* A socket opens, or closes under its handle, which a thread is then to forget.
LEMMA KernelIds ==
  ASSUME Typed, IdsInv, NEW t \in Threads, NEW h \in Handles, Open(t, h) \/ CloseReal(t, h)
  PROVE  IdsInv'
<1>1. /\ socket \in [Handles -> Nat] /\ opened \in Nat /\ OpOK
      /\ \A g \in DOMAIN track : track[g] \in Ids /\ track[g] < nextId /\ g \in Handles
  BY TrackedIds DEF Typed, TypeOK, OpOK
<1>2. /\ op[t] = Idle /\ op[t].at # "forget"
      /\ UNCHANGED << track, nextId, hist >>
  BY DEF Open, CloseReal, Idle, ids, capture
<1>3. /\ raced \subseteq raced'
      /\ \A g \in Handles : g # h => socket'[g] = socket[g]
  BY <1>1 DEF Open, CloseReal, ids
<1>4. Fewer /\ \A g : Forgetting(g) => Forgetting(g)'
  <2>1. CASE Open(t, h)
    <3> DEFINE o == IF proxy = "dsound" THEN [at |-> "name", h |-> h, n |-> opened + 1] ELSE Idle
    <3>1. op' = [op EXCEPT ![t] = o]
      BY <2>1 DEF Open
    <3>2. o.at # "record"
      BY DEF Idle
    <3> HIDE DEF o
    <3> QED BY <1>1, <1>2, <3>1, <3>2, MoveUses
  <2>2. CASE CloseReal(t, h)
    <3> DEFINE o == [at |-> "forget", h |-> h]
    <3>1. op' = [op EXCEPT ![t] = o]
      BY <2>2 DEF CloseReal
    <3>2. o.at # "record"
      OBVIOUS
    <3> HIDE DEF o
    <3> QED BY <1>1, <1>2, <3>1, <3>2, MoveUses
  <2> QED BY <2>1, <2>2
<1>5. OneSocket' /\ Known' /\ Distinct'
  BY <1>2, <1>3, <1>4 DEF OneSocket, Known, Distinct, IdsInv, Fewer
<1>6. Current'
  <2> SUFFICES ASSUME NEW g \in DOMAIN track, track[g] \notin raced' PROVE CurrentAt(g)'
    BY <1>2 DEF Current
  <2>1. CurrentAt(g) /\ track[g] \notin raced
    BY <1>3 DEF Current, IdsInv
  <2>2. CASE g # h
    <3>1. socket'[g] = socket[g] /\ track'[g] = track[g]
      BY <1>1, <1>2, <1>3, <2>2
    <3>2. \A n \in Nat : Uses(track[g], n)' => Uses(track[g], n)
      BY <1>1, <1>2, <1>4 DEF Fewer
    <3> QED BY <1>2, <1>4, <2>1, <3>1, <3>2 DEF CurrentAt
  <2>3. CASE g = h
    <3>1. CASE Open(t, h)
      <4>1. socket[h] = 0 /\ ~Forgetting(h)
        BY <2>3, <3>1 DEF Open, Forgetting
      <4> QED BY <2>1, <2>3, <4>1 DEF CurrentAt
    <3>2. CASE CloseReal(t, h)
      <4>1. op'[t] = [at |-> "forget", h |-> h] /\ socket'[h] = 0
        BY <1>1, <3>2 DEF CloseReal, OpOK
      <4>2. Forgetting(h)'
        BY <4>1 DEF Forgetting
      <4> QED BY <2>3, <4>1, <4>2 DEF CurrentAt
    <3> QED BY <3>1, <3>2
  <2> QED BY <2>2, <2>3
<1> QED
  BY <1>5, <1>6 DEF IdsInv

\* The thread that closed a socket forgets its id; another handle's id is still
\* forgotten by another thread.
LEMMA ForgetIds ==
  ASSUME Typed, IdsInv, NEW t \in Threads, Forget(t)
  PROVE  IdsInv'
<1> DEFINE h == op[t].h
           o == [op[t] EXCEPT !.at = "reorder"]
<1>1. /\ op' = [op EXCEPT ![t] = o] /\ op[t].at = "forget" /\ OpOK
      /\ UNCHANGED << socket, nextId, raced, hist >>
      /\ track' = [g \in DOMAIN track \ {h} |-> track[g]]
  BY DEF Forget, Typed, TypeOK, OpOK, kernel, capture
<1>2. \A g \in DOMAIN track' : g \in DOMAIN track /\ track'[g] = track[g] /\ g # h
  BY <1>1
<1>3. o.at = "reorder"
  <2>1. op[t] \in Ops
    BY <1>1 DEF OpOK
  <2> QED BY <1>1, <2>1, OpEdits
<1> HIDE DEF o
<1>4. Fewer
  BY <1>1, <1>3, MoveUses
<1>5. ASSUME NEW g, Forgetting(g), g # h PROVE Forgetting(g)'
  <2>1. PICK u \in Threads : op[u].at = "forget" /\ op[u].h = g
    BY <1>5 DEF Forgetting
  <2>2. op'[u] = op[u]
    BY <1>1, <1>5, <2>1 DEF OpOK
  <2> QED BY <2>1, <2>2 DEF Forgetting
<1> HIDE DEF h
<1>6. OneSocket' /\ Known'
  BY <1>1, <1>4 DEF OneSocket, Known, IdsInv, Fewer
<1>7. Distinct'
  BY <1>2 DEF Distinct, IdsInv
<1>8. Current'
  <2> SUFFICES ASSUME NEW g \in DOMAIN track', track'[g] \notin raced' PROVE CurrentAt(g)'
    BY DEF Current
  <2>1. /\ g \in DOMAIN track /\ track'[g] = track[g] /\ g # h
        /\ track[g] \notin raced /\ socket'[g] = socket[g]
    BY <1>1, <1>2
  <2>2. CurrentAt(g) /\ track[g] \in Ids
    BY <2>1, TrackedIds DEF Current, IdsInv, Typed
  <2>3. \A n \in Nat : Uses(track[g], n)' => Uses(track[g], n)
    BY <1>4, <2>1, <2>2 DEF Fewer
  <2> QED BY <1>5, <2>1, <2>2, <2>3 DEF CurrentAt
<1> QED
  BY <1>6, <1>7, <1>8 DEF IdsInv

\* An id is looked up for a new socket, for an event before it is recorded, or
\* while it is.
LEMMA LookUpIds ==
  ASSUME Typed, IdsInv, NEW t \in Threads, Name(t) \/ LookUp(t) \/ Record(t)
  PROVE  IdsInv'
<1> DEFINE o == op[t]
<1>1. OpOK /\ o \in Ops /\ o.at \in {"name", "lookup", "record"} /\ o.at # "forget"
  BY DEF Typed, TypeOK, OpOK, Name, LookUp, Record
<1>2. o.h \in Handles /\ o.n \in Nat \ {0}
  <2> HIDE DEF o
  <2> QED BY <1>1, OpShape
<1>3. socket' = socket
  BY DEF Name, LookUp, Record, kernel
<1>4. CASE Name(t)
  <2>1. op' = [op EXCEPT ![t] = Idle] /\ hist' = hist /\ GetSocketId(o.h, o.n)
    BY <1>4 DEF Name, capture
  <2>2. Idle.at # "record"
    BY DEF Idle
  <2>3. Fewer /\ \A g : Forgetting(g) => Forgetting(g)'
    BY <1>1, <2>1, <2>2, MoveUses
  <2> HIDE DEF o
  <2> QED BY <1>2, <1>3, <2>1, <2>3, LookUpKeepsIds DEF Fewer
<1>5. CASE LookUp(t)
  <2> DEFINE id == IdOf(o.h)
             r == [o EXCEPT !.at = "record", !.sid = id]
  <2>1. op' = [op EXCEPT ![t] = r] /\ hist' = hist /\ GetSocketId(o.h, o.n) /\ o.at = "lookup"
    <3>1. op' = [op EXCEPT ![t] = [@ EXCEPT !.at = "record", !.sid = IdOf(op[t].h)]]
      BY <1>5 DEF LookUp
    <3> QED BY <1>5, <3>1 DEF LookUp, capture
  <2> HIDE DEF o
  <2>2. id \in Nat
    BY <1>2, <2>1, LookUpKeeps
  <2> HIDE DEF id
  <2>3. r.at = "record" /\ r.h = o.h /\ r.n = o.n /\ r.sid = id
    <3>1. o \in [at : {"lookup", "record"}, h : Handles, n : Nat \ {0}, sid : Nat]
      BY <1>1, <2>1 DEF Ops, Idle
    <3> QED BY <2>2, <3>1
  <2> HIDE DEF r
  <2>4. op'[t] = r /\ \A u \in Threads : u # t => op'[u] = op[u]
    BY <1>1, <2>1 DEF OpOK
  <2>5. ASSUME NEW s \in Ids, NEW m \in Nat, Uses(s, m)'
        PROVE  Uses(s, m) \/ (s = id /\ m = o.n)
    <3>1. CASE \E i \in DOMAIN hist' : hist'[i].sid = s /\ hist'[i].n = m
      BY <2>1, <3>1 DEF Uses
    <3>2. ASSUME NEW u \in Threads, op'[u].at = "record" /\ op'[u].sid = s /\ op'[u].n = m
          PROVE  Uses(s, m) \/ (s = id /\ m = o.n)
      BY <2>3, <2>4, <3>2 DEF Uses
    <3> QED BY <2>5, <3>1, <3>2 DEF Uses
  <2>6. ASSUME NEW g, Forgetting(g) PROVE Forgetting(g)'
    <3>1. PICK u \in Threads : op[u].at = "forget" /\ op[u].h = g
      BY <2>6 DEF Forgetting
    <3>2. u # t
      BY <1>1, <3>1 DEF o
    <3> QED BY <2>4, <3>1, <3>2 DEF Forgetting
  <2> QED BY <1>2, <1>3, <2>1, <2>5, <2>6, LookUpKeepsIds DEF id
<1>6. CASE Record(t)
  <2> DEFINE id == IF proxy = "dsound" THEN o.sid ELSE IdOf(o.h)
             rec == [seq |-> Len(hist), n |-> o.n, sid |-> id]
  <2>1. /\ op' = [op EXCEPT ![t] = Idle] /\ hist' = Append(hist, rec) /\ o.at = "record"
        /\ IF proxy = "dsound" THEN UNCHANGED ids ELSE GetSocketId(o.h, o.n)
        /\ hist \in Seq(Records)
    BY <1>6 DEF Record, Typed, TypeOK
  <2>2. op'[t] = Idle /\ \A u \in Threads : u # t => op'[u] = op[u]
    BY <1>1, <2>1 DEF OpOK
  <2>3. \A i \in DOMAIN hist' : hist'[i] = rec \/ (i \in DOMAIN hist /\ hist'[i] = hist[i])
    <3> HIDE DEF rec
    <3> QED BY <2>1
  <2>4. rec.sid = id /\ rec.n = o.n
    OBVIOUS
  <2> HIDE DEF rec, id
  <2>5. ASSUME NEW s \in Ids, NEW m \in Nat, Uses(s, m)'
        PROVE  Uses(s, m) \/ (s = id /\ m = o.n)
    <3>1. ASSUME NEW i \in DOMAIN hist', hist'[i].sid = s /\ hist'[i].n = m
          PROVE  Uses(s, m) \/ (s = id /\ m = o.n)
      BY <2>3, <2>4, <3>1 DEF Uses
    <3>2. ASSUME NEW u \in Threads, op'[u].at = "record" /\ op'[u].sid = s /\ op'[u].n = m
          PROVE  Uses(s, m)
      <4>1. u # t
        BY <2>2, <3>2 DEF Idle
      <4> QED BY <2>2, <3>2, <4>1 DEF Uses
    <3> QED BY <2>5, <3>1, <3>2 DEF Uses
  <2>6. ASSUME NEW g, Forgetting(g) PROVE Forgetting(g)'
    <3>1. PICK u \in Threads : op[u].at = "forget" /\ op[u].h = g
      BY <2>6 DEF Forgetting
    <3>2. u # t
      BY <1>1, <3>1
    <3> QED BY <2>2, <3>1, <3>2 DEF Forgetting
  <2>7. CASE proxy = "dsound"
    <3>1. Uses(id, o.n) /\ id = o.sid
      BY <2>1, <2>7 DEF Uses, id
    <3>2. Fewer
      BY <2>5, <3>1 DEF Fewer
    <3> QED BY <1>3, <2>1, <2>6, <2>7, <3>2, FewerKeep
  <2>8. CASE proxy # "dsound"
    <3>1. id = IdOf(o.h) /\ GetSocketId(o.h, o.n)
      BY <2>1, <2>8 DEF id
    <3> HIDE DEF o
    <3> QED BY <1>2, <1>3, <2>5, <2>6, <3>1, LookUpKeepsIds
  <2> QED BY <2>7, <2>8
<1> QED
  BY <1>4, <1>5, <1>6

LEMMA IdsStep == Typed /\ IdsInv /\ [Next]_vars => IdsInv'
<1> SUFFICES ASSUME Typed, IdsInv, [Next]_vars PROVE IdsInv'
  OBVIOUS
<1>0. OpOK
  BY TypedGroups
<1>1. ASSUME NEW t \in Threads, NEW h \in Handles, Open(t, h) \/ CloseReal(t, h) PROVE IdsInv'
  BY <1>1, KernelIds
<1>2. ASSUME NEW t \in Threads, NEW h \in Handles, NEW peer \in Peers \cup {0},
             NEW seq \in BOOLEAN, Receive(t, h, peer, seq)
      PROVE  IdsInv'
  <2> DEFINE at == IF proxy = "dsound" THEN "lookup" ELSE "record"
             r == [at |-> at, h |-> h, n |-> socket[h], sid |-> 0]
             o == IF Accepts(peer) THEN r ELSE Idle
  <2>1. /\ op' = [op EXCEPT ![t] = o] /\ op[t] = Idle
        /\ UNCHANGED << kernel, ids, capture >>
    BY <1>2 DEF Receive
  <2>2. o.at = "record" => o.sid = 0
    BY DEF Idle
  <2>3. op[t].at # "forget" /\ UNCHANGED << socket, ids, hist >>
    BY <2>1 DEF Idle, kernel, capture
  <2> HIDE DEF o
  <2>4. Fewer /\ \A g : Forgetting(g) => Forgetting(g)'
    BY <1>0, <2>1, <2>2, <2>3, MoveUses
  <2> QED BY <2>3, <2>4, FewerKeep
<1>3. ASSUME UNCHANGED << op, hist, socket, ids >> PROVE IdsInv'
  <2>1. Fewer /\ \A g : Forgetting(g) => Forgetting(g)'
    BY <1>3 DEF Fewer, Uses, Forgetting
  <2> QED BY <1>3, <2>1, FewerKeep
<1>4. ASSUME NEW t \in Threads, Name(t) \/ LookUp(t) \/ Record(t) PROVE IdsInv'
  BY <1>4, LookUpIds
<1>5. ASSUME NEW t \in Threads, Forget(t) PROVE IdsInv'
  BY <1>5, ForgetIds
<1>6. ASSUME NEW t \in Threads, CloseReorder(t) \/ ClosePace(t) \/ Say(t) PROVE IdsInv'
  <2>1. PICK next \in Nexts : \E lines : op' = [op EXCEPT ![t] = Saying(op[t].h, lines, next)]
    <3>1. CASE CloseReorder(t)
      <4> DEFINE lines == IF op[t].h = p2p THEN << << "reorder", count["reorder"] >> >> ELSE << >>
                 next == [at |-> "pace", h |-> op[t].h]
      <4>1. op' = [op EXCEPT ![t] = Saying(op[t].h, lines, next)]
        <5>1. op' = [op EXCEPT ![t] =
                Saying(@.h, IF @.h = p2p THEN << << "reorder", count["reorder"] >> >> ELSE << >>,
                       [at |-> "pace", h |-> @.h])]
          BY <3>1 DEF CloseReorder
        <5> QED BY <5>1
      <4>2. next \in Nexts
        <5>1. op[t] \in Ops /\ op[t].at = "reorder"
          BY <1>0, <3>1 DEF CloseReorder, OpOK
        <5>2. op[t].h \in Handles
          BY <5>1, OpShape
        <5> QED BY <5>2, OpMade
      <4> HIDE DEF lines, next
      <4> QED BY <4>1, <4>2
    <3>2. CASE ClosePace(t)
      <4> DEFINE lines == Unrepeated("send") \o Unrepeated("dampen")
      <4>1. op' = [op EXCEPT ![t] = Saying(op[t].h, lines, Idle)]
        <5>1. op' = [op EXCEPT ![t] = Saying(@.h, Unrepeated("send") \o Unrepeated("dampen"), Idle)]
          BY <3>2 DEF ClosePace
        <5> QED BY <5>1
      <4>2. Idle \in Nexts
        BY DEF Nexts
      <4> HIDE DEF lines
      <4> QED BY <4>1, <4>2
    <3>3. CASE Say(t)
      <4> DEFINE lines == Tail(op[t].lines)
                 next == op[t].next
      <4>1. op' = [op EXCEPT ![t] = Saying(op[t].h, lines, next)]
        <5>1. op' = [op EXCEPT ![t] = Saying(@.h, Tail(@.lines), @.next)]
          BY <3>3 DEF Say
        <5> QED BY <5>1
      <4>2. next \in Nexts
        <5>1. op[t] \in Ops /\ op[t].at = "say"
          BY <1>0, <3>3 DEF Say, OpOK
        <5> QED BY <5>1, OpShape
      <4> HIDE DEF lines, next
      <4> QED BY <4>1, <4>2
    <3> QED BY <1>6, <3>1, <3>2, <3>3
  <2>l. PICK lines : op' = [op EXCEPT ![t] = Saying(op[t].h, lines, next)]
    BY <2>1
  <2> DEFINE o == Saying(op[t].h, lines, next)
  <2>2. o.at \notin {"record", "forget"}
    BY SayingGoesOn
  <2>3. op' = [op EXCEPT ![t] = o]
    BY <2>l
  <2> HIDE DEF o
  <2>4. op[t].at # "forget" /\ UNCHANGED << socket, ids, hist >>
    BY <1>6 DEF CloseReorder, ClosePace, Say, kernel, capture
  <2>5. Fewer /\ \A g : Forgetting(g) => Forgetting(g)'
    BY <1>0, <2>2, <2>3, <2>4, MoveUses
  <2> QED BY <2>4, <2>5, FewerKeep
<1>7. ASSUME NEW h \in Handles, Send(h) PROVE IdsInv'
  BY <1>3, <1>7 DEF Send, kernel, capture
<1>8. CASE Exit \/ Flush
  BY <1>3, <1>8 DEF Exit, Flush, kernel, capture
<1>9. CASE UNCHANGED vars
  BY <1>3, <1>9 DEF vars, ids
<1> QED
  BY <1>1, <1>2, <1>4, <1>5, <1>6, <1>7, <1>8, <1>9 DEF Next

\* Two records with the same socket id are of one socket, but for the ids of the
\* two races that are counted ("a stale entry would then mislabel a new socket's
\* buffer-log records", netcode_hooks.cpp:1653), for any number of threads,
\* handles and sockets and any size of the table.
THEOREM IdsNameOneSocket == Spec => []SidNamesOneSocket
<1>1. Init => IdsInv
  <2> SUFFICES ASSUME Init PROVE IdsInv
    OBVIOUS
  <2>1. DOMAIN track = {} /\ DOMAIN hist = {} /\ \A t \in Threads : op[t].at = "idle"
    BY DEF Init, Idle
  <2>2. \A s \in Ids, n \in Nat : ~Uses(s, n)
    BY <2>1 DEF Uses
  <2> QED BY <2>1, <2>2 DEF IdsInv, OneSocket, Known, Distinct, Current
<1>2. Typed /\ IdsInv => SidNamesOneSocket
  <2> SUFFICES ASSUME Typed, IdsInv, NEW i \in DOMAIN hist, NEW j \in DOMAIN hist,
                      hist[i].sid = hist[j].sid, hist[i].sid \notin raced \cup {0}
               PROVE  hist[i].n = hist[j].n
    BY DEF SidNamesOneSocket
  <2> DEFINE s == hist[i].sid
  <2>1. hist[i] \in Records /\ hist[j] \in Records
    BY SMTT(30) DEF Typed, TypeOK
  <2>2. s \in Ids \ raced /\ hist[i].n \in Nat /\ hist[j].n \in Nat
    BY <2>1 DEF Records, Ids
  <2>3. Uses(s, hist[i].n) /\ Uses(s, hist[j].n)
    BY DEF Uses
  <2> HIDE DEF s
  <2> QED BY <2>2, <2>3 DEF OneSocket, IdsInv
<1> QED
  BY <1>1, <1>2, IdsStep, TypedAlways, PTL DEF Spec
=============================================================================
