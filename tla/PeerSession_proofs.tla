------------------------ MODULE PeerSession_proofs -------------------------
(***************************************************************************)
(* What the hooks remember of the peers is true: the damper drops no first *)
(* transmission and nothing the network has not just been given, takes no  *)
(* live retry for a restart, the sampler measures the copy that was        *)
(* acknowledged, and a session leaves nothing behind.                      *)
(***************************************************************************)
EXTENDS PeerSession, FiniteSetTheorems, SequenceTheorems, WellFoundedInduction, TLAPS

-----------------------------------------------------------------------------
(* What the theorems ask of the constants.  Each names only those it needs. *)

\* The lobby socket is idle while the P2P socket has traffic.
LobbyIsIdle == ~LobbyAlways

\* "The same 16-player ceiling" (net_rtt.h:60): every peer has a record.
DamperKnowsAll  == IsFiniteSet(Addrs) /\ Cardinality(Addrs) <= DampenPeers
SamplerKnowsAll == IsFiniteSet(Addrs) /\ Cardinality(Addrs) <= RttPeers

\* A ring holds what the game may still send again, however many messages a
\* session has, and the counter is wide enough to compare any two of them.
DamperRingFits == Flight <= DampenSlots
CounterIsWide  == 2 * MaxSeq <= SeqSpace

-----------------------------------------------------------------------------
(* The inductive invariants *)

\* A sequence is in a ring once at most.
OneEach(s) == \A i, j \in DOMAIN s : s[i].seq = s[j].seq => i = j

InRing(s, q) == \E i \in DOMAIN s : s[i].seq = q

DampenRecord(p) ==
  /\ p \in [rtt : Nat, ring : Seq(Entry), use : Nat]
  /\ Len(p.ring) <= DampenSlots
  /\ OneEach(p.ring)

RttRecord(p) ==
  /\ p \in [slots : Seq(Slot), lastAck : Seqs, ackInit : BOOLEAN,
            srtt : Nat, srttInit : BOOLEAN, use : Nat]
  /\ Len(p.slots) <= RttSlots
  /\ OneEach(p.slots)

DampenTable(tbl) ==
  /\ DOMAIN tbl \subseteq Addrs
  /\ IsFiniteSet(DOMAIN tbl) /\ Cardinality(DOMAIN tbl) <= DampenPeers
  /\ \A a \in DOMAIN tbl : DampenRecord(tbl[a])

RttTable(tbl) ==
  /\ DOMAIN tbl \subseteq Addrs
  /\ IsFiniteSet(DOMAIN tbl) /\ Cardinality(DOMAIN tbl) <= RttPeers
  /\ \A a \in DOMAIN tbl : RttRecord(tbl[a])

\* The type invariant made inductive: the tables are finite, a sequence has one
\* slot at most, and what the governor thread carries is a time.
Typed ==
  /\ now \in Nat
  /\ DampenTable(dampen) /\ RttTable(rtt)
  /\ dampenSock \in Sockets \cup {"none"}
  /\ gov.pc \in {"idle", "feed"} /\ DOMAIN gov.srtt \subseteq Addrs
  /\ \A a \in DOMAIN gov.srtt : gov.srtt[a] \in Nat
  /\ open \subseteq Sockets
  /\ next \in [Addrs -> [seq : Seqs, part : 1 .. Parts]]
  /\ \A a \in Addrs : next[a].seq \in 1 .. MaxSeq + 1
  /\ session \in 1 .. MaxSession
  /\ copies \subseteq Datagram /\ \A d \in copies : d.seq \in 1 .. MaxSeq
  /\ hand \subseteq [peer : Addrs, seq : 1 .. MaxSeq]
  /\ hand = {} \/ (\E h \in hand : hand = {h})
  /\ late \subseteq Addrs
  /\ evicted \in BOOLEAN

\* Part k of message q is behind n, the next datagram of a channel.
Handed(n, q, k) ==
  /\ q \in 1 .. MaxSeq /\ k \in 1 .. Parts
  /\ q < n.seq \/ (q = n.seq /\ k < n.part)

\* The datagrams on their way are of the open P2P socket, no younger than now
\* and of no later session, and those of this session were handed over.
CopyTrue(d, t, ses, nx) ==
  /\ d.at <= t /\ d.session <= ses /\ d.seq \in 1 .. MaxSeq
  /\ d.session = ses => Handed(nx[d.peer], d.seq, d.part)

CopiesTrue ==
  /\ "p2p" \notin open => copies = {}
  /\ \A d \in copies : CopyTrue(d, now, session, next)

\* The damper remembers a session only while its socket is the remembered one.
SocketTrue ==
  /\ ~DampenOn => DOMAIN dampen = {} /\ dampenSock = "none"
  /\ copies = {} => DOMAIN dampen = {}
  /\ copies # {} /\ DampenOn => dampenSock = "p2p"

\* An entry e of a's ring that can still suppress stands for a copy of this
\* session, sent when the entry says.
Covered(a, e, cps, t, ses) ==
  /\ e.last <= t /\ e.window <= DampenMax
  /\ t - e.last < DampenMax =>
       \E d \in cps : d.peer = a /\ d.seq = e.seq /\ d.session = ses /\ d.at = e.last

EntriesCovered ==
  \A a \in DOMAIN dampen : \A i \in DOMAIN dampen[a].ring :
    Covered(a, dampen[a].ring[i], copies, now, session)

DampenInv == Typed /\ CopiesTrue /\ SocketTrue /\ EntriesCovered

\* The sequences of a ring follow one another.
RingRuns(s) ==
  /\ s # << >>
  /\ \A i \in DOMAIN s : s[i].seq \in 1 .. MaxSeq /\ s[i].seq = s[1].seq + (i - 1)

\* With m the newest message of a channel the ring goes on to m at least, and
\* begins at 1 unless it has been full since.
RingHolds(s, m) ==
  m >= 1 => /\ m <= s[1].seq + (Len(s) - 1)
            /\ s[1].seq = 1 \/ s[1].seq <= m - DampenSlots + 1

\* A peer without a record was sent nothing.
RingsHold ==
  /\ \A a \in DOMAIN dampen :
       RingRuns(dampen[a].ring) /\ RingHolds(dampen[a].ring, Newest(a))
  /\ DampenOn /\ "p2p" \in open => \A a \in Addrs \ DOMAIN dampen : next[a] = First

\* The sampler knows nobody the damper does not know, but for those whose
\* datagram was in hand at a close.
TablesAgree ==
  /\ \A d \in copies : d.peer \in DOMAIN dampen
  /\ \A h \in hand : h.peer \in DOMAIN dampen \cup late
  /\ DOMAIN rtt \subseteq DOMAIN dampen \cup late
  /\ "p2p" \notin open => DOMAIN dampen = {}

\* An ack of q would still advance the record p.
Live(p, q) == p.ackInit => q > p.lastAck

\* The messages whose ack still counts have their slots in order, without a gap.
SlotsOrdered(p) ==
  /\ p.ackInit => p.lastAck \in 1 .. MaxSeq
  /\ \A i \in DOMAIN p.slots : p.slots[i].seq \in 1 .. MaxSeq
  /\ \A i, j \in DOMAIN p.slots :
       i < j /\ Live(p, p.slots[i].seq) /\ Live(p, p.slots[j].seq)
         => p.slots[i].seq < p.slots[j].seq
  /\ \A i \in DOMAIN p.slots : \A q \in 1 .. p.slots[i].seq :
       Live(p, q) => InRing(p.slots, q)

\* Every copy to a whose ack still counts has a slot, and one that may be
\* sampled has the time of the copy.
SlotsTrue(p, a, cps) ==
  \A d \in cps : d.peer = a /\ Live(p, d.seq) =>
    /\ InRing(p.slots, d.seq)
    /\ \A i \in DOMAIN p.slots :
         p.slots[i].seq = d.seq /\ ~p.slots[i].ambiguous => d.at = p.slots[i].sent

\* Every message handed over whose ack still counts has a slot.
SlotsWhole(p, n) == \A q \in 1 .. MaxSeq : Handed(n, q, 1) /\ Live(p, q) => InRing(p.slots, q)

SlotsHold ==
  /\ \A d \in copies : d.peer \in DOMAIN rtt
  /\ "p2p" \in open => \A a \in Addrs \ DOMAIN rtt : next[a] = First
  /\ \A a \in DOMAIN rtt : SlotsOrdered(rtt[a]) /\ SlotsTrue(rtt[a], a, copies)
  /\ "p2p" \in open => \A a \in DOMAIN rtt : SlotsWhole(rtt[a], next[a])

SlotsInv == ~evicted => SlotsHold

-----------------------------------------------------------------------------
(* Rings *)

\* x goes to the end of s; a full ring gives up its first element.
Pushed(s, cap, x, s2) == s2 = Append(IF Len(s) < cap THEN s ELSE Tail(s), x)

LEMMA PushFacts ==
  ASSUME NEW S, NEW s \in Seq(S), NEW cap \in Nat \ {0}, Len(s) <= cap, NEW x \in S,
         NEW s2, Pushed(s, cap, x, s2)
  PROVE  /\ s2 \in Seq(S) /\ s2 # << >> /\ Len(s2) <= cap
         /\ Len(s2) \in DOMAIN s2 /\ s2[Len(s2)] = x
         /\ \E off \in {0, 1} : \A i \in DOMAIN s2 :
              i = Len(s2) \/ (i + off \in DOMAIN s /\ s2[i] = s[i + off])
         /\ Len(s) < cap =>
              /\ Len(s2) = Len(s) + 1
              /\ \A i \in DOMAIN s2 : i = Len(s2) \/ (i \in DOMAIN s /\ s2[i] = s[i])
              /\ \A i \in DOMAIN s : i \in DOMAIN s2 /\ s2[i] = s[i] /\ i < Len(s2)
         /\ ~(Len(s) < cap) =>
              /\ Len(s) = cap /\ Len(s2) = cap
              /\ \A i \in DOMAIN s2 : i = Len(s2) \/ (i + 1 \in DOMAIN s /\ s2[i] = s[i + 1])
<1>1. DOMAIN s = 1 .. Len(s) /\ Len(s) \in Nat
  BY LenProperties
<1>2. CASE Len(s) < cap
  <2>1. s2 = Append(s, x)
    BY <1>2 DEF Pushed
  <2>2. /\ s2 \in Seq(S) /\ s2 # << >> /\ Len(s2) = Len(s) + 1
        /\ \A i \in 1 .. Len(s) : s2[i] = s[i]
        /\ s2[Len(s) + 1] = x
    BY <2>1, AppendProperties
  <2>3. DOMAIN s2 = 1 .. Len(s) + 1
    BY <2>2, LenProperties
  <2>4. \A i \in DOMAIN s2 : i = Len(s2) \/ (i \in DOMAIN s /\ s2[i] = s[i])
    BY <1>1, <2>2, <2>3
  <2>5. \A i \in DOMAIN s2 : i = Len(s2) \/ (i + 0 \in DOMAIN s /\ s2[i] = s[i + 0])
    BY <1>1, <2>3, <2>4
  <2>6. \E off \in {0, 1} : \A i \in DOMAIN s2 :
              i = Len(s2) \/ (i + off \in DOMAIN s /\ s2[i] = s[i + off])
    BY <2>5
  <2>7. \A i \in DOMAIN s : i \in DOMAIN s2 /\ s2[i] = s[i] /\ i < Len(s2)
    BY <1>1, <2>2, <2>3
  <2>8. Len(s2) \in DOMAIN s2 /\ s2[Len(s2)] = x /\ Len(s2) <= cap
    BY <1>1, <1>2, <2>2, <2>3
  <2> QED BY <1>2, <2>2, <2>4, <2>6, <2>7, <2>8
<1>3. CASE ~(Len(s) < cap)
  <2> DEFINE r == Tail(s)
  <2>0. Len(s) = cap
    <3>1. \A n, m \in Nat : n <= m /\ ~(n < m) => n = m
      OBVIOUS
    <3> QED BY <1>1, <1>3, <3>1
  <2>1. Len(s) = cap /\ s # << >>
    <3>1. << >> \in Seq(S) /\ Len(<< >>) = 0
      BY EmptySeq
    <3> QED BY <2>0, <3>1
  <2>2. /\ r \in Seq(S) /\ Len(r) = Len(s) - 1
        /\ \A i \in 1 .. Len(r) : r[i] = s[i + 1]
    BY <2>1, HeadTailProperties
  <2> HIDE DEF r
  <2>3. s2 = Append(r, x)
    BY <1>3 DEF Pushed, r
  <2>4. /\ s2 \in Seq(S) /\ s2 # << >> /\ Len(s2) = Len(r) + 1
        /\ \A i \in 1 .. Len(r) : s2[i] = r[i]
        /\ s2[Len(r) + 1] = x
    BY <2>2, <2>3, AppendProperties
  <2>5. DOMAIN s2 = 1 .. Len(s2) /\ Len(s2) = cap
    BY <1>1, <2>1, <2>2, <2>4, LenProperties
  <2>6. \A i \in DOMAIN s2 : i = Len(s2) \/ (i + 1 \in DOMAIN s /\ s2[i] = s[i + 1])
    BY <1>1, <2>1, <2>2, <2>4, <2>5
  <2>7. \E off \in {0, 1} : \A i \in DOMAIN s2 :
              i = Len(s2) \/ (i + off \in DOMAIN s /\ s2[i] = s[i + off])
    BY <2>6
  <2>8. Len(s2) \in DOMAIN s2 /\ s2[Len(s2)] = x
    BY <1>1, <2>1, <2>2, <2>4, <2>5
  <2> QED BY <1>3, <2>1, <2>4, <2>5, <2>6, <2>7, <2>8
<1> QED BY <1>2, <1>3

LEMMA PushOneEach ==
  ASSUME NEW S, NEW s \in Seq(S), NEW cap \in Nat \ {0}, Len(s) <= cap, NEW x \in S,
         NEW s2, Pushed(s, cap, x, s2), OneEach(s),
         \A i \in DOMAIN s : s[i].seq # x.seq
  PROVE  OneEach(s2)
<1>1. /\ s2[Len(s2)] = x /\ s2 \in Seq(S)
      /\ \E off \in {0, 1} : \A i \in DOMAIN s2 :
              i = Len(s2) \/ (i + off \in DOMAIN s /\ s2[i] = s[i + off])
  BY PushFacts
<1>2. PICK off \in {0, 1} : \A i \in DOMAIN s2 :
              i = Len(s2) \/ (i + off \in DOMAIN s /\ s2[i] = s[i + off])
  BY <1>1
<1>3. DOMAIN s2 \subseteq Int
  BY <1>1, LenProperties
<1> SUFFICES ASSUME NEW i \in DOMAIN s2, NEW j \in DOMAIN s2, s2[i].seq = s2[j].seq
             PROVE  i = j
  BY DEF OneEach
<1>4. i \in Int /\ j \in Int
  BY <1>3
<1>5. CASE i = Len(s2) \/ j = Len(s2)
  BY <1>1, <1>2, <1>5
<1>6. CASE i # Len(s2) /\ j # Len(s2)
  <2>1. /\ i + off \in DOMAIN s /\ j + off \in DOMAIN s
        /\ s2[i] = s[i + off] /\ s2[j] = s[j + off]
    BY <1>2, <1>6
  <2>2. i + off = j + off
    BY <2>1 DEF OneEach
  <2> QED BY <1>4, <2>2
<1> QED BY <1>5, <1>6

-----------------------------------------------------------------------------
(* Counters *)

USE SeqSpaceAssumption, DampenAssumption, RttAssumption, PeerSessionAssumption

\* The difference of two counters in the counter's own width.
LEMMA DifferenceWraps ==
  ASSUME NEW a \in Seqs, NEW b \in Seqs
  PROVE  (a - b) % SeqSpace = IF a >= b THEN a - b ELSE a - b + SeqSpace
<1> DEFINE d == a - b
<1> DEFINE q == IF a >= b THEN 0 ELSE -1
<1>1. d \in Int /\ SeqSpace \in Nat \ {0} /\ -SeqSpace < d /\ d < SeqSpace
  BY DEF Seqs
<1> QED BY <1>1 DEF Seqs

\* Within half of the counter's range the comparison is a difference.
LEMMA CmpIsDifference ==
  ASSUME CounterIsWide, NEW a \in 1 .. MaxSeq, NEW b \in 1 .. MaxSeq
  PROVE  SeqCmp(a, b) = a - b
<1> DEFINE d == (a - b) % SeqSpace
<1>1. a \in Seqs /\ b \in Seqs
  BY DEF Seqs
<1>2. d = IF a >= b THEN a - b ELSE a - b + SeqSpace
  BY <1>1, DifferenceWraps
<1>3. SeqCmp(a, b) = IF 2 * d >= SeqSpace THEN d - SeqSpace ELSE d
  BY DEF SeqCmp
<1> HIDE DEF d
<1>4. /\ a \in Int /\ b \in Int /\ SeqSpace \in Int /\ MaxSeq \in Int
      /\ 1 <= a /\ a <= MaxSeq /\ 1 <= b /\ b <= MaxSeq /\ 2 * MaxSeq <= SeqSpace
  BY DEF CounterIsWide
<1>5. CASE a >= b
  BY <1>2, <1>3, <1>4, <1>5
<1>6. CASE ~(a >= b)
  <2>1. d = a - b + SeqSpace
    BY <1>2, <1>6
  <2>2. 2 * d >= SeqSpace /\ d - SeqSpace = a - b
    BY <1>4, <2>1
  <2> QED BY <1>3, <2>2
<1> QED BY <1>5, <1>6

-----------------------------------------------------------------------------
(* The tables of peers *)

Before == {p \in Nat \X Nat : p[1] < p[2]}

\* A set of naturals has a least element.
LEMMA LeastUse ==
  ASSUME NEW S, S \subseteq Nat, S # {}
  PROVE  \E m \in S : \A x \in S : m <= x
<1>1. IsWellFoundedOn(Before, Nat)
  <2>1. Before = OpToRel(<, Nat)
    BY DEF Before, OpToRel
  <2> QED BY <2>1, NatLessThanWellFounded
<1>2. \A x, y \in Nat : x < y => << x, y >> \in Before
  BY DEF Before
<1>3. \E m \in S : \A x \in S : ~(<< x, m >> \in Before)
  BY <1>1, WFMin
<1>4. PICK m \in S : \A x \in S : ~(<< x, m >> \in Before)
  BY <1>3
<1>5. \A x \in S : ~(x < m)
  BY <1>2, <1>4
<1> QED BY <1>5

\* A table that is not empty has a least recently used record.
LEMMA OldestExists ==
  ASSUME NEW tbl, DOMAIN tbl # {}, \A a \in DOMAIN tbl : tbl[a].use \in Nat
  PROVE  Oldest(tbl) # {} /\ Oldest(tbl) \subseteq DOMAIN tbl
<1> DEFINE U == {tbl[a].use : a \in DOMAIN tbl}
<1>1. U \subseteq Nat /\ U # {}
  OBVIOUS
<1>2. PICK m \in U : \A x \in U : m <= x
  BY <1>1, LeastUse
<1>3. PICK a \in DOMAIN tbl : m = tbl[a].use
  BY <1>2
<1>4. \A b \in DOMAIN tbl : tbl[a].use <= tbl[b].use
  BY <1>2, <1>3
<1> QED BY <1>3, <1>4 DEF Oldest

Claimed(tbl, cap, addr, new, t, c) == c = Claim(tbl, cap, addr, new, t)

\* The table c after a claim: the record of addr is there, the others that are
\* still there say what they said, and with room all are.
ClaimKeeps(tbl, cap, addr, new, t, c) ==
  /\ addr \in DOMAIN c /\ DOMAIN c \subseteq DOMAIN tbl \cup {addr}
  /\ IsFiniteSet(DOMAIN c) /\ Cardinality(DOMAIN c) <= cap
  /\ \A a \in DOMAIN c : a # addr => a \in DOMAIN tbl /\ c[a] = tbl[a]
  /\ addr \in DOMAIN tbl =>
       DOMAIN c = DOMAIN tbl /\ c[addr] = [tbl[addr] EXCEPT !.use = t]
  /\ addr \notin DOMAIN tbl => c[addr] = new
  /\ Cardinality(DOMAIN tbl) < cap => DOMAIN c = DOMAIN tbl \cup {addr}

LEMMA ClaimFacts ==
  ASSUME NEW tbl, NEW cap \in Nat \ {0}, NEW addr, NEW new, NEW t, NEW c,
         Claimed(tbl, cap, addr, new, t, c),
         IsFiniteSet(DOMAIN tbl), Cardinality(DOMAIN tbl) <= cap,
         \A a \in DOMAIN tbl : tbl[a].use \in Nat
  PROVE  ClaimKeeps(tbl, cap, addr, new, t, c)
<1> DEFINE N == Cardinality(DOMAIN tbl)
<1>0. N \in Nat
  BY FS_CardinalityType
<1>1. CASE addr \in DOMAIN tbl
  <2>1. c = [tbl EXCEPT ![addr].use = t]
    BY <1>1 DEF Claimed, Claim
  <2>2. /\ DOMAIN c = DOMAIN tbl /\ c[addr] = [tbl[addr] EXCEPT !.use = t]
        /\ \A a \in DOMAIN c : a # addr => c[a] = tbl[a]
    BY <1>1, <2>1
  <2> QED BY <1>1, <2>2 DEF ClaimKeeps
<1>2. CASE addr \notin DOMAIN tbl
  <2> DEFINE lost == IF N < cap THEN {} ELSE {CHOOSE a \in Oldest(tbl) : TRUE}
  <2> DEFINE kept == (DOMAIN tbl \ lost) \cup {addr}
  <2>1. c = [a \in kept |-> IF a = addr THEN new ELSE tbl[a]]
    BY <1>2 DEF Claimed, Claim
  <2>2. CASE N < cap
    <3>1. kept = DOMAIN tbl \cup {addr}
      BY <2>2
    <3>2. IsFiniteSet(kept) /\ Cardinality(kept) = N + 1
      BY <1>2, <3>1, FS_AddElement
    <3> HIDE DEF kept
    <3>3. Cardinality(kept) <= cap
      BY <1>0, <2>2, <3>2
    <3> QED BY <1>2, <2>1, <3>1, <3>2, <3>3 DEF ClaimKeeps
  <2>3. CASE ~(N < cap)
    <3> DEFINE o == CHOOSE a \in Oldest(tbl) : TRUE
    <3>0. N = cap
      <4>1. \A n, m \in Nat : n <= m /\ ~(n < m) => n = m
        OBVIOUS
      <4> QED BY <1>0, <2>3, <4>1
    <3>1. DOMAIN tbl # {}
      BY <3>0, FS_EmptySet
    <3>2. o \in DOMAIN tbl
      BY <3>1, OldestExists
    <3>3. lost = {o}
      BY <2>3
    <3> HIDE DEF o, lost
    <3>4. IsFiniteSet(DOMAIN tbl \ {o}) /\ Cardinality(DOMAIN tbl \ {o}) = N - 1
      BY <3>2, FS_RemoveElement
    <3>5. addr \notin DOMAIN tbl \ {o}
      BY <1>2
    <3>6. IsFiniteSet(kept) /\ Cardinality(kept) = (N - 1) + 1
      BY <3>3, <3>4, <3>5, FS_AddElement
    <3>7. Cardinality(kept) <= cap /\ kept \subseteq DOMAIN tbl \cup {addr} /\ addr \in kept
      BY <1>0, <3>0, <3>6
    <3> HIDE DEF kept
    <3> QED BY <1>2, <2>1, <2>3, <3>6, <3>7 DEF ClaimKeeps
  <2> QED BY <2>2, <2>3
<1> QED BY <1>1, <1>2

\* A table with room for every address never gives a record up.
LEMMA RoomForAll ==
  ASSUME NEW tbl, NEW cap \in Nat, IsFiniteSet(Addrs), Cardinality(Addrs) <= cap,
         DOMAIN tbl \subseteq Addrs, NEW a \in Addrs, a \notin DOMAIN tbl
  PROVE  Cardinality(DOMAIN tbl) < cap
<1>1. /\ IsFiniteSet(DOMAIN tbl) /\ Cardinality(DOMAIN tbl) <= Cardinality(Addrs)
      /\ Cardinality(Addrs) = Cardinality(DOMAIN tbl) => Addrs = DOMAIN tbl
  BY FS_Subset
<1>2. Cardinality(DOMAIN tbl) \in Nat /\ Cardinality(Addrs) \in Nat
  BY <1>1, FS_CardinalityType
<1>3. Cardinality(DOMAIN tbl) # Cardinality(Addrs)
  BY <1>1
<1> QED BY <1>1, <1>2, <1>3

-----------------------------------------------------------------------------
(* One step of the damper *)

LEMMA WindowBounded ==
  ASSUME NEW r \in Nat
  PROVE  WindowFor(r) \in Nat /\ WindowFor(r) <= DampenMax
<1> DEFINE w == (r * 12) \div 10
<1>1. w \in Int
  OBVIOUS
<1>2. WindowFor(r) = IF w < DampenFloor THEN DampenFloor
                     ELSE IF w > DampenMax THEN DampenMax ELSE w
  BY DEF WindowFor
<1> HIDE DEF w
<1> QED BY <1>1, <1>2

\* An entry made or renewed by a send of q at time t.
Fresh(e, q, t) == e.seq = q /\ e.last = t /\ e.window <= DampenMax

Admitted(p, q, t, v) == v = DampenAdmit(p, q, t)

Hits(s, q) == {i \in DOMAIN s : s[i].seq = q}
FirstHit(hits) == CHOOSE i \in hits : \A j \in hits : i <= j

\* A ring of one entry per sequence has the sequence at one place.
LEMMA TheHit ==
  ASSUME NEW s, NEW S, s \in Seq(S), OneEach(s), NEW q, NEW h \in DOMAIN s, s[h].seq = q
  PROVE  Hits(s, q) = {h} /\ FirstHit(Hits(s, q)) = h
<1> DEFINE hits == Hits(s, q)
<1> DEFINE c == CHOOSE i \in hits : \A j \in hits : i <= j
<1>1. hits = {h}
  BY DEF OneEach, Hits
<1>2. h \in Nat
  BY LenProperties
<1>3. h <= h
  BY <1>2
<1>4. \A i \in hits : i = h
  BY <1>1
<1>5. h \in hits /\ \A j \in hits : h <= j
  BY <1>1, <1>3
<1> HIDE DEF hits
<1>5a. \E k \in hits : \A j \in hits : k <= j
  BY <1>5
<1>6. c \in hits
  BY <1>5a
<1>7. FirstHit(hits) = c
  BY DEF FirstHit
<1> HIDE DEF c
<1>8. c = h
  BY <1>4, <1>6
<1> QED BY <1>1, <1>7, <1>8 DEF hits

\* A sequence the ring does not hold: it is let through and put at the end.
LEMMA AdmitNew ==
  ASSUME NEW p, DampenRecord(p), NEW q \in Seqs, NEW t \in Nat, NEW v, Admitted(p, q, t, v),
         NEW r0, r0 = IF p.ring # << >> /\ SeqCmp(q, Head(p.ring).seq) < 0 THEN << >> ELSE p.ring,
         ~InRing(r0, q)
  PROVE  /\ v.suppress = FALSE
         /\ v.restart = (p.ring # << >> /\ SeqCmp(q, Head(p.ring).seq) < 0)
         /\ \E e \in Entry : Fresh(e, q, t) /\ Pushed(r0, DampenSlots, e, v.ring)
<1> DEFINE e == [seq |-> q, last |-> t, window |-> WindowFor(p.rtt)]
<1> DEFINE restart == p.ring # << >> /\ SeqCmp(q, Head(p.ring).seq) < 0
<1> DEFINE hits == {i \in DOMAIN r0 : r0[i].seq = q}
<1> DEFINE room == IF Len(r0) < DampenSlots THEN r0 ELSE Tail(r0)
<1>1. hits = {}
  BY DEF InRing
<1>2. v = [suppress |-> FALSE, restart |-> restart, ring |-> Append(room, e)]
  BY <1>1 DEF Admitted, DampenAdmit
<1>3. p.rtt \in Nat
  BY DEF DampenRecord
<1>4. e \in Entry /\ Fresh(e, q, t)
  BY <1>3, WindowBounded DEF Entry, Fresh
<1>5. v.suppress = FALSE /\ v.restart = restart /\ v.ring = Append(room, e)
  BY <1>2
<1>6. Pushed(r0, DampenSlots, e, v.ring)
  BY <1>5 DEF Pushed
<1> HIDE DEF e
<1> QED BY <1>4, <1>5, <1>6

\* The entry at h drops the send, or lets it through and is renewed.
DropsAt(p, q, t, v, h) ==
  v.suppress = TRUE /\ t - p.ring[h].last < p.ring[h].window /\ v.ring = p.ring

RenewsAt(p, q, t, v, h) ==
  /\ v.suppress = FALSE
  /\ \E e \in Entry : Fresh(e, q, t) /\ v.ring = [p.ring EXCEPT ![h] = e]

\* A sequence the ring holds: inside its window it is dropped and nothing
\* changes, else it is let through and its entry renewed.
LEMMA AdmitAgain ==
  ASSUME NEW p, DampenRecord(p), NEW q \in Seqs, NEW t \in Nat, NEW v, Admitted(p, q, t, v),
         NEW h \in DOMAIN p.ring, p.ring[h].seq = q,
         ~(p.ring # << >> /\ SeqCmp(q, Head(p.ring).seq) < 0)
  PROVE  v.restart = FALSE /\ (DropsAt(p, q, t, v, h) \/ RenewsAt(p, q, t, v, h))
<1> DEFINE restart == p.ring # << >> /\ SeqCmp(q, Head(p.ring).seq) < 0
<1> DEFINE ring == IF restart THEN << >> ELSE p.ring
<1> DEFINE hits == {i \in DOMAIN ring : ring[i].seq = q}
<1> DEFINE room == IF Len(ring) < DampenSlots THEN ring ELSE Tail(ring)
<1> DEFINE i == CHOOSE i \in hits : \A j \in hits : i <= j
<1> DEFINE Widen(x) == [seq |-> x.seq, last |-> t,
                        window |-> IF 2 * x.window > DampenMax THEN DampenMax ELSE 2 * x.window]
<1> DEFINE e == Widen(ring[h])
<1>0. v = IF hits = {}
            THEN [suppress |-> FALSE, restart |-> restart,
                  ring |-> Append(room, [seq |-> q, last |-> t, window |-> WindowFor(p.rtt)])]
          ELSE IF t - ring[i].last < ring[i].window
            THEN [suppress |-> TRUE, restart |-> FALSE, ring |-> ring]
          ELSE [suppress |-> FALSE, restart |-> FALSE,
                ring |-> [ring EXCEPT ![i] = Widen(ring[i])]]
  BY DEF Admitted, DampenAdmit
<1>r. ring = p.ring
  OBVIOUS
<1>h. hits = Hits(ring, q) /\ i = FirstHit(hits)
  BY DEF Hits, FirstHit
<1> HIDE DEF restart, ring, hits, room, i
<1>1. ring \in Seq(Entry) /\ OneEach(ring) /\ h \in DOMAIN ring /\ ring[h].seq = q
  BY <1>r DEF DampenRecord
<1>2. hits = {h} /\ i = h
  BY <1>1, <1>h, TheHit
<1>3. ring[h] \in Entry
  BY <1>1, LenProperties, ElementOfSeq
<1>4. e \in Entry /\ Fresh(e, q, t)
  BY <1>1, <1>3 DEF Entry, Fresh
<1>5. v = IF t - ring[h].last < ring[h].window
          THEN [suppress |-> TRUE, restart |-> FALSE, ring |-> ring]
          ELSE [suppress |-> FALSE, restart |-> FALSE, ring |-> [ring EXCEPT ![h] = e]]
  BY <1>0, <1>2
<1> HIDE DEF e, Widen
<1>6. CASE t - ring[h].last < ring[h].window
  <2>1. v = [suppress |-> TRUE, restart |-> FALSE, ring |-> ring]
    BY <1>5, <1>6
  <2> QED BY <1>6, <1>r, <2>1 DEF DropsAt
<1>7. CASE ~(t - ring[h].last < ring[h].window)
  <2>1. v = [suppress |-> FALSE, restart |-> FALSE, ring |-> [ring EXCEPT ![h] = e]]
    BY <1>5, <1>7
  <2>2. v.suppress = FALSE /\ v.restart = FALSE /\ v.ring = [p.ring EXCEPT ![h] = e]
    BY <1>r, <2>1
  <2> QED BY <1>4, <2>2 DEF RenewsAt
<1> QED BY <1>6, <1>7

\* The ring s2 after s holds the same sequences, or has q at its end, for which
\* a full one gave up its first.
SameSeqs(s, s2) == Len(s2) = Len(s) /\ \A i \in DOMAIN s : s2[i].seq = s[i].seq

Pushes(s, q, s2) ==
  /\ s2[Len(s2)].seq = q
  /\ IF Len(s) < DampenSlots
       THEN /\ Len(s2) = Len(s) + 1
            /\ \A i \in DOMAIN s2 : i = Len(s2) \/ (i \in DOMAIN s /\ s2[i] = s[i])
       ELSE /\ Len(s) = DampenSlots /\ Len(s2) = DampenSlots
            /\ \A i \in DOMAIN s2 : i = Len(s2) \/ (i + 1 \in DOMAIN s /\ s2[i] = s[i + 1])

\* The ring after a send: what it holds was in the ring s before or is of that
\* send; what is dropped is inside the window of its entry.
AdmitKeeps(s, q, t, v) ==
  /\ v.suppress \in BOOLEAN
  /\ v.ring \in Seq(Entry) /\ Len(v.ring) <= DampenSlots /\ OneEach(v.ring)
  /\ v.ring # << >>
  /\ v.suppress => \E i \in DOMAIN s : s[i].seq = q /\ t - s[i].last < s[i].window
  /\ \A i \in DOMAIN v.ring :
       \/ \E j \in DOMAIN s : v.ring[i] = s[j]
       \/ ~v.suppress /\ Fresh(v.ring[i], q, t)
  /\ v.restart => s # << >> /\ SeqCmp(q, s[1].seq) < 0
  /\ s = << >> \/ SeqCmp(q, s[1].seq) < 0 => Len(v.ring) = 1 /\ v.ring[1].seq = q
  /\ s # << >> /\ ~(SeqCmp(q, s[1].seq) < 0) =>
       (IF InRing(s, q) THEN SameSeqs(s, v.ring) ELSE Pushes(s, q, v.ring))

LEMMA AdmitFacts ==
  ASSUME NEW p, DampenRecord(p), NEW q \in Seqs, NEW t \in Nat, NEW v, Admitted(p, q, t, v)
  PROVE  AdmitKeeps(p.ring, q, t, v)
<1> DEFINE behind == p.ring # << >> /\ SeqCmp(q, Head(p.ring).seq) < 0
<1> DEFINE r0 == IF behind THEN << >> ELSE p.ring
<1>1. p.ring \in Seq(Entry) /\ Len(p.ring) <= DampenSlots /\ OneEach(p.ring)
  BY DEF DampenRecord
<1>2. << >> \in Seq(Entry) /\ Len(<< >>) = 0
  BY EmptySeq
<1>2a. DOMAIN << >> = {}
  OBVIOUS
<1>3. r0 \in Seq(Entry) /\ Len(r0) <= DampenSlots /\ OneEach(r0)
  <2>1. OneEach(<< >>)
    BY <1>2a DEF OneEach
  <2> QED BY <1>1, <1>2, <2>1
<1>4. \A i \in DOMAIN r0 : i \in DOMAIN p.ring /\ r0[i] = p.ring[i]
  BY <1>2a
<1>5. Head(p.ring) = p.ring[1]
  OBVIOUS
<1>6. p.ring # << >> => 1 \in DOMAIN p.ring
  BY <1>1, EmptySeq, LenProperties
<1>7. CASE ~InRing(r0, q)
  <2>0. r0 = IF p.ring # << >> /\ SeqCmp(q, Head(p.ring).seq) < 0 THEN << >> ELSE p.ring
    OBVIOUS
  <2> HIDE DEF r0
  <2>1. /\ v.suppress = FALSE /\ v.restart = behind
        /\ \E e \in Entry : Fresh(e, q, t) /\ Pushed(r0, DampenSlots, e, v.ring)
    BY <1>7, <2>0, AdmitNew
  <2>2. PICK e \in Entry : Fresh(e, q, t) /\ Pushed(r0, DampenSlots, e, v.ring)
    BY <2>1
  <2>3. /\ v.ring \in Seq(Entry) /\ v.ring # << >> /\ Len(v.ring) <= DampenSlots
        /\ v.ring[Len(v.ring)] = e
        /\ \E off \in {0, 1} : \A i \in DOMAIN v.ring :
             i = Len(v.ring) \/ (i + off \in DOMAIN r0 /\ v.ring[i] = r0[i + off])
        /\ Len(r0) < DampenSlots =>
             /\ Len(v.ring) = Len(r0) + 1
             /\ \A i \in DOMAIN v.ring : i = Len(v.ring) \/ (i \in DOMAIN r0 /\ v.ring[i] = r0[i])
        /\ ~(Len(r0) < DampenSlots) =>
             /\ Len(r0) = DampenSlots /\ Len(v.ring) = DampenSlots
             /\ \A i \in DOMAIN v.ring :
                  i = Len(v.ring) \/ (i + 1 \in DOMAIN r0 /\ v.ring[i] = r0[i + 1])
    <3>1. DampenSlots \in Nat \ {0}
      OBVIOUS
    <3>2. PICK s2 : s2 = v.ring
      OBVIOUS
    <3>3. Pushed(r0, DampenSlots, e, s2)
      BY <2>2, <3>2
    <3>4. /\ s2 \in Seq(Entry) /\ s2 # << >> /\ Len(s2) <= DampenSlots
          /\ Len(s2) \in DOMAIN s2 /\ s2[Len(s2)] = e
      BY <1>3, <3>1, <3>3, PushFacts
    <3>5. \E off \in {0, 1} : \A i \in DOMAIN s2 :
             i = Len(s2) \/ (i + off \in DOMAIN r0 /\ s2[i] = r0[i + off])
      BY <1>3, <3>1, <3>3, PushFacts
    <3>6. Len(r0) < DampenSlots =>
             /\ Len(s2) = Len(r0) + 1
             /\ \A i \in DOMAIN s2 : i = Len(s2) \/ (i \in DOMAIN r0 /\ s2[i] = r0[i])
      BY <1>3, <3>1, <3>3, PushFacts
    <3>7. ~(Len(r0) < DampenSlots) =>
             /\ Len(r0) = DampenSlots /\ Len(s2) = DampenSlots
             /\ \A i \in DOMAIN s2 : i = Len(s2) \/ (i + 1 \in DOMAIN r0 /\ s2[i] = r0[i + 1])
      BY <1>3, <3>1, <3>3, PushFacts
    <3> QED BY <3>2, <3>4, <3>5, <3>6, <3>7
  <2>4. OneEach(v.ring)
    <3>1. \A i \in DOMAIN r0 : r0[i].seq # e.seq
      BY <1>7, <2>2 DEF InRing, Fresh
    <3> QED BY <1>3, <2>2, <3>1, PushOneEach
  <2>5. ASSUME NEW i \in DOMAIN v.ring
        PROVE  \/ \E j \in DOMAIN p.ring : v.ring[i] = p.ring[j]
               \/ ~v.suppress /\ Fresh(v.ring[i], q, t)
    <3>1. PICK off \in {0, 1} : i = Len(v.ring) \/ (i + off \in DOMAIN r0 /\ v.ring[i] = r0[i + off])
      BY <2>3
    <3> QED BY <1>4, <2>1, <2>2, <2>3, <3>1
  <2>6. ASSUME p.ring = << >> \/ SeqCmp(q, p.ring[1].seq) < 0
        PROVE  Len(v.ring) = 1 /\ v.ring[1].seq = q
    <3>1. r0 = << >>
      BY <1>5, <2>0, <2>6
    <3>2. Len(r0) = 0 /\ Len(r0) < DampenSlots
      BY <1>2, <3>1
    <3>3. Len(v.ring) = 1
      BY <2>3, <3>2
    <3> QED BY <2>2, <2>3, <3>3 DEF Fresh
  <2>7. ASSUME p.ring # << >>, ~(SeqCmp(q, p.ring[1].seq) < 0)
        PROVE  ~InRing(p.ring, q) /\ Pushes(p.ring, q, v.ring)
    <3>1. r0 = p.ring
      BY <1>5, <2>0, <2>7
    <3>2. v.ring[Len(v.ring)].seq = q
      BY <2>2, <2>3 DEF Fresh
    <3> QED BY <1>7, <2>3, <3>1, <3>2 DEF Pushes
  <2>8. v.restart => p.ring # << >> /\ SeqCmp(q, p.ring[1].seq) < 0
    BY <1>5, <2>1
  <2> QED BY <2>1, <2>3, <2>4, <2>5, <2>6, <2>7, <2>8 DEF AdmitKeeps
<1>8. CASE InRing(r0, q)
  <2>1. PICK h \in DOMAIN r0 : r0[h].seq = q
    BY <1>8 DEF InRing
  <2>2. ~behind
    BY <1>2a, <2>1
  <2>3. h \in DOMAIN p.ring /\ p.ring[h].seq = q
    BY <1>4, <2>1
  <2>4. v.restart = FALSE /\ (DropsAt(p, q, t, v, h) \/ RenewsAt(p, q, t, v, h))
    BY <2>2, <2>3, AdmitAgain
  <2>5. p.ring # << >> /\ ~(SeqCmp(q, p.ring[1].seq) < 0)
    BY <1>2a, <1>5, <2>2, <2>3
  <2>5a. InRing(p.ring, q)
    BY <2>3 DEF InRing
  <2> HIDE DEF r0, behind
  <2>6. CASE DropsAt(p, q, t, v, h)
    <3>1. SameSeqs(p.ring, v.ring)
      BY <2>6 DEF DropsAt, SameSeqs
    <3> QED BY <1>1, <2>3, <2>4, <2>5, <2>5a, <2>6, <3>1 DEF DropsAt, AdmitKeeps
  <2>7. CASE RenewsAt(p, q, t, v, h)
    <3>0. v.suppress = FALSE
      BY <2>7 DEF RenewsAt
    <3>1. PICK e \in Entry : Fresh(e, q, t) /\ v.ring = [p.ring EXCEPT ![h] = e]
      BY <2>7 DEF RenewsAt
    <3>2. DOMAIN p.ring = 1 .. Len(p.ring)
      BY <1>1, LenProperties
    <3>3. /\ v.ring \in Seq(Entry) /\ Len(v.ring) = Len(p.ring)
          /\ \A j \in 1 .. Len(p.ring) : v.ring[j] = IF j = h THEN e ELSE p.ring[j]
      BY <1>1, <2>3, <3>1, <3>2, ExceptSeq
    <3>4. /\ DOMAIN v.ring = DOMAIN p.ring
          /\ \A j \in DOMAIN v.ring : v.ring[j].seq = p.ring[j].seq
          /\ \A j \in DOMAIN v.ring : j = h \/ v.ring[j] = p.ring[j]
          /\ v.ring[h] = e
      BY <2>3, <3>1, <3>2, <3>3, LenProperties DEF Fresh
    <3>5. OneEach(v.ring)
      BY <1>1, <3>4 DEF OneEach
    <3>6. \A i \in DOMAIN v.ring :
              \/ \E j \in DOMAIN p.ring : v.ring[i] = p.ring[j]
              \/ ~v.suppress /\ Fresh(v.ring[i], q, t)
      BY <3>0, <3>1, <3>4
    <3>7. v.ring # << >> /\ SameSeqs(p.ring, v.ring)
      BY <1>2a, <1>6, <2>3, <2>5, <3>3, <3>4 DEF SameSeqs
    <3> QED BY <1>1, <2>4, <2>5, <2>5a, <3>0, <3>3, <3>5, <3>6, <3>7 DEF AdmitKeeps
  <2> QED BY <2>4, <2>6, <2>7
<1> QED BY <1>7, <1>8

-----------------------------------------------------------------------------
(* One step of the sampler *)

NewSlot(q, t) == [seq |-> q, sent |-> t, ambiguous |-> FALSE]

Recorded(p, q, t, v) == v = RttSend(p, q, t)

\* The slots after q was sent again: those of q become ambiguous.
Marked(s, q, s2) ==
  /\ DOMAIN s2 = DOMAIN s
  /\ \A i \in DOMAIN s :
       /\ s2[i].seq = s[i].seq /\ s2[i].sent = s[i].sent
       /\ s2[i].ambiguous = (s[i].ambiguous \/ s[i].seq = q)

SameAcks(p, v) == v.lastAck = p.lastAck /\ v.ackInit = p.ackInit /\ v.use = p.use

LEMMA SendFacts ==
  ASSUME NEW p, RttRecord(p), NEW q \in Seqs, NEW t \in Nat, NEW v, Recorded(p, q, t, v)
  PROVE  /\ RttRecord(v) /\ SameAcks(p, v)
         /\ InRing(p.slots, q) => Marked(p.slots, q, v.slots)
         /\ ~InRing(p.slots, q) => Pushed(p.slots, RttSlots, NewSlot(q, t), v.slots)
<1> DEFINE again == {i \in DOMAIN p.slots : p.slots[i].seq = q}
<1> DEFINE room == IF Len(p.slots) < RttSlots THEN p.slots ELSE Tail(p.slots)
<1> DEFINE marked == [i \in DOMAIN p.slots |-> [p.slots[i] EXCEPT !.ambiguous = @ \/ i \in again]]
<1> DEFINE slots == IF again # {} THEN marked ELSE Append(room, NewSlot(q, t))
<1>1. /\ p \in [slots : Seq(Slot), lastAck : Seqs, ackInit : BOOLEAN,
                srtt : Nat, srttInit : BOOLEAN, use : Nat]
      /\ p.slots \in Seq(Slot) /\ Len(p.slots) <= RttSlots /\ OneEach(p.slots)
  BY DEF RttRecord
<1>2. v = [p EXCEPT !.slots = slots]
  BY DEF Recorded, RttSend, NewSlot
<1>3. /\ DOMAIN p.slots = 1 .. Len(p.slots) /\ Len(p.slots) \in Nat
      /\ \A i \in DOMAIN p.slots : p.slots[i] \in Slot
  BY <1>1, LenProperties, ElementOfSeq
<1>4. CASE InRing(p.slots, q)
  <2>1. again # {} /\ slots = marked
    BY <1>4 DEF InRing
  <2>2. ASSUME NEW i \in DOMAIN p.slots
        PROVE  /\ marked[i] \in Slot
               /\ marked[i].seq = p.slots[i].seq /\ marked[i].sent = p.slots[i].sent
               /\ marked[i].ambiguous = (p.slots[i].ambiguous \/ p.slots[i].seq = q)
    <3>1. marked[i] = [p.slots[i] EXCEPT !.ambiguous = @ \/ i \in again]
      OBVIOUS
    <3>2. p.slots[i] \in Slot
      BY <1>3
    <3>3. (i \in again) = (p.slots[i].seq = q)
      OBVIOUS
    <3> HIDE DEF marked, again
    <3> QED BY <3>1, <3>2, <3>3 DEF Slot
  <2>3. DOMAIN marked = 1 .. Len(p.slots)
    BY <1>3
  <2>4. marked = [i \in 1 .. Len(p.slots) |-> marked[i]]
    BY <1>3
  <2> HIDE DEF marked
  <2>5. marked \in [1 .. Len(p.slots) -> Slot]
    BY <1>3, <2>2, <2>3, <2>4
  <2>6. marked \in Seq(Slot) /\ Len(marked) = Len(p.slots)
    <3>1. \A n \in Nat : \A f \in [1 .. n -> Slot] : f \in Seq(Slot)
      OBVIOUS
    <3>1a. marked \in Seq(Slot)
      BY <1>3, <2>5, <3>1
    <3>2. DOMAIN marked = 1 .. Len(marked) /\ Len(marked) \in Nat
      BY <3>1a, LenProperties
    <3> QED BY <1>3, <2>3, <3>1a, <3>2
  <2>7. OneEach(marked)
    BY <1>1, <1>3, <2>2, <2>3 DEF OneEach
  <2>8. Marked(p.slots, q, marked)
    BY <1>3, <2>2, <2>3 DEF Marked
  <2>9. v = [p EXCEPT !.slots = marked]
    BY <1>2, <2>1
  <2>10. /\ v.slots = marked /\ SameAcks(p, v)
         /\ v \in [slots : Seq(Slot), lastAck : Seqs, ackInit : BOOLEAN,
                   srtt : Nat, srttInit : BOOLEAN, use : Nat]
    BY <1>1, <2>6, <2>9 DEF SameAcks
  <2> QED BY <1>1, <1>4, <2>6, <2>7, <2>8, <2>10 DEF RttRecord
<1>5. CASE ~InRing(p.slots, q)
  <2> DEFINE s2 == Append(room, NewSlot(q, t))
  <2>1. v = [p EXCEPT !.slots = s2]
    BY <1>2, <1>5 DEF InRing
  <2>2. Pushed(p.slots, RttSlots, NewSlot(q, t), s2)
    BY DEF Pushed
  <2>3. NewSlot(q, t) \in Slot /\ NewSlot(q, t).seq = q
    BY DEF NewSlot, Slot
  <2> HIDE DEF s2, room
  <2>4. s2 \in Seq(Slot) /\ Len(s2) <= RttSlots
    BY <1>1, <2>2, <2>3, PushFacts
  <2>5. OneEach(s2)
    <3>1. \A i \in DOMAIN p.slots : p.slots[i].seq # NewSlot(q, t).seq
      BY <1>5, <2>3 DEF InRing
    <3> QED BY <1>1, <2>2, <2>3, <3>1, PushOneEach
  <2>6. /\ v.slots = s2 /\ SameAcks(p, v)
        /\ v \in [slots : Seq(Slot), lastAck : Seqs, ackInit : BOOLEAN,
                  srtt : Nat, srttInit : BOOLEAN, use : Nat]
    BY <1>1, <2>1, <2>4 DEF SameAcks
  <2> QED BY <1>5, <2>2, <2>4, <2>5, <2>6 DEF RttRecord
<1> QED BY <1>4, <1>5

Acked(p, q, t, r) == r = RttRecv(p, q, t)

\* An ack that does not advance the record p.
Stale(p, q) == p.ackInit /\ SeqCmp(q, p.lastAck) <= 0

\* The slots after the h-th was acknowledged.
Retired(s, h, s2) == s2 = SubSeq(s, h + 1, Len(s))

LEMMA RetireFacts ==
  ASSUME NEW S, NEW s \in Seq(S), NEW h \in DOMAIN s, NEW s2, Retired(s, h, s2)
  PROVE  /\ s2 \in Seq(S) /\ Len(s2) <= Len(s) /\ h \in Nat
         /\ \A i \in DOMAIN s2 : i \in Nat /\ i + h \in DOMAIN s /\ s2[i] = s[i + h]
         /\ \A j \in DOMAIN s : j > h => \E i \in DOMAIN s2 : j = i + h /\ s2[i] = s[j]
<1>1. DOMAIN s = 1 .. Len(s) /\ Len(s) \in Nat /\ h \in 1 .. Len(s)
  BY LenProperties
<1>2. \A i \in (h + 1) .. Len(s) : s[i] \in S
  BY <1>1, ElementOfSeq
<1>3. /\ s2 \in Seq(S)
      /\ Len(s2) = IF h + 1 <= Len(s) THEN Len(s) - (h + 1) + 1 ELSE 0
      /\ \A i \in 1 .. Len(s) - (h + 1) + 1 : s2[i] = s[(h + 1) + i - 1]
  BY <1>1, <1>2, SubSeqProperties DEF Retired
<1>4. Len(s2) = Len(s) - h
  BY <1>1, <1>3
<1>5. DOMAIN s2 = 1 .. Len(s) - h
  BY <1>3, <1>4, LenProperties
<1>6. \A i \in DOMAIN s2 : i \in Nat /\ i + h \in DOMAIN s /\ s2[i] = s[i + h]
  <2> SUFFICES ASSUME NEW i \in DOMAIN s2
               PROVE  i \in Nat /\ i + h \in DOMAIN s /\ s2[i] = s[i + h]
    OBVIOUS
  <2>1. i \in 1 .. Len(s) - (h + 1) + 1 /\ i \in Nat
    BY <1>1, <1>5
  <2>2. s2[i] = s[(h + 1) + i - 1]
    BY <1>3, <2>1
  <2>3. (h + 1) + i - 1 = i + h /\ i + h \in 1 .. Len(s)
    BY <1>1, <2>1
  <2> QED BY <1>1, <2>1, <2>2, <2>3
<1>7. \A j \in DOMAIN s : j > h => \E i \in DOMAIN s2 : j = i + h /\ s2[i] = s[j]
  <2> SUFFICES ASSUME NEW j \in DOMAIN s, j > h
               PROVE  \E i \in DOMAIN s2 : j = i + h /\ s2[i] = s[j]
    OBVIOUS
  <2>1. j - h \in DOMAIN s2 /\ (j - h) + h = j
    BY <1>1, <1>5
  <2> QED BY <1>6, <2>1
<1>8. Len(s2) <= Len(s)
  BY <1>1, <1>4
<1> QED BY <1>1, <1>3, <1>6, <1>7, <1>8

\* What an ack of the slot h of p does, if it advances the record.
HitAcked(p, q, t, r) ==
  \A h \in DOMAIN p.slots : p.slots[h].seq = q =>
    /\ Retired(p.slots, h, r.peer.slots)
    /\ r.sample = NoSample
       \/ (~p.slots[h].ambiguous /\ r.sample = t - p.slots[h].sent)

AckGives(p, q, t, r) ==
  /\ RttRecord(r.peer) /\ r.peer.use = p.use
  /\ Stale(p, q) => r.sample = NoSample /\ r.peer = p
  /\ ~Stale(p, q) => r.peer.lastAck = q /\ r.peer.ackInit = TRUE
  /\ ~Stale(p, q) /\ ~InRing(p.slots, q) => r.sample = NoSample /\ r.peer.slots = p.slots
  /\ ~Stale(p, q) => HitAcked(p, q, t, r)

LEMMA AckFacts ==
  ASSUME NEW p, RttRecord(p), NEW q \in Seqs, NEW t \in Nat, NEW r, Acked(p, q, t, r)
  PROVE  AckGives(p, q, t, r)
<1> DEFINE hits == {i \in DOMAIN p.slots : p.slots[i].seq = q}
<1> DEFINE i == CHOOSE i \in hits : \A j \in hits : i <= j
<1> DEFINE slot == p.slots[i]
<1> DEFINE usable == /\ hits # {}
                     /\ ~slot.ambiguous
                     /\ slot.sent <= t /\ t - slot.sent <= RttMaxSample
<1> DEFINE sample == t - slot.sent
<1> DEFINE slots == IF hits = {} THEN p.slots ELSE SubSeq(p.slots, i + 1, Len(p.slots))
<1> DEFINE srtt == IF usable THEN Smooth(p, sample) ELSE p.srtt
<1> DEFINE init == p.srttInit \/ usable
<1>1. /\ p \in [slots : Seq(Slot), lastAck : Seqs, ackInit : BOOLEAN,
                srtt : Nat, srttInit : BOOLEAN, use : Nat]
      /\ p.slots \in Seq(Slot) /\ Len(p.slots) <= RttSlots /\ OneEach(p.slots)
  BY DEF RttRecord
<1>2. r = IF Stale(p, q) THEN [sample |-> NoSample, peer |-> p]
          ELSE [sample |-> IF usable THEN sample ELSE NoSample,
                peer |-> [p EXCEPT !.lastAck = q, !.ackInit = TRUE, !.slots = slots,
                                   !.srtt = srtt, !.srttInit = init]]
  <2>1. r = IF Stale(p, q) THEN [sample |-> NoSample, peer |-> p]
            ELSE [sample |-> IF usable THEN sample ELSE NoSample,
                  peer |-> [p EXCEPT
                    !.lastAck = q, !.ackInit = TRUE,
                    !.slots = IF hits = {} THEN @ ELSE SubSeq(@, i + 1, Len(@)),
                    !.srtt = IF usable THEN Smooth(p, sample) ELSE @,
                    !.srttInit = @ \/ usable]]
    BY Zenon DEF Acked, RttRecv, Stale
  <2> HIDE DEF hits, i, sample, usable
  <2> QED BY <1>1, <2>1
<1>3. hits = Hits(p.slots, q) /\ i = FirstHit(hits)
  BY DEF Hits, FirstHit
<1>4. hits # {} <=> InRing(p.slots, q)
  BY DEF InRing
<1>5. \A h \in DOMAIN p.slots : p.slots[h].seq = q => i = h
  <2> HIDE DEF hits, i
  <2> QED BY <1>1, <1>3, TheHit
<1>6. CASE Stale(p, q)
  <2>1. r.sample = NoSample /\ r.peer = p
    BY <1>2, <1>6
  <2> QED BY <1>6, <2>1 DEF AckGives
<1>7. CASE ~Stale(p, q)
  <2>1. r = [sample |-> IF usable THEN sample ELSE NoSample,
             peer |-> [p EXCEPT !.lastAck = q, !.ackInit = TRUE, !.slots = slots,
                                !.srtt = srtt, !.srttInit = init]]
    BY <1>2, <1>7
  <2>2. slots \in Seq(Slot) /\ Len(slots) <= RttSlots /\ OneEach(slots)
    <3>1. CASE hits = {}
      BY <1>1, <3>1
    <3>2. CASE hits # {}
      <4>1. PICK h \in DOMAIN p.slots : p.slots[h].seq = q
        BY <3>2
      <4>2. i = h
        BY <1>5, <4>1
      <4> HIDE DEF hits, i
      <4>3. Retired(p.slots, h, slots)
        BY <3>2, <4>2 DEF Retired
      <4> HIDE DEF slots
      <4>4. /\ slots \in Seq(Slot) /\ Len(slots) <= Len(p.slots) /\ h \in Nat
            /\ \A k \in DOMAIN slots : k \in Nat /\ k + h \in DOMAIN p.slots
                                       /\ slots[k] = p.slots[k + h]
        BY <1>1, <4>3, RetireFacts
      <4>5. OneEach(slots)
        <5> SUFFICES ASSUME NEW k \in DOMAIN slots, NEW m \in DOMAIN slots,
                            slots[k].seq = slots[m].seq
                     PROVE  k = m
          BY DEF OneEach
        <5>0. /\ k + h \in DOMAIN p.slots /\ m + h \in DOMAIN p.slots
              /\ p.slots[k + h].seq = p.slots[m + h].seq
          BY <4>4
        <5>1. k + h = m + h
          BY <1>1, <5>0 DEF OneEach
        <5> QED BY <4>4, <5>1
      <4>6. Len(p.slots) \in Nat /\ Len(slots) \in Nat
        BY <1>1, <4>4, LenProperties
      <4> QED BY <1>1, <4>4, <4>5, <4>6
    <3> QED BY <3>1, <3>2
  <2>3. usable => sample \in Nat
    <3> SUFFICES ASSUME usable PROVE sample \in Nat
      OBVIOUS
    <3>1. PICK h \in DOMAIN p.slots : p.slots[h].seq = q
      OBVIOUS
    <3>2. i = h
      BY <1>5, <3>1
    <3>3. slot \in Slot
      BY <1>1, <3>2, LenProperties, ElementOfSeq
    <3>4. slot.sent \in Nat /\ slot.sent <= t
      BY <3>3 DEF Slot
    <3> HIDE DEF slot
    <3> QED BY <3>4
  <2> HIDE DEF slots, hits, i
  <2>4. srtt \in Nat
    <3>1. CASE usable
      <4> DEFINE w == (7 * p.srtt + sample) \div 8
      <4>1. p.srtt \in Nat /\ sample \in Nat
        BY <1>1, <2>3, <3>1
      <4>2. srtt = IF p.srttInit THEN w ELSE sample
        BY <3>1 DEF Smooth
      <4> HIDE DEF sample
      <4>3. 7 * p.srtt + sample \in Nat
        BY <4>1
      <4>4. w \in Nat
        BY <4>3
      <4> HIDE DEF w, srtt
      <4> QED BY <4>1, <4>2, <4>4
    <3>2. CASE ~usable
      BY <1>1, <3>2
    <3> QED BY <3>1, <3>2
  <2>5. init \in BOOLEAN
    BY <1>1
  <2> HIDE DEF srtt, init
  <2>6. /\ r.peer \in [slots : Seq(Slot), lastAck : Seqs, ackInit : BOOLEAN,
                       srtt : Nat, srttInit : BOOLEAN, use : Nat]
        /\ r.peer.slots = slots /\ r.peer.lastAck = q /\ r.peer.ackInit = TRUE
        /\ r.peer.use = p.use
        /\ r.sample = IF usable THEN sample ELSE NoSample
    BY <1>1, <2>1, <2>2, <2>4, <2>5
  <2>7. RttRecord(r.peer)
    BY <2>2, <2>6 DEF RttRecord
  <2>8. ASSUME ~InRing(p.slots, q) PROVE r.sample = NoSample /\ r.peer.slots = p.slots
    BY <1>4, <2>6, <2>8 DEF slots
  <2>9. ASSUME NEW h \in DOMAIN p.slots, p.slots[h].seq = q
        PROVE  /\ Retired(p.slots, h, r.peer.slots)
               /\ r.sample = NoSample
                  \/ (~p.slots[h].ambiguous /\ r.sample = t - p.slots[h].sent)
    <3>1. i = h /\ hits # {}
      BY <1>4, <1>5, <2>9 DEF InRing
    <3>2. Retired(p.slots, h, r.peer.slots)
      BY <2>6, <3>1 DEF slots, Retired
    <3>3. r.sample = NoSample \/ (~p.slots[h].ambiguous /\ r.sample = t - p.slots[h].sent)
      BY <2>6, <3>1
    <3> QED BY <3>2, <3>3
  <2>10. HitAcked(p, q, t, r)
    BY <2>9 DEF HitAcked
  <2> QED BY <1>7, <2>6, <2>7, <2>8, <2>10 DEF AckGives
<1> QED BY <1>6, <1>7

-----------------------------------------------------------------------------
(* The tables after a claim *)

RingOf(tbl, a) == IF a \in DOMAIN tbl THEN tbl[a].ring ELSE << >>

\* What a claim of a makes of each table.
DamperKept(tbl, a, c) ==
  /\ DampenTable(c)
  /\ a \in DOMAIN c /\ DOMAIN c \subseteq DOMAIN tbl \cup {a}
  /\ \A b \in DOMAIN c : b # a => b \in DOMAIN tbl /\ c[b] = tbl[b]
  /\ DampenRecord(c[a]) /\ c[a].ring = RingOf(tbl, a)
  /\ DamperKnowsAll => DOMAIN c = DOMAIN tbl \cup {a}

\* The sampler's record of a once it is claimed.
RecordOf(tbl, a, t) ==
  IF a \in DOMAIN tbl THEN [tbl[a] EXCEPT !.use = t] ELSE NewRttPeer(t)

SamplerKept(tbl, a, t, c) ==
  /\ RttTable(c)
  /\ a \in DOMAIN c /\ DOMAIN c \subseteq DOMAIN tbl \cup {a}
  /\ \A b \in DOMAIN c : b # a => b \in DOMAIN tbl /\ c[b] = tbl[b]
  /\ RttRecord(c[a]) /\ c[a] = RecordOf(tbl, a, t)
  /\ SamplerKnowsAll => DOMAIN c = DOMAIN tbl \cup {a}

ClaimedDamper(tbl, a, t, c) == Claimed(tbl, DampenPeers, a, NewDampenPeer(t), t, c)
ClaimedSampler(tbl, a, t, c) == Claimed(tbl, RttPeers, a, NewRttPeer(t), t, c)

LEMMA EmptyRing ==
  /\ \A S : << >> \in Seq(S)
  /\ Len(<< >>) = 0 /\ DOMAIN << >> = {} /\ OneEach(<< >>)
<1>1. DOMAIN << >> = {}
  OBVIOUS
<1>2. \A S : << >> \in Seq(S)
  BY EmptySeq
<1>3. Len(<< >>) = 0
  BY EmptySeq
<1> QED BY <1>1, <1>2, <1>3 DEF OneEach

LEMMA DamperClaim ==
  ASSUME NEW tbl, DampenTable(tbl), NEW a \in Addrs, NEW t \in Nat, NEW c,
         ClaimedDamper(tbl, a, t, c)
  PROVE  DamperKept(tbl, a, c)
<1>1. /\ DOMAIN tbl \subseteq Addrs
      /\ IsFiniteSet(DOMAIN tbl) /\ Cardinality(DOMAIN tbl) <= DampenPeers
      /\ \A b \in DOMAIN tbl : DampenRecord(tbl[b])
  BY DEF DampenTable
<1>2. \A b \in DOMAIN tbl : tbl[b].use \in Nat
  BY <1>1 DEF DampenRecord
<1>3. DampenPeers \in Nat \ {0}
  OBVIOUS
<1>4. /\ a \in DOMAIN c /\ DOMAIN c \subseteq DOMAIN tbl \cup {a}
      /\ IsFiniteSet(DOMAIN c) /\ Cardinality(DOMAIN c) <= DampenPeers
      /\ \A b \in DOMAIN c : b # a => b \in DOMAIN tbl /\ c[b] = tbl[b]
      /\ a \in DOMAIN tbl => DOMAIN c = DOMAIN tbl /\ c[a] = [tbl[a] EXCEPT !.use = t]
      /\ a \notin DOMAIN tbl => c[a] = NewDampenPeer(t)
      /\ Cardinality(DOMAIN tbl) < DampenPeers => DOMAIN c = DOMAIN tbl \cup {a}
  <2>1. ClaimKeeps(tbl, DampenPeers, a, NewDampenPeer(t), t, c)
    BY <1>1, <1>2, <1>3, ClaimFacts DEF ClaimedDamper
  <2> QED BY <2>1 DEF ClaimKeeps
<1>5. DampenRecord(c[a]) /\ c[a].ring = RingOf(tbl, a)
  <2>1. CASE a \in DOMAIN tbl
    <3>1. DampenRecord(tbl[a]) /\ c[a] = [tbl[a] EXCEPT !.use = t]
      BY <1>1, <1>4, <2>1
    <3> QED BY <2>1, <3>1 DEF DampenRecord, RingOf
  <2>2. CASE a \notin DOMAIN tbl
    <3>1. c[a] = [rtt |-> 0, ring |-> << >>, use |-> t]
      BY <1>4, <2>2 DEF NewDampenPeer
    <3>2. << >> \in Seq(Entry) /\ Len(<< >>) <= DampenSlots
      BY EmptyRing
    <3> QED BY <2>2, <3>1, <3>2, EmptyRing DEF DampenRecord, RingOf
  <2> QED BY <2>1, <2>2
<1>6. DampenTable(c)
  BY <1>1, <1>4, <1>5 DEF DampenTable
<1>7. ASSUME DamperKnowsAll PROVE DOMAIN c = DOMAIN tbl \cup {a}
  <2>1. CASE a \in DOMAIN tbl
    BY <1>4, <2>1
  <2>2. CASE a \notin DOMAIN tbl
    <3>1. Cardinality(DOMAIN tbl) < DampenPeers
      BY <1>1, <1>3, <1>7, <2>2, RoomForAll DEF DamperKnowsAll
    <3> QED BY <1>4, <3>1
  <2> QED BY <2>1, <2>2
<1> QED BY <1>4, <1>5, <1>6, <1>7 DEF DamperKept

LEMMA SamplerClaim ==
  ASSUME NEW tbl, RttTable(tbl), NEW a \in Addrs, NEW t \in Nat, NEW c,
         ClaimedSampler(tbl, a, t, c)
  PROVE  SamplerKept(tbl, a, t, c)
<1>1. /\ DOMAIN tbl \subseteq Addrs
      /\ IsFiniteSet(DOMAIN tbl) /\ Cardinality(DOMAIN tbl) <= RttPeers
      /\ \A b \in DOMAIN tbl : RttRecord(tbl[b])
  BY DEF RttTable
<1>2. \A b \in DOMAIN tbl : tbl[b].use \in Nat
  BY <1>1 DEF RttRecord
<1>3. RttPeers \in Nat \ {0}
  OBVIOUS
<1>4. /\ a \in DOMAIN c /\ DOMAIN c \subseteq DOMAIN tbl \cup {a}
      /\ IsFiniteSet(DOMAIN c) /\ Cardinality(DOMAIN c) <= RttPeers
      /\ \A b \in DOMAIN c : b # a => b \in DOMAIN tbl /\ c[b] = tbl[b]
      /\ a \in DOMAIN tbl => DOMAIN c = DOMAIN tbl /\ c[a] = [tbl[a] EXCEPT !.use = t]
      /\ a \notin DOMAIN tbl => c[a] = NewRttPeer(t)
      /\ Cardinality(DOMAIN tbl) < RttPeers => DOMAIN c = DOMAIN tbl \cup {a}
  <2>1. ClaimKeeps(tbl, RttPeers, a, NewRttPeer(t), t, c)
    BY <1>1, <1>2, <1>3, ClaimFacts DEF ClaimedSampler
  <2> QED BY <2>1 DEF ClaimKeeps
<1>5. RttRecord(c[a])
  <2>1. CASE a \in DOMAIN tbl
    <3>1. RttRecord(tbl[a]) /\ c[a] = [tbl[a] EXCEPT !.use = t]
      BY <1>1, <1>4, <2>1
    <3> QED BY <3>1 DEF RttRecord
  <2>2. CASE a \notin DOMAIN tbl
    <3>1. c[a] = [slots |-> << >>, lastAck |-> 0, ackInit |-> FALSE,
                  srtt |-> 0, srttInit |-> FALSE, use |-> t]
      BY <1>4, <2>2 DEF NewRttPeer
    <3>2. << >> \in Seq(Slot) /\ Len(<< >>) <= RttSlots /\ 0 \in Seqs
      BY EmptyRing DEF Seqs
    <3> QED BY <3>1, <3>2, EmptyRing DEF RttRecord
  <2> QED BY <2>1, <2>2
<1>6. RttTable(c)
  BY <1>1, <1>4, <1>5 DEF RttTable
<1>7. ASSUME SamplerKnowsAll PROVE DOMAIN c = DOMAIN tbl \cup {a}
  <2>1. CASE a \in DOMAIN tbl
    BY <1>4, <2>1
  <2>2. CASE a \notin DOMAIN tbl
    <3>1. Cardinality(DOMAIN tbl) < RttPeers
      BY <1>1, <1>3, <1>7, <2>2, RoomForAll DEF SamplerKnowsAll
    <3> QED BY <1>4, <3>1
  <2> QED BY <2>1, <2>2
<1>8. c[a] = RecordOf(tbl, a, t)
  BY <1>4 DEF RecordOf
<1> QED BY <1>4, <1>5, <1>6, <1>7, <1>8 DEF SamplerKept

\* A record of a table gives way to another.
Replaced(c, a, p, tbl) == tbl = [c EXCEPT ![a] = p]

LEMMA ReplacedFacts ==
  ASSUME NEW c, NEW a \in DOMAIN c, NEW p, NEW tbl, Replaced(c, a, p, tbl)
  PROVE  /\ DOMAIN tbl = DOMAIN c /\ tbl[a] = p
         /\ \A b \in DOMAIN c : b # a => tbl[b] = c[b]
         /\ DampenTable(c) /\ DampenRecord(p) => DampenTable(tbl)
         /\ RttTable(c) /\ RttRecord(p) => RttTable(tbl)
<1>1. /\ DOMAIN tbl = DOMAIN c /\ tbl[a] = p
      /\ \A b \in DOMAIN c : b # a => tbl[b] = c[b]
  BY DEF Replaced
<1>2. ASSUME DampenTable(c), DampenRecord(p) PROVE DampenTable(tbl)
  BY <1>1, <1>2 DEF DampenTable
<1>3. ASSUME RttTable(c), RttRecord(p) PROVE RttTable(tbl)
  BY <1>1, <1>3 DEF RttTable
<1> QED BY <1>1, <1>2, <1>3

-----------------------------------------------------------------------------
(* A datagram given to the send hook *)

LEMMA VerdictFacts ==
  ASSUME DampenTable(dampen), now \in Nat, NEW a \in Addrs, NEW q \in Seqs
  PROVE  AdmitKeeps(RingOf(dampen, a), q, now, Verdict(a, q))
<1> DEFINE c == Claim(dampen, DampenPeers, a, NewDampenPeer(now), now)
<1>1. ClaimedDamper(dampen, a, now, c)
  BY DEF ClaimedDamper, Claimed
<1>2. Admitted(c[a], q, now, Verdict(a, q))
  BY DEF Admitted, Verdict
<1> HIDE DEF c
<1>3. DampenRecord(c[a]) /\ c[a].ring = RingOf(dampen, a)
  <2>1. DamperKept(dampen, a, c)
    BY <1>1, DamperClaim
  <2> QED BY <2>1 DEF DamperKept
<1>4. AdmitKeeps(c[a].ring, q, now, Verdict(a, q))
  BY <1>2, <1>3, AdmitFacts
<1> QED BY <1>3, <1>4

Dropped(a, q) == DampenOn /\ Verdict(a, q).suppress

\* The damper's table after a send of q to a.
DamperSent(a, q) ==
  /\ ~DampenOn => UNCHANGED << dampen, dampenSock >>
  /\ DampenOn =>
       /\ dampenSock' = "p2p" /\ DampenTable(dampen')
       /\ a \in DOMAIN dampen' /\ DOMAIN dampen' \subseteq DOMAIN dampen \cup {a}
       /\ \A b \in DOMAIN dampen' : b # a => b \in DOMAIN dampen /\ dampen'[b] = dampen[b]
       /\ dampen'[a].ring = Verdict(a, q).ring
       /\ DamperKnowsAll => DOMAIN dampen' = DOMAIN dampen \cup {a}

LEMMA HookDamper ==
  ASSUME Typed, NEW a \in Addrs, NEW q \in Seqs, NEW k, Hook(a, q, k)
  PROVE  DamperSent(a, q)
<1> DEFINE c == Claim(dampen, DampenPeers, a, NewDampenPeer(now), now)
<1> DEFINE p == [c[a] EXCEPT !.ring = Verdict(a, q).ring]
<1>1. CASE ~DampenOn
  BY <1>1 DEF Hook, DamperSent
<1>2. CASE DampenOn
  <2>1. dampen' = [c EXCEPT ![a].ring = Verdict(a, q).ring] /\ dampenSock' = "p2p"
    BY <1>2 DEF Hook
  <2>2. ClaimedDamper(dampen, a, now, c)
    BY DEF ClaimedDamper, Claimed
  <2>3. Replaced(c, a, p, dampen')
    BY <2>1 DEF Replaced
  <2> HIDE DEF c
  <2>4. DampenTable(dampen) /\ now \in Nat
    BY DEF Typed
  <2>5. /\ DampenTable(c)
        /\ a \in DOMAIN c /\ DOMAIN c \subseteq DOMAIN dampen \cup {a}
        /\ \A b \in DOMAIN c : b # a => b \in DOMAIN dampen /\ c[b] = dampen[b]
        /\ DampenRecord(c[a])
        /\ DamperKnowsAll => DOMAIN c = DOMAIN dampen \cup {a}
    <3>1. DamperKept(dampen, a, c)
      BY <2>2, <2>4, DamperClaim
    <3> QED BY <3>1 DEF DamperKept
  <2>6. /\ Verdict(a, q).ring \in Seq(Entry) /\ Len(Verdict(a, q).ring) <= DampenSlots
        /\ OneEach(Verdict(a, q).ring)
    BY <2>4, VerdictFacts DEF AdmitKeeps
  <2>7. DampenRecord(p) /\ p.ring = Verdict(a, q).ring
    BY <2>5, <2>6 DEF DampenRecord
  <2> HIDE DEF p
  <2>8. /\ DOMAIN dampen' = DOMAIN c /\ dampen'[a] = p
        /\ \A b \in DOMAIN c : b # a => dampen'[b] = c[b]
        /\ DampenTable(dampen')
    BY <2>3, <2>5, <2>7, ReplacedFacts
  <2> QED BY <1>2, <2>1, <2>5, <2>7, <2>8 DEF DamperSent
<1> QED BY <1>1, <1>2

\* The sampler's table with a's record replaced by p.
SamplerHas(a, p, tbl) ==
  /\ RttTable(tbl) /\ a \in DOMAIN tbl /\ tbl[a] = p
  /\ DOMAIN tbl \subseteq DOMAIN rtt \cup {a}
  /\ \A b \in DOMAIN tbl : b # a => b \in DOMAIN rtt /\ tbl[b] = rtt[b]
  /\ SamplerKnowsAll => DOMAIN tbl = DOMAIN rtt \cup {a}

LEMMA SamplerUpdate ==
  ASSUME Typed, NEW a \in Addrs, NEW c, ClaimedSampler(rtt, a, now, c),
         NEW p, RttRecord(p), NEW tbl, Replaced(c, a, p, tbl)
  PROVE  SamplerHas(a, p, tbl)
<1>1. RttTable(rtt) /\ now \in Nat
  BY DEF Typed
<1>2. /\ RttTable(c)
      /\ a \in DOMAIN c /\ DOMAIN c \subseteq DOMAIN rtt \cup {a}
      /\ \A b \in DOMAIN c : b # a => b \in DOMAIN rtt /\ c[b] = rtt[b]
      /\ SamplerKnowsAll => DOMAIN c = DOMAIN rtt \cup {a}
  <2>1. SamplerKept(rtt, a, now, c)
    BY <1>1, SamplerClaim
  <2> QED BY <2>1 DEF SamplerKept
<1>3. /\ DOMAIN tbl = DOMAIN c /\ tbl[a] = p
      /\ \A b \in DOMAIN c : b # a => tbl[b] = c[b]
      /\ RttTable(tbl)
  BY <1>2, ReplacedFacts
<1> QED BY <1>2, <1>3 DEF SamplerHas

LEMMA RecordTyped ==
  ASSUME Typed, NEW a \in Addrs, NEW c, ClaimedSampler(rtt, a, now, c)
  PROVE  c[a] = RecordOf(rtt, a, now) /\ RttRecord(c[a])
<1>1. RttTable(rtt) /\ now \in Nat
  BY DEF Typed
<1>2. SamplerKept(rtt, a, now, c)
  BY <1>1, SamplerClaim
<1> QED BY <1>2 DEF SamplerKept

NewCopy(a, q, k) == [peer |-> a, seq |-> q, part |-> k, session |-> session, at |-> now]

\* A send of q finds its slot or a free one.
HasRoom(p, q) == InRing(p.slots, q) \/ Len(p.slots) < RttSlots

\* The sampler's table and the copies after a send of part k of q to a.
SamplerSent(a, q, k) ==
  /\ Dropped(a, q) => UNCHANGED << rtt, evicted, copies >>
  /\ ~Dropped(a, q) =>
       /\ copies' = copies \cup {NewCopy(a, q, k)}
       /\ evicted' \in BOOLEAN
       /\ ~evicted' => ~evicted /\ HasRoom(RecordOf(rtt, a, now), q)
       /\ \E p : /\ Recorded(RecordOf(rtt, a, now), q, now, p)
                 /\ RttRecord(RecordOf(rtt, a, now)) /\ SamplerHas(a, p, rtt')

LEMMA HookSampler ==
  ASSUME Typed, NEW a \in Addrs, NEW q \in Seqs, NEW k, Hook(a, q, k)
  PROVE  SamplerSent(a, q, k)
<1> DEFINE c == Claim(rtt, RttPeers, a, NewRttPeer(now), now)
<1> DEFINE p == RttSend(c[a], q, now)
<1>1. CASE Dropped(a, q)
  BY <1>1 DEF Hook, SamplerSent, Dropped
<1>2. CASE ~Dropped(a, q)
  <2>1. /\ rtt' = [c EXCEPT ![a] = p] /\ copies' = copies \cup {NewCopy(a, q, k)}
        /\ evicted' = (evicted \/ RttEvicts(c[a], q))
    BY <1>2 DEF Hook, Dropped, NewCopy
  <2>2. ClaimedSampler(rtt, a, now, c)
    BY DEF ClaimedSampler, Claimed
  <2>3. Recorded(c[a], q, now, p)
    BY DEF Recorded
  <2> HIDE DEF c, p
  <2>4. Replaced(c, a, p, rtt')
    BY <2>1 DEF Replaced
  <2>5. c[a] = RecordOf(rtt, a, now) /\ RttRecord(c[a])
    BY <2>2, RecordTyped
  <2>6. now \in Nat
    BY DEF Typed
  <2>7. RttRecord(p)
    BY <2>3, <2>5, <2>6, SendFacts
  <2>8. SamplerHas(a, p, rtt')
    BY <2>2, <2>4, <2>7, SamplerUpdate
  <2>9. evicted' \in BOOLEAN /\ (~evicted' => ~evicted /\ ~RttEvicts(c[a], q))
    BY <2>1
  <2>10. ~RttEvicts(c[a], q) => HasRoom(c[a], q)
    <3>1. c[a].slots \in Seq(Slot) /\ Len(c[a].slots) <= RttSlots
      BY <2>5 DEF RttRecord
    <3>2. Len(c[a].slots) \in Nat /\ RttSlots \in Nat
      BY <3>1, LenProperties
    <3>3. Len(c[a].slots) # RttSlots => Len(c[a].slots) < RttSlots
      BY <3>1, <3>2
    <3> QED BY <3>3 DEF RttEvicts, HasRoom, InRing
  <2> QED BY <1>2, <2>1, <2>3, <2>5, <2>8, <2>9, <2>10 DEF SamplerSent
<1> QED BY <1>1, <1>2

-----------------------------------------------------------------------------
(* The actions *)

\* Part k of q goes to a: the next datagram of its channel, or an earlier one.
Sends(a, q, k) ==
  /\ Hook(a, q, k)
  /\ q \in 1 .. MaxSeq /\ k \in 1 .. Parts /\ q <= next[a].seq
  /\ next' \in [Addrs -> [seq : Seqs, part : 1 .. Parts]]
  /\ \A b \in Addrs : next'[b].seq \in 1 .. MaxSeq + 1
  /\ \A b \in Addrs : b # a => next'[b] = next[b]
  /\ UNCHANGED << hand, late >>
  /\ q <= Newest(a) + 1 /\ q > Newest(a) - Flight
  /\ Newest(a)' = (IF q > Newest(a) THEN q ELSE Newest(a))
  /\ Handed(next'[a], q, k)
  /\ \A n, m : Handed(next[a], n, m) => Handed(next'[a], n, m)
  /\ \A n : Handed(next'[a], n, 1) => n = q \/ Handed(next[a], n, 1)
  /\ next[a] = First => q = 1

LEMMA NextTyped ==
  ASSUME Typed, NEW a \in Addrs
  PROVE  /\ next[a] \in [seq : Seqs, part : 1 .. Parts]
         /\ next[a].seq \in 1 .. MaxSeq + 1 /\ next[a].part \in 1 .. Parts
BY DEF Typed

LEMMA SendNextSends ==
  ASSUME Typed, NEW a \in Addrs, SendNext(a)
  PROVE  Sends(a, next[a].seq, next[a].part)
<1> DEFINE q == next[a].seq
<1> DEFINE k == next[a].part
<1> DEFINE n == IF k < Parts THEN [seq |-> q, part |-> k + 1] ELSE [seq |-> q + 1, part |-> 1]
<1>1. q \in 1 .. MaxSeq /\ k \in 1 .. Parts
  BY NextTyped DEF SendNext
<1>2. Hook(a, q, k) /\ next' = [next EXCEPT ![a] = n]
  BY DEF SendNext
<1>3. n \in [seq : Seqs, part : 1 .. Parts] /\ n.seq \in 1 .. MaxSeq + 1
  BY <1>1 DEF Seqs
<1>4. Handed(n, q, k) /\ \A i, m : Handed(next[a], i, m) => Handed(n, i, m)
  <2>1. CASE k < Parts
    BY <1>1, <2>1 DEF Handed
  <2>2. CASE ~(k < Parts)
    BY <1>1, <2>2 DEF Handed
  <2> QED BY <2>1, <2>2
<1>5. \A i : Handed(n, i, 1) => i = q \/ Handed(next[a], i, 1)
  <2>1. CASE k < Parts
    BY <1>1, <2>1 DEF Handed
  <2>2. CASE ~(k < Parts)
    BY <1>1, <2>2 DEF Handed
  <2> QED BY <2>1, <2>2
<1>6. q <= next[a].seq
  BY <1>1
<1>6a. Newest(a) = IF k > 1 THEN q ELSE q - 1
  BY DEF Newest
<1>6b. (IF n.part > 1 THEN n.seq ELSE n.seq - 1) = q
  BY <1>1
<1>7. next[a] = First => q = 1
  BY DEF First
<1> HIDE DEF q, k, n
<1>8. /\ next \in [Addrs -> [seq : Seqs, part : 1 .. Parts]]
      /\ \A b \in Addrs : next[b].seq \in 1 .. MaxSeq + 1
  BY DEF Typed
<1>9. next'[a] = n /\ \A b \in Addrs : b # a => next'[b] = next[b]
  BY <1>2, <1>8
<1>10. /\ next' \in [Addrs -> [seq : Seqs, part : 1 .. Parts]]
       /\ \A b \in Addrs : next'[b].seq \in 1 .. MaxSeq + 1
  BY <1>2, <1>3, <1>8
<1>10a. Newest(a)' = q
  BY <1>6b, <1>9 DEF Newest
<1>10b. /\ q <= Newest(a) + 1 /\ q > Newest(a) - Flight
        /\ q = IF q > Newest(a) THEN q ELSE Newest(a)
  <2>1. q \in Nat /\ Flight \in Nat \ {0}
    BY <1>1
  <2> QED BY <1>6a, <2>1
<1>10c. UNCHANGED << hand, late >>
  BY <1>2 DEF Hook
<1>11. Sends(a, q, k)
  BY <1>1, <1>2, <1>4, <1>5, <1>6, <1>7, <1>9, <1>10, <1>10a, <1>10b, <1>10c DEF Sends
<1> QED BY <1>11 DEF q, k

LEMMA ResendSends ==
  ASSUME Typed, NEW a \in Addrs, NEW q \in 1 .. MaxSeq, NEW k \in 1 .. Parts, Resend(a, q, k)
  PROVE  Sends(a, q, k)
<1>1. /\ Hook(a, q, k) /\ next' = next /\ q \in 1 .. Newest(a) /\ q > Newest(a) - Flight
      /\ (q < next[a].seq \/ k < next[a].part)
      /\ UNCHANGED << hand, late >>
  BY DEF Resend, MayRetry, Hook
<1>2. next[a].seq \in 1 .. MaxSeq + 1 /\ next[a].part \in 1 .. Parts
  BY NextTyped
<1>2a. /\ Newest(a) = IF next[a].part > 1 THEN next[a].seq ELSE next[a].seq - 1
       /\ Newest(a)' = Newest(a)
  BY <1>1 DEF Newest
<1>2b. q \in 1 .. next[a].seq /\ Newest(a) \in Nat
  BY <1>1, <1>2, <1>2a
<1>2c. /\ q <= Newest(a) + 1
       /\ Newest(a)' = IF q > Newest(a) THEN q ELSE Newest(a)
  BY <1>1, <1>2a, <1>2b
<1>3. Handed(next[a], q, k) /\ q <= next[a].seq
  BY <1>1, <1>2, <1>2b DEF Handed
<1>4. next[a] = First => q = 1
  BY <1>2b DEF First
<1>5. /\ next \in [Addrs -> [seq : Seqs, part : 1 .. Parts]]
      /\ \A b \in Addrs : next[b].seq \in 1 .. MaxSeq + 1
  BY DEF Typed
<1> QED BY <1>1, <1>2c, <1>3, <1>4, <1>5 DEF Sends

\* The sampler's table once an ack of q by a has been taken.
Takes(a, q) ==
  \E r : /\ Acked(RecordOf(rtt, a, now), q, now, r)
         /\ RttRecord(RecordOf(rtt, a, now)) /\ SamplerHas(a, r.peer, rtt')

LEMMA CopyTyped ==
  ASSUME Typed, NEW d \in copies
  PROVE  /\ d.peer \in Addrs /\ d.seq \in Seqs /\ d.part \in 1 .. Parts
         /\ d.session \in Nat /\ d.at \in Nat
<1>1. d \in Datagram
  BY DEF Typed
<1> QED BY <1>1 DEF Datagram

LEMMA HandTyped ==
  ASSUME Typed, NEW h \in hand
  PROVE  h.peer \in Addrs /\ h.seq \in 1 .. MaxSeq /\ h.seq \in Seqs
<1>1. h \in [peer : Addrs, seq : 1 .. MaxSeq]
  BY DEF Typed
<1> QED BY <1>1 DEF Seqs

LEMMA RecvTakes ==
  ASSUME Typed, NEW h \in hand, RttOnRecv(h)
  PROVE  Takes(h.peer, h.seq)
<1> DEFINE a == h.peer
<1> DEFINE c == Claim(rtt, RttPeers, a, NewRttPeer(now), now)
<1> DEFINE r == RttRecv(c[a], h.seq, now)
<1>0. a \in Addrs /\ h.seq \in Seqs /\ now \in Nat
  BY HandTyped DEF Typed
<1>1. rtt' = [c EXCEPT ![a] = r.peer]
  BY DEF RttOnRecv
<1>2. ClaimedSampler(rtt, a, now, c)
  BY DEF ClaimedSampler, Claimed
<1>3. Acked(c[a], h.seq, now, r)
  BY DEF Acked
<1> HIDE DEF c, r, a
<1>4. Replaced(c, a, r.peer, rtt')
  BY <1>1 DEF Replaced
<1>5. c[a] = RecordOf(rtt, a, now) /\ RttRecord(c[a])
  BY <1>0, <1>2, RecordTyped
<1>6. RttRecord(r.peer)
  BY <1>0, <1>3, <1>5, AckFacts DEF AckGives
<1>7. SamplerHas(a, r.peer, rtt')
  BY <1>0, <1>2, <1>4, <1>6, SamplerUpdate
<1>8. Takes(a, h.seq)
  BY <1>3, <1>5, <1>7 DEF Takes
<1> QED BY <1>8 DEF a

\* The governor's feed changes the estimates only.
FeedsOnly(tbl) ==
  /\ DampenTable(tbl) /\ DOMAIN tbl = DOMAIN dampen
  /\ \A a \in DOMAIN tbl : tbl[a].ring = dampen[a].ring

LEMMA GovFeedFeeds ==
  ASSUME Typed, GovFeed
  PROVE  FeedsOnly(dampen')
<1>1. /\ DOMAIN dampen' = DOMAIN dampen
      /\ \A a \in DOMAIN dampen :
           dampen'[a] = IF a \in DOMAIN gov.srtt THEN DampenSetRtt(dampen, a, gov.srtt[a])[a]
                        ELSE dampen[a]
  BY DEF GovFeed
<1>2. /\ DOMAIN dampen \subseteq Addrs
      /\ IsFiniteSet(DOMAIN dampen) /\ Cardinality(DOMAIN dampen) <= DampenPeers
      /\ \A a \in DOMAIN dampen : DampenRecord(dampen[a])
      /\ \A a \in DOMAIN gov.srtt : gov.srtt[a] \in Nat
  BY DEF Typed, DampenTable
<1>3. ASSUME NEW a \in DOMAIN dampen
      PROVE  DampenRecord(dampen'[a]) /\ dampen'[a].ring = dampen[a].ring
  <2>1. CASE a \in DOMAIN gov.srtt /\ gov.srtt[a] # 0
    <3>1. dampen'[a] = [dampen[a] EXCEPT !.rtt = gov.srtt[a]]
      BY <1>1, <2>1 DEF DampenSetRtt
    <3>2. gov.srtt[a] \in Nat /\ DampenRecord(dampen[a])
      BY <1>2, <2>1
    <3> QED BY <3>1, <3>2 DEF DampenRecord
  <2>2. CASE ~(a \in DOMAIN gov.srtt /\ gov.srtt[a] # 0)
    <3>1. dampen'[a] = dampen[a]
      BY <1>1, <2>2 DEF DampenSetRtt
    <3> QED BY <1>2, <3>1
  <2> QED BY <2>1, <2>2
<1> QED BY <1>1, <1>2, <1>3 DEF FeedsOnly, DampenTable

LEMMA NobodyFacts ==
  DampenTable(Nobody) /\ RttTable(Nobody) /\ DOMAIN Nobody = {}
<1>1. DOMAIN Nobody = {}
  BY DEF Nobody
<1>2. IsFiniteSet({}) /\ Cardinality({}) = 0
  BY FS_EmptySet
<1> QED BY <1>1, <1>2 DEF DampenTable, RttTable

-----------------------------------------------------------------------------
(* Type correctness *)

LEMMA InitTyped == Init => Typed
<1> SUFFICES ASSUME Init PROVE Typed
  OBVIOUS
<1>1. /\ next \in [Addrs -> [seq : Seqs, part : 1 .. Parts]]
      /\ \A a \in Addrs : next[a].seq \in 1 .. MaxSeq + 1
  BY DEF Init, First, Seqs
<1>2. /\ DampenTable(dampen) /\ RttTable(rtt)
      /\ gov.pc \in {"idle", "feed"} /\ DOMAIN gov.srtt = {}
  BY NobodyFacts DEF Init
<1>3. /\ now \in Nat /\ dampenSock \in Sockets \cup {"none"} /\ open \subseteq Sockets
      /\ copies = {} /\ hand = {} /\ late \subseteq Addrs /\ evicted \in BOOLEAN
  BY DEF Init
<1>4. session \in 1 .. MaxSession
  BY PeerSessionAssumption DEF Init
<1> QED BY <1>1, <1>2, <1>3, <1>4 DEF Typed

LEMMA SendsTyped ==
  ASSUME Typed, NEW a \in Addrs, NEW q, NEW k, Sends(a, q, k)
  PROVE  Typed'
<1>1. q \in 1 .. MaxSeq /\ k \in 1 .. Parts /\ q \in Seqs /\ Hook(a, q, k)
  BY DEF Sends, Seqs
<1>2. UNCHANGED << now, gov, open, session >>
  BY <1>1 DEF Hook
<1>3. DamperSent(a, q) /\ SamplerSent(a, q, k)
  BY <1>1, HookDamper, HookSampler
<1>4. DampenTable(dampen') /\ dampenSock' \in Sockets \cup {"none"}
  BY <1>3 DEF DamperSent, Typed, Sockets
<1>5. /\ RttTable(rtt') /\ evicted' \in BOOLEAN
      /\ copies' \subseteq Datagram /\ \A d \in copies' : d.seq \in 1 .. MaxSeq
  <2>1. CASE Dropped(a, q)
    BY <1>3, <2>1 DEF SamplerSent, Typed
  <2>2. CASE ~Dropped(a, q)
    <3>1. NewCopy(a, q, k) \in Datagram /\ NewCopy(a, q, k).seq \in 1 .. MaxSeq
      BY <1>1 DEF Typed, NewCopy, Datagram
    <3> QED BY <1>3, <2>2, <3>1 DEF SamplerSent, SamplerHas, Typed
  <2> QED BY <2>1, <2>2
<1> QED BY <1>2, <1>4, <1>5 DEF Sends, Typed

LEMMA CloseTyped ==
  ASSUME Typed, NEW s \in Sockets, Close(s)
  PROVE  Typed'
<1>1. DampenTable(dampen')
  BY NobodyFacts DEF Close, Typed
<1>2. RttTable(rtt')
  <2>1. CASE dampenSock = s
    <3> DEFINE D == DOMAIN rtt \ DOMAIN dampen
    <3>1. rtt' = [a \in D |-> rtt[a]]
      BY <2>1 DEF Close
    <3>2. /\ DOMAIN rtt \subseteq Addrs /\ D \in SUBSET DOMAIN rtt
          /\ IsFiniteSet(DOMAIN rtt) /\ Cardinality(DOMAIN rtt) <= RttPeers
          /\ \A a \in DOMAIN rtt : RttRecord(rtt[a])
      BY DEF Typed, RttTable
    <3>3. IsFiniteSet(D) /\ Cardinality(D) <= Cardinality(DOMAIN rtt)
      BY <3>2, FS_Subset
    <3>4. Cardinality(D) \in Nat /\ Cardinality(DOMAIN rtt) \in Nat
      BY <3>2, <3>3, FS_CardinalityType
    <3> HIDE DEF D
    <3>5. Cardinality(D) <= RttPeers
      BY <3>2, <3>3, <3>4
    <3> QED BY <3>1, <3>2, <3>3, <3>5 DEF RttTable
  <2>2. CASE dampenSock # s
    BY <2>2 DEF Close, Typed
  <2> QED BY <2>1, <2>2
<1>3. late' \subseteq Addrs
  <2>1. {h.peer : h \in hand} \subseteq Addrs
    BY HandTyped
  <2> QED BY <2>1 DEF Close, Typed
<1>4. /\ open' = open \ {s} /\ copies' \subseteq copies
      /\ dampenSock' = dampenSock \/ dampenSock' = "none"
      /\ UNCHANGED << now, gov, next, session, hand, evicted >>
  BY DEF Close
<1> QED BY <1>1, <1>2, <1>3, <1>4 DEF Typed

LEMMA GovCopyTyped ==
  ASSUME Typed, GovCopy
  PROVE  Typed'
<1> DEFINE sampled == {a \in DOMAIN rtt : rtt[a].srttInit}
<1>1. gov'.pc = "feed" /\ gov'.srtt = [a \in sampled |-> rtt[a].srtt]
  BY DEF GovCopy
<1>2. \A a \in DOMAIN rtt : a \in Addrs /\ rtt[a].srtt \in Nat
  BY DEF Typed, RttTable, RttRecord
<1>3. DOMAIN gov'.srtt \subseteq Addrs /\ \A a \in DOMAIN gov'.srtt : gov'.srtt[a] \in Nat
  BY <1>1, <1>2
<1> QED BY <1>1, <1>3 DEF GovCopy, Typed

LEMMA GovFeedTyped ==
  ASSUME Typed, GovFeed
  PROVE  Typed'
<1>1. DampenTable(dampen')
  BY GovFeedFeeds DEF FeedsOnly
<1>2. gov'.pc = "idle" /\ DOMAIN gov'.srtt = {}
  BY NobodyFacts DEF GovFeed
<1> QED BY <1>1, <1>2 DEF GovFeed, Typed

LEMMA NextIsTyped == Typed /\ [Next]_vars => Typed'
<1> SUFFICES ASSUME Typed, [Next]_vars PROVE Typed'
  OBVIOUS
<1>1. CASE \E a \in Addrs : SendNext(a)
  <2>1. PICK a \in Addrs : SendNext(a)
    BY <1>1
  <2>2. Sends(a, next[a].seq, next[a].part)
    BY <2>1, SendNextSends
  <2> QED BY <2>2, SendsTyped
<1>2. CASE \E a \in Addrs, q \in 1 .. MaxSeq, k \in 1 .. Parts : Resend(a, q, k)
  <2>1. PICK a \in Addrs, q \in 1 .. MaxSeq, k \in 1 .. Parts : Resend(a, q, k)
    BY <1>2
  <2>2. Sends(a, q, k)
    BY <2>1, ResendSends
  <2> QED BY <2>2, SendsTyped
<1>3. CASE SendLobby
  BY <1>3 DEF SendLobby, Typed, Sockets
<1>4. CASE \E d \in copies : Receive(d)
  <2>1. PICK d \in copies : Receive(d)
    BY <1>4
  <2> DEFINE h == [peer |-> d.peer, seq |-> d.seq]
  <2>2. h \in [peer : Addrs, seq : 1 .. MaxSeq]
    BY CopyTyped DEF Typed
  <2>3. /\ hand' = {h}
        /\ UNCHANGED << now, dampen, rtt, dampenSock, gov, open, next, session, copies,
                        late, evicted >>
    BY <2>1 DEF Receive
  <2> HIDE DEF h
  <2> QED BY <2>2, <2>3 DEF Typed
<1>4a. CASE \E h \in hand : RttOnRecv(h)
  <2>1. PICK h \in hand : RttOnRecv(h)
    BY <1>4a
  <2>2. RttTable(rtt')
    BY <2>1, RecvTakes DEF Takes, SamplerHas
  <2>3. /\ hand' = {}
        /\ UNCHANGED << now, dampen, dampenSock, gov, open, next, session, copies,
                        late, evicted >>
    BY <2>1 DEF RttOnRecv
  <2> QED BY <2>2, <2>3 DEF Typed
<1>5. CASE GovCopy
  BY <1>5, GovCopyTyped
<1>6. CASE GovFeed
  BY <1>6, GovFeedTyped
<1>7. CASE \E s \in Sockets : Close(s)
  BY <1>7, CloseTyped
<1>8. CASE Reopen \/ Reconnect
  <2>1. /\ next' = [a \in Addrs |-> First] /\ session' = session + 1 /\ session < MaxSession
        /\ UNCHANGED << now, dampen, rtt, dampenSock, gov, copies, hand, late, evicted >>
    BY <1>8 DEF Reopen, Reconnect
  <2>2. /\ next' \in [Addrs -> [seq : Seqs, part : 1 .. Parts]]
        /\ \A a \in Addrs : next'[a].seq \in 1 .. MaxSeq + 1
    BY <2>1 DEF First, Seqs
  <2>3. open' \subseteq Sockets
    BY <1>8 DEF Reopen, Reconnect, Typed, Sockets
  <2>4. session' \in 1 .. MaxSession
    BY <2>1 DEF Typed
  <2> QED BY <2>1, <2>2, <2>3, <2>4 DEF Typed
<1>9. CASE Tick
  BY <1>9 DEF Tick, Typed
<1>10. CASE UNCHANGED vars
  BY <1>10 DEF vars, Typed
<1> QED BY <1>1, <1>2, <1>3, <1>4, <1>4a, <1>5, <1>6, <1>7, <1>8, <1>9, <1>10 DEF Next

LEMMA TypedIsTypeOK == Typed => TypeOK
<1> SUFFICES ASSUME Typed PROVE TypeOK
  OBVIOUS
<1>1. \A a \in DOMAIN dampen :
       /\ dampen[a] \in [rtt : Nat, ring : Seq(Entry), use : Nat]
       /\ Len(dampen[a].ring) <= DampenSlots
       /\ \A i, j \in DOMAIN dampen[a].ring :
            dampen[a].ring[i].seq = dampen[a].ring[j].seq => i = j
  BY DEF Typed, DampenTable, DampenRecord, OneEach
<1>2. \A a \in DOMAIN rtt :
       /\ rtt[a] \in [slots : Seq(Slot), lastAck : Seqs, ackInit : BOOLEAN,
                      srtt : Nat, srttInit : BOOLEAN, use : Nat]
       /\ Len(rtt[a].slots) <= RttSlots
  BY DEF Typed, RttTable, RttRecord
<1>3. hand \subseteq [peer : Addrs, seq : Seqs] /\ Cardinality(hand) <= 1
  <2>1. \A h \in hand : h \in [peer : Addrs, seq : Seqs]
    <3> SUFFICES ASSUME NEW h \in hand PROVE h \in [peer : Addrs, seq : Seqs]
      OBVIOUS
    <3>1. h \in [peer : Addrs, seq : 1 .. MaxSeq]
      BY DEF Typed
    <3> QED BY <3>1, HandTyped
  <2>2. Cardinality(hand) = 0 \/ Cardinality(hand) = 1
    <3>1. \A h : Cardinality({h}) = 1
      BY FS_Singleton
    <3> QED BY <3>1, FS_EmptySet DEF Typed
  <2> QED BY <2>1, <2>2
<1> QED BY <1>1, <1>2, <1>3 DEF Typed, DampenTable, RttTable, TypeOK

\* The damper's and the sampler's tables and rings keep their types and sizes,
\* with one entry for a sequence at most, for any number of peers, whichever of
\* them the tables give up.
THEOREM TypeCorrect == Safety => []TypeOK
<1>1. Init => Typed
  BY InitTyped
<1>2. Typed /\ [Next]_vars => Typed'
  BY NextIsTyped
<1>3. Typed => TypeOK
  BY TypedIsTypeOK
<1> QED BY <1>1, <1>2, <1>3, PTL DEF Safety

-----------------------------------------------------------------------------
(* What the damper drops the network was just given *)

LEMMA EntryTyped ==
  ASSUME Typed, NEW a \in DOMAIN dampen, NEW i \in DOMAIN dampen[a].ring
  PROVE  /\ dampen[a].ring[i].seq \in Seqs /\ dampen[a].ring[i].last \in Nat
         /\ dampen[a].ring[i].window \in Nat
<1>1. dampen[a].ring \in Seq(Entry)
  BY DEF Typed, DampenTable, DampenRecord
<1>2. dampen[a].ring[i] \in Entry
  BY <1>1, LenProperties, ElementOfSeq
<1> QED BY <1>2 DEF Entry

LEMMA SuppressedHasCopy ==
  ASSUME DampenInv, NEW a \in Addrs, NEW q \in Seqs, Verdict(a, q).suppress
  PROVE  /\ a \in DOMAIN dampen /\ InRing(dampen[a].ring, q)
         /\ \E d \in copies : /\ d.peer = a /\ d.seq = q /\ d.session = session
                              /\ now - d.at < DampenMax
<1> DEFINE s == RingOf(dampen, a)
<1>1. DampenTable(dampen) /\ now \in Nat /\ Typed
  BY DEF DampenInv, Typed
<1>2. AdmitKeeps(s, q, now, Verdict(a, q))
  BY <1>1, VerdictFacts
<1>3. PICK i \in DOMAIN s : s[i].seq = q /\ now - s[i].last < s[i].window
  BY <1>2 DEF AdmitKeeps
<1>4. a \in DOMAIN dampen /\ s = dampen[a].ring
  BY <1>3, EmptyRing DEF RingOf
<1> HIDE DEF s
<1>5. Covered(a, s[i], copies, now, session)
  BY <1>3, <1>4 DEF DampenInv, EntriesCovered
<1>6. s[i].last \in Nat /\ s[i].window \in Nat /\ s[i].window <= DampenMax
  BY <1>1, <1>3, <1>4, <1>5, EntryTyped DEF Covered
<1>7. now - s[i].last < DampenMax
  BY <1>1, <1>3, <1>6
<1>8. PICK d \in copies : d.peer = a /\ d.seq = s[i].seq /\ d.session = session /\ d.at = s[i].last
  BY <1>5, <1>7 DEF Covered
<1> QED BY <1>3, <1>4, <1>7, <1>8 DEF InRing

LEMMA InitDamper == Init => CopiesTrue /\ SocketTrue /\ EntriesCovered
BY NobodyFacts DEF Init, CopiesTrue, SocketTrue, EntriesCovered

\* A copy that was true stays so as time and the channel advance.
LEMMA CopyStaysTrue ==
  ASSUME Typed, Typed', NEW d \in copies, CopyTrue(d, now, session, next),
         now' >= now, session' = session,
         \A n, m : Handed(next[d.peer], n, m) => Handed(next'[d.peer], n, m)
  PROVE  CopyTrue(d, now', session', next')
<1>1. d.at \in Nat /\ d.session \in Nat /\ now \in Nat /\ now' \in Nat
  BY CopyTyped DEF Typed
<1> QED BY <1>1 DEF CopyTrue

LEMMA SendsCopies ==
  ASSUME DampenInv, Typed', NEW a \in Addrs, NEW q, NEW k, Sends(a, q, k)
  PROVE  CopiesTrue' /\ SocketTrue'
<1>1. q \in 1 .. MaxSeq /\ k \in 1 .. Parts /\ q \in Seqs /\ Hook(a, q, k)
  BY DEF Sends, Seqs
<1>2. "p2p" \in open /\ UNCHANGED << now, gov, open, session >>
  BY <1>1 DEF Hook
<1>3. DamperSent(a, q) /\ SamplerSent(a, q, k) /\ Typed
  BY <1>1, HookDamper, HookSampler DEF DampenInv
<1>4. \A d \in copies' : d \in copies \/ d = NewCopy(a, q, k)
  BY <1>3 DEF SamplerSent
<1>5. ASSUME NEW d \in copies PROVE CopyTrue(d, now', session', next')
  <2>1. CopyTrue(d, now, session, next) /\ d.peer \in Addrs
    BY <1>3, CopyTyped DEF DampenInv, CopiesTrue
  <2>2. \A n, m : Handed(next[d.peer], n, m) => Handed(next'[d.peer], n, m)
    BY <2>1 DEF Sends
  <2>3. now' >= now
    BY <1>2 DEF DampenInv, Typed
  <2> QED BY <1>2, <1>3, <2>1, <2>2, <2>3, CopyStaysTrue
<1>6. CopyTrue(NewCopy(a, q, k), now', session', next')
  <2>1. Handed(next'[a], q, k) /\ now \in Nat /\ session \in Nat
    BY DEF Sends, DampenInv, Typed
  <2> QED BY <1>1, <1>2, <2>1 DEF CopyTrue, NewCopy
<1>7. CopiesTrue'
  BY <1>2, <1>4, <1>5, <1>6 DEF CopiesTrue
<1>8. copies' # {}
  <2>1. CASE Dropped(a, q)
    <3>1. \E d \in copies : d.peer = a
      BY <1>1, <2>1, SuppressedHasCopy DEF Dropped
    <3> QED BY <1>3, <2>1, <3>1 DEF SamplerSent
  <2>2. CASE ~Dropped(a, q)
    BY <1>3, <2>2 DEF SamplerSent
  <2> QED BY <2>1, <2>2
<1>9. SocketTrue'
  BY <1>3, <1>8 DEF DamperSent, SocketTrue, DampenInv
<1> QED BY <1>7, <1>9

LEMMA SendsEntries ==
  ASSUME DampenInv, NEW a \in Addrs, NEW q, NEW k, Sends(a, q, k)
  PROVE  EntriesCovered'
<1>1. q \in 1 .. MaxSeq /\ k \in 1 .. Parts /\ q \in Seqs /\ Hook(a, q, k)
  BY DEF Sends, Seqs
<1>2. UNCHANGED << now, session >>
  BY <1>1 DEF Hook
<1>3. DamperSent(a, q) /\ SamplerSent(a, q, k) /\ Typed /\ DampenTable(dampen) /\ now \in Nat
  BY <1>1, HookDamper, HookSampler DEF DampenInv, Typed
<1>4. copies \subseteq copies'
  BY <1>3 DEF SamplerSent
<1>5. \A b, e : Covered(b, e, copies, now, session) => Covered(b, e, copies', now', session')
  BY <1>2, <1>4 DEF Covered
<1>6. CASE ~DampenOn
  BY <1>3, <1>5, <1>6 DEF DamperSent, DampenInv, EntriesCovered
<1>7. CASE DampenOn
  <2> DEFINE s == RingOf(dampen, a)
  <2> DEFINE v == Verdict(a, q)
  <2>1. AdmitKeeps(s, q, now, v)
    BY <1>1, <1>3, VerdictFacts
  <2>2. \A j \in DOMAIN s : Covered(a, s[j], copies, now, session)
    <3>1. CASE a \in DOMAIN dampen
      BY <3>1 DEF RingOf, DampenInv, EntriesCovered
    <3>2. CASE a \notin DOMAIN dampen
      BY <3>2, EmptyRing DEF RingOf
    <3> QED BY <3>1, <3>2
  <2> HIDE DEF s, v
  <2>3. /\ \A b \in DOMAIN dampen' : b # a => b \in DOMAIN dampen /\ dampen'[b] = dampen[b]
        /\ dampen'[a].ring = v.ring
    BY <1>3, <1>7 DEF DamperSent, v
  <2>4. ASSUME NEW i \in DOMAIN v.ring
        PROVE  Covered(a, v.ring[i], copies', now', session')
    <3>1. CASE \E j \in DOMAIN s : v.ring[i] = s[j]
      BY <1>5, <2>2, <3>1
    <3>2. CASE ~v.suppress /\ Fresh(v.ring[i], q, now)
      <4>1. ~Dropped(a, q)
        BY <3>2 DEF Dropped, v
      <4>2. NewCopy(a, q, k) \in copies'
        BY <1>3, <4>1 DEF SamplerSent
      <4>3. /\ NewCopy(a, q, k).peer = a /\ NewCopy(a, q, k).seq = q
            /\ NewCopy(a, q, k).session = session /\ NewCopy(a, q, k).at = now
        BY DEF NewCopy
      <4>4. v.ring[i].seq = q /\ v.ring[i].last = now /\ v.ring[i].window <= DampenMax
        BY <3>2 DEF Fresh
      <4>5. v.ring[i].last <= now'
        BY <1>2, <1>3, <4>4
      <4> QED BY <1>2, <4>2, <4>3, <4>4, <4>5 DEF Covered
    <3> QED BY <2>1, <3>1, <3>2 DEF AdmitKeeps
  <2> SUFFICES ASSUME NEW b \in DOMAIN dampen', NEW i \in DOMAIN dampen'[b].ring
               PROVE  Covered(b, dampen'[b].ring[i], copies', now', session')
    BY DEF EntriesCovered
  <2>5. CASE b = a
    BY <2>3, <2>4, <2>5
  <2>6. CASE b # a
    <3>1. b \in DOMAIN dampen /\ dampen'[b] = dampen[b]
      BY <2>3, <2>6
    <3>2. Covered(b, dampen[b].ring[i], copies, now, session)
      BY <3>1 DEF DampenInv, EntriesCovered
    <3> QED BY <1>5, <3>1, <3>2
  <2> QED BY <2>5, <2>6
<1> QED BY <1>6, <1>7

\* Entries stay covered as time passes and while the copies stay.
LEMMA EntriesStayCovered ==
  ASSUME Typed, EntriesCovered, now' \in Nat, now' >= now, session' = session,
         copies' = copies, DOMAIN dampen' = DOMAIN dampen,
         \A a \in DOMAIN dampen : dampen'[a].ring = dampen[a].ring
  PROVE  EntriesCovered'
<1> SUFFICES ASSUME NEW a \in DOMAIN dampen, NEW i \in DOMAIN dampen[a].ring
             PROVE  Covered(a, dampen[a].ring[i], copies, now', session)
  BY DEF EntriesCovered
<1>1. Covered(a, dampen[a].ring[i], copies, now, session)
  BY DEF EntriesCovered
<1>2. dampen[a].ring[i].last \in Nat /\ now \in Nat
  BY EntryTyped DEF Typed
<1>3. dampen[a].ring[i].last <= now' /\
      (now' - dampen[a].ring[i].last < DampenMax => now - dampen[a].ring[i].last < DampenMax)
  BY <1>1, <1>2 DEF Covered
<1> QED BY <1>1, <1>3 DEF Covered

\* The close of a socket keeps the entries and the copies, or forgets the peers.
LEMMA CloseForgets ==
  ASSUME SocketTrue, NEW s \in Sockets, Close(s)
  PROVE  /\ dampen' = dampen \/ DOMAIN dampen' = {}
         /\ copies' = copies \/ copies' = {}
         /\ s = "p2p" => copies' = {} /\ DOMAIN dampen' = {}
         /\ s # "p2p" => copies' = copies
         /\ s # "p2p" => (dampen' = dampen /\ rtt' = rtt)
                         \/ (DOMAIN dampen = {} /\ DOMAIN dampen' = {} /\ copies = {})
<1>1. /\ dampen' = IF dampenSock = s THEN Nobody ELSE dampen
      /\ copies' = IF s = "p2p" THEN {} ELSE copies
      /\ dampenSock # s => rtt' = rtt
  BY DEF Close
<1>2. DOMAIN Nobody = {}
  BY NobodyFacts
<1>3. s = "p2p" \/ s = "lobby"
  BY DEF Sockets
<1>4. CASE s = "p2p"
  BY <1>1, <1>2, <1>4 DEF SocketTrue
<1>5. CASE s = "lobby"
  <2>1. dampenSock = s => copies = {} /\ DOMAIN dampen = {}
    BY <1>5, PeerSessionAssumption DEF SocketTrue
  <2> QED BY <1>1, <1>2, <1>5, <2>1
<1> QED BY <1>3, <1>4, <1>5

LEMMA CloseDamper ==
  ASSUME DampenInv, NEW s \in Sockets, Close(s)
  PROVE  CopiesTrue' /\ SocketTrue' /\ EntriesCovered'
<1>1. /\ dampen' = dampen \/ DOMAIN dampen' = {}
      /\ copies' = copies \/ copies' = {}
      /\ s = "p2p" => copies' = {} /\ DOMAIN dampen' = {}
      /\ s # "p2p" => copies' = copies
  BY CloseForgets DEF DampenInv
<1>2. /\ open' = open \ {s} /\ UNCHANGED << now, next, session >>
      /\ dampenSock' = IF dampenSock = s THEN "none" ELSE dampenSock
  BY DEF Close
<1>3. CopiesTrue'
  BY <1>1, <1>2 DEF CopiesTrue, DampenInv
<1>4. SocketTrue'
  BY <1>1, <1>2 DEF SocketTrue, DampenInv
<1>5. EntriesCovered'
  <2>1. CASE DOMAIN dampen' = {}
    BY <2>1 DEF EntriesCovered
  <2>2. CASE dampen' = dampen /\ copies' = copies
    BY <1>2, <2>2 DEF EntriesCovered, DampenInv
  <2>3. CASE dampen' = dampen /\ copies' = {}
    <3>1. copies' = copies \/ DOMAIN dampen' = {}
      BY <1>1
    <3> QED BY <2>1, <2>2, <2>3, <3>1
  <2> QED BY <1>1, <2>1, <2>2, <2>3
<1> QED BY <1>3, <1>4, <1>5

LEMMA RestartDamper ==
  ASSUME DampenInv, Typed', Reopen \/ Reconnect
  PROVE  CopiesTrue' /\ SocketTrue' /\ EntriesCovered'
<1>1. /\ session' = session + 1 /\ UNCHANGED << now, dampen, dampenSock, copies >>
      /\ copies = {} \/ (\A d \in copies : now - d.at >= DampenMax)
      /\ "p2p" \in open'
  BY DEF Reopen, Reconnect, DampenInv, CopiesTrue
<1>2. Typed /\ session \in Nat /\ now \in Nat
  BY DEF DampenInv, Typed
<1>3. CopiesTrue'
  <2> SUFFICES ASSUME NEW d \in copies PROVE CopyTrue(d, now, session', next')
    BY <1>1 DEF CopiesTrue
  <2>1. CopyTrue(d, now, session, next) /\ d.session \in Nat
    BY <1>2, CopyTyped DEF DampenInv, CopiesTrue
  <2> QED BY <1>1, <1>2, <2>1 DEF CopyTrue
<1>4. SocketTrue'
  BY <1>1 DEF SocketTrue, DampenInv
<1>5. EntriesCovered'
  <2> SUFFICES ASSUME NEW a \in DOMAIN dampen, NEW i \in DOMAIN dampen[a].ring
               PROVE  Covered(a, dampen[a].ring[i], copies, now, session')
    BY <1>1 DEF EntriesCovered
  <2>1. Covered(a, dampen[a].ring[i], copies, now, session)
    BY DEF DampenInv, EntriesCovered
  <2>2. dampen[a].ring[i].last \in Nat
    BY <1>2, EntryTyped
  <2>3. ~(now - dampen[a].ring[i].last < DampenMax)
    <3> SUFFICES ASSUME now - dampen[a].ring[i].last < DampenMax PROVE FALSE
      OBVIOUS
    <3>1. PICK d \in copies : d.at = dampen[a].ring[i].last
      BY <2>1 DEF Covered
    <3>2. now - d.at >= DampenMax
      BY <1>1, <3>1
    <3> QED BY <1>2, <2>2, <3>1, <3>2
  <2> QED BY <2>1, <2>3 DEF Covered
<1> QED BY <1>3, <1>4, <1>5

LEMMA NextDamper ==
  ASSUME LobbyIsIdle
  PROVE  DampenInv /\ [Next]_vars => DampenInv'
<1> SUFFICES ASSUME DampenInv, [Next]_vars
             PROVE  CopiesTrue' /\ SocketTrue' /\ EntriesCovered' /\ Typed'
  BY DEF DampenInv
<1>0. Typed /\ Typed' /\ now \in Nat /\ now' \in Nat
  BY NextIsTyped DEF DampenInv, Typed
<1>1. CASE \E a \in Addrs : SendNext(a)
  <2>1. PICK a \in Addrs : SendNext(a)
    BY <1>1
  <2>2. Sends(a, next[a].seq, next[a].part)
    BY <1>0, <2>1, SendNextSends
  <2> QED BY <1>0, <2>2, SendsCopies, SendsEntries
<1>2. CASE \E a \in Addrs, q \in 1 .. MaxSeq, k \in 1 .. Parts : Resend(a, q, k)
  <2>1. PICK a \in Addrs, q \in 1 .. MaxSeq, k \in 1 .. Parts : Resend(a, q, k)
    BY <1>2
  <2>2. Sends(a, q, k)
    BY <1>0, <2>1, ResendSends
  <2> QED BY <1>0, <2>2, SendsCopies, SendsEntries
<1>3. CASE SendLobby
  <2>1. /\ copies = {} /\ UNCHANGED << now, dampen, open, next, session, copies >>
        /\ dampenSock' = IF DampenOn THEN "lobby" ELSE dampenSock
    BY <1>3 DEF SendLobby, LobbyIsIdle
  <2>2. CopiesTrue' /\ SocketTrue'
    BY <2>1 DEF CopiesTrue, SocketTrue, DampenInv
  <2>3. EntriesCovered'
    BY <2>1 DEF EntriesCovered, DampenInv
  <2> QED BY <1>0, <2>2, <2>3
<1>4. CASE (\E d \in copies : Receive(d)) \/ (\E h \in hand : RttOnRecv(h))
  <2>1. UNCHANGED << now, dampen, dampenSock, open, next, session, copies >>
    BY <1>4 DEF Receive, RttOnRecv
  <2> QED BY <1>0, <2>1 DEF CopiesTrue, SocketTrue, EntriesCovered, DampenInv
<1>5. CASE GovCopy \/ UNCHANGED vars
  <2>1. UNCHANGED << now, dampen, dampenSock, open, next, session, copies >>
    BY <1>5 DEF GovCopy, vars
  <2> QED BY <1>0, <2>1 DEF CopiesTrue, SocketTrue, EntriesCovered, DampenInv
<1>6. CASE GovFeed
  <2>1. UNCHANGED << now, dampenSock, open, next, session, copies >>
    BY <1>6 DEF GovFeed
  <2>2. DOMAIN dampen' = DOMAIN dampen /\ \A a \in DOMAIN dampen : dampen'[a].ring = dampen[a].ring
    BY <1>0, <1>6, GovFeedFeeds DEF FeedsOnly
  <2>3. EntriesCovered'
    BY <1>0, <2>1, <2>2, EntriesStayCovered DEF DampenInv
  <2> QED BY <1>0, <2>1, <2>2, <2>3 DEF CopiesTrue, SocketTrue, DampenInv
<1>7. CASE \E s \in Sockets : Close(s)
  BY <1>0, <1>7, CloseDamper
<1>8. CASE Reopen \/ Reconnect
  BY <1>0, <1>8, RestartDamper
<1>9. CASE Tick
  <2>1. now' = now + 1 /\ UNCHANGED << dampen, dampenSock, open, next, session, copies >>
    BY <1>9 DEF Tick
  <2>2. now' >= now
    BY <1>0, <2>1
  <2>3. EntriesCovered'
    BY <1>0, <2>1, <2>2, EntriesStayCovered DEF DampenInv
  <2>4. \A d \in copies : CopyTrue(d, now', session', next')
    <3> SUFFICES ASSUME NEW d \in copies PROVE CopyTrue(d, now', session', next')
      OBVIOUS
    <3>1. CopyTrue(d, now, session, next)
      BY DEF DampenInv, CopiesTrue
    <3> QED BY <1>0, <2>1, <2>2, <3>1, CopyStaysTrue
  <2> QED BY <1>0, <2>1, <2>3, <2>4 DEF CopiesTrue, SocketTrue, DampenInv
<1> QED BY <1>1, <1>2, <1>3, <1>4, <1>5, <1>6, <1>7, <1>8, <1>9 DEF Next

LEMMA DamperInvariant ==
  ASSUME LobbyIsIdle
  PROVE  Safety => []DampenInv
<1>1. Init => DampenInv
  BY InitTyped, InitDamper DEF DampenInv
<1>2. DampenInv /\ [Next]_vars => DampenInv'
  BY NextDamper
<1> QED BY <1>1, <1>2, PTL DEF Safety

\* A retry is suppressed only while a copy of that very message, given to the
\* network in this session, is younger than the ceiling of the window, provided
\* the lobby socket is idle during the session: however often the retry timer
\* fires, and whichever peers the table gives up.
THEOREM SuppressionIsCovered ==
  ASSUME LobbyIsIdle
  PROVE  Safety => []SuppressedIsCovered
<1>1. DampenInv => SuppressedIsCovered
  <2> SUFFICES ASSUME DampenInv, NEW a \in Addrs, NEW q \in 1 .. MaxSeq, Verdict(a, q).suppress
               PROVE  \E d \in copies : /\ d.peer = a /\ d.seq = q /\ d.session = session
                                        /\ now - d.at < DampenMax
    BY DEF SuppressedIsCovered
  <2>1. q \in Seqs
    BY DEF Seqs
  <2> QED BY <2>1, SuppressedHasCopy
<1> QED BY <1>1, DamperInvariant, PTL

\* "A first transmission always goes" (send_dampen.h:12), where a message is one
\* datagram and the lobby socket is idle during a session.
THEOREM FirstGoes ==
  ASSUME LobbyIsIdle, Parts = 1
  PROVE  Safety => []FirstTransmissionGoes
<1>1. DampenInv => FirstTransmissionGoes
  <2> SUFFICES ASSUME DampenInv, NEW a \in Addrs, Verdict(a, next[a].seq).suppress
               PROVE  FALSE
    BY DEF FirstTransmissionGoes
  <2>1. next[a].seq \in Seqs /\ next[a].part = 1
    BY NextTyped DEF DampenInv
  <2>2. PICK d \in copies : d.peer = a /\ d.seq = next[a].seq /\ d.session = session
    BY <2>1, SuppressedHasCopy
  <2>3. Handed(next[a], next[a].seq, d.part)
    BY <2>2 DEF DampenInv, CopiesTrue, CopyTrue
  <2>4. next[a].seq \in Nat /\ d.part \in Nat /\ d.part >= 1
    BY <2>1, <2>3 DEF Handed, Seqs
  <2> QED BY <2>1, <2>3, <2>4 DEF Handed
<1> QED BY <1>1, DamperInvariant, PTL

-----------------------------------------------------------------------------
(* The end of a session *)

LEMMA CloseSampler ==
  ASSUME NEW s \in Sockets, Close(s)
  PROVE  /\ DOMAIN rtt' \subseteq DOMAIN rtt
         /\ \A a \in DOMAIN rtt' : rtt'[a] = rtt[a]
         /\ DOMAIN dampen = {} => DOMAIN rtt' = DOMAIN rtt
         /\ dampenSock = s => DOMAIN rtt' = DOMAIN rtt \ DOMAIN dampen
         /\ dampenSock # s => rtt' = rtt
         /\ late \ DOMAIN dampen \subseteq late'
         /\ s = "p2p" => \A h \in hand : h.peer \in late'
         /\ DOMAIN dampen = {} \/ dampenSock # s => late \subseteq late'
<1>0. late' = (IF dampenSock = s THEN late \ DOMAIN dampen ELSE late)
               \cup (IF s = "p2p" THEN {h.peer : h \in hand} ELSE {})
  BY DEF Close
<1>1. rtt' = IF dampenSock = s THEN [a \in DOMAIN rtt \ DOMAIN dampen |-> rtt[a]] ELSE rtt
  BY DEF Close
<1>2. CASE dampenSock = s
  BY <1>0, <1>1, <1>2
<1>3. CASE dampenSock # s
  BY <1>0, <1>1, <1>3
<1> QED BY <1>2, <1>3

LEMMA NextAgree ==
  ASSUME DampenOn, LobbyIsIdle, DamperKnowsAll
  PROVE  DampenInv /\ TablesAgree /\ [Next]_vars => TablesAgree'
<1> SUFFICES ASSUME DampenInv, TablesAgree, [Next]_vars
             PROVE  TablesAgree'
  OBVIOUS
<1>0. Typed
  BY DEF DampenInv
<1>1. ASSUME NEW a \in Addrs, NEW q, NEW k, Sends(a, q, k) PROVE TablesAgree'
  <2>1. q \in Seqs /\ Hook(a, q, k)
    BY <1>1 DEF Sends, Seqs
  <2>2. "p2p" \in open' /\ open' = open /\ UNCHANGED << hand, late >>
    BY <2>1 DEF Hook
  <2>3. DamperSent(a, q) /\ SamplerSent(a, q, k)
    BY <1>0, <2>1, HookDamper, HookSampler
  <2>4. DOMAIN dampen' = DOMAIN dampen \cup {a}
    BY <2>3 DEF DamperSent
  <2>5. /\ \A d \in copies' : d \in copies \/ d.peer = a
        /\ DOMAIN rtt' \subseteq DOMAIN rtt \cup {a}
    BY <2>3 DEF SamplerSent, SamplerHas, NewCopy
  <2> QED BY <2>2, <2>4, <2>5 DEF TablesAgree
<1>2. CASE \E a \in Addrs : SendNext(a)
  <2>1. PICK a \in Addrs : SendNext(a)
    BY <1>2
  <2>2. Sends(a, next[a].seq, next[a].part)
    BY <1>0, <2>1, SendNextSends
  <2> QED BY <1>1, <2>2
<1>3. CASE \E a \in Addrs, q \in 1 .. MaxSeq, k \in 1 .. Parts : Resend(a, q, k)
  <2>1. PICK a \in Addrs, q \in 1 .. MaxSeq, k \in 1 .. Parts : Resend(a, q, k)
    BY <1>3
  <2>2. Sends(a, q, k)
    BY <1>0, <2>1, ResendSends
  <2> QED BY <1>1, <2>2
<1>4. CASE \E d \in copies : Receive(d)
  <2>1. PICK d \in copies : Receive(d)
    BY <1>4
  <2>2. UNCHANGED << dampen, rtt, open, copies, late >>
        /\ \A h \in hand' : h.peer = d.peer
    BY <2>1 DEF Receive
  <2> QED BY <2>1, <2>2 DEF TablesAgree
<1>4a. CASE \E h \in hand : RttOnRecv(h)
  <2>1. PICK h \in hand : RttOnRecv(h)
    BY <1>4a
  <2>2. UNCHANGED << dampen, open, copies, late >> /\ hand' = {}
    BY <2>1 DEF RttOnRecv
  <2>3. DOMAIN rtt' \subseteq DOMAIN rtt \cup {h.peer}
    BY <1>0, <2>1, RecvTakes DEF Takes, SamplerHas
  <2> QED BY <2>1, <2>2, <2>3 DEF TablesAgree
<1>5. CASE SendLobby \/ GovCopy \/ Tick \/ UNCHANGED vars
  <2>1. UNCHANGED << dampen, rtt, open, copies, hand, late >>
    BY <1>5 DEF SendLobby, GovCopy, Tick, vars
  <2> QED BY <2>1 DEF TablesAgree
<1>6. CASE GovFeed
  <2>1. UNCHANGED << rtt, open, copies, hand, late >>
    BY <1>6 DEF GovFeed
  <2>2. DOMAIN dampen' = DOMAIN dampen
    BY <1>0, <1>6, GovFeedFeeds DEF FeedsOnly
  <2> QED BY <2>1, <2>2 DEF TablesAgree
<1>7. CASE \E s \in Sockets : Close(s)
  <2>1. PICK s \in Sockets : Close(s)
    BY <1>7
  <2>2. open' = open \ {s} /\ SocketTrue /\ hand' = hand
    BY <2>1 DEF Close, DampenInv
  <2>3. /\ s = "p2p" => copies' = {} /\ DOMAIN dampen' = {}
        /\ s # "p2p" => copies' = copies
        /\ s # "p2p" => (dampen' = dampen /\ rtt' = rtt)
                         \/ (DOMAIN dampen = {} /\ DOMAIN dampen' = {} /\ copies = {})
    BY <2>1, <2>2, CloseForgets
  <2>4. /\ DOMAIN rtt' \subseteq DOMAIN rtt
        /\ dampenSock = s => DOMAIN rtt' = DOMAIN rtt \ DOMAIN dampen
        /\ late \ DOMAIN dampen \subseteq late'
        /\ s = "p2p" => \A h \in hand : h.peer \in late'
        /\ DOMAIN dampen = {} \/ dampenSock # s => late \subseteq late'
    BY <2>1, CloseSampler
  <2>5. CASE s = "p2p"
    <3>1. dampenSock = s \/ DOMAIN dampen = {}
      BY <2>2, <2>5 DEF SocketTrue
    <3>2. DOMAIN rtt' \subseteq late'
      BY <2>4, <3>1 DEF TablesAgree
    <3> QED BY <2>2, <2>3, <2>4, <2>5, <3>2 DEF TablesAgree
  <2>6. CASE s # "p2p"
    <3>1. dampenSock # s \/ DOMAIN dampen = {}
      BY <2>2, <2>6, PeerSessionAssumption DEF SocketTrue, Sockets
    <3> QED BY <2>2, <2>3, <2>4, <2>6, <3>1 DEF TablesAgree
  <2> QED BY <2>5, <2>6
<1>8. CASE Reopen \/ Reconnect
  <2>1. UNCHANGED << dampen, rtt, copies, hand, late >> /\ "p2p" \in open'
    BY <1>8 DEF Reopen, Reconnect
  <2> QED BY <2>1 DEF TablesAgree
<1> QED BY <1>2, <1>3, <1>4, <1>4a, <1>5, <1>6, <1>7, <1>8 DEF Next

\* With the damper on, a record for every peer and an idle lobby socket, the
\* close of the P2P socket leaves no record in either table, and only a datagram
\* in hand at the close can bring the sampler's back.
THEOREM SessionForgotten ==
  ASSUME DampenOn, LobbyIsIdle, DamperKnowsAll
  PROVE  Safety => []SessionEndForgets
<1>1. Init => TablesAgree
  BY NobodyFacts DEF Init, TablesAgree
<1>2. DampenInv /\ TablesAgree /\ [Next]_vars => TablesAgree'
  BY NextAgree
<1>3. TablesAgree => SessionEndForgets
  BY DEF TablesAgree, SessionEndForgets
<1>4. Safety => []DampenInv
  BY DamperInvariant
<1> QED BY <1>1, <1>2, <1>3, <1>4, PTL DEF Safety

-----------------------------------------------------------------------------
(* A live message is not taken for a restart *)

\* Within half of its range the counter's order is that of the messages.
LEMMA Behind ==
  ASSUME CounterIsWide, NEW s, RingRuns(s), NEW q \in 1 .. MaxSeq
  PROVE  s[1].seq \in 1 .. MaxSeq /\ (SeqCmp(q, s[1].seq) < 0 <=> q < s[1].seq)
<1>1. 1 \in DOMAIN s
  BY DEF RingRuns
<1>2. s[1].seq \in 1 .. MaxSeq
  BY <1>1 DEF RingRuns
<1>3. SeqCmp(q, s[1].seq) = q - s[1].seq
  BY <1>2, CmpIsDifference
<1> QED BY <1>2, <1>3

\* A ring that runs on holds what lies between its ends.
LEMMA RunIncludes ==
  ASSUME NEW s \in Seq(Entry), RingRuns(s), NEW q \in 1 .. MaxSeq,
         s[1].seq \in 1 .. MaxSeq, s[1].seq <= q, q <= s[1].seq + (Len(s) - 1)
  PROVE  InRing(s, q)
<1> DEFINE i == q - s[1].seq + 1
<1>1. DOMAIN s = 1 .. Len(s) /\ Len(s) \in Nat
  BY LenProperties
<1>2. i \in DOMAIN s
  BY <1>1
<1>3. s[i].seq = s[1].seq + (i - 1)
  BY <1>2 DEF RingRuns
<1>4. s[i].seq = q
  BY <1>3
<1> QED BY <1>2, <1>4 DEF InRing

\* A send of a message that is new or may be sent again, m being the newest of
\* the channel before: the ring s2 after it still runs on, and holds.
LEMMA AdmitRuns ==
  ASSUME CounterIsWide, DamperRingFits,
         NEW s \in Seq(Entry), NEW q \in 1 .. MaxSeq, NEW m \in 0 .. MaxSeq, NEW t, NEW v,
         AdmitKeeps(s, q, t, v), Len(s) <= DampenSlots,
         IF s = << >> THEN m = 0 ELSE RingRuns(s) /\ RingHolds(s, m),
         q <= m + 1, q > m - Flight,
         NEW m2 \in 1 .. MaxSeq, m2 = IF q > m THEN q ELSE m
  PROVE  RingRuns(v.ring) /\ RingHolds(v.ring, m2)
<1> DEFINE s2 == v.ring
<1> DEFINE h == s[1].seq
<1>0. s2 \in Seq(Entry) /\ s2 # << >>
  BY DEF AdmitKeeps
<1>1. DOMAIN s = 1 .. Len(s) /\ Len(s) \in Nat /\ DOMAIN s2 = 1 .. Len(s2) /\ Len(s2) \in Nat
  BY <1>0, LenProperties
<1>2. /\ q \in Nat /\ m \in Nat /\ m2 \in Nat /\ MaxSeq \in Nat /\ Flight \in Nat \ {0}
      /\ DampenSlots \in Nat \ {0} /\ Flight <= DampenSlots
  BY DEF DamperRingFits
<1>3. s # << >> => /\ RingRuns(s) /\ RingHolds(s, m)
                   /\ h \in 1 .. MaxSeq /\ (SeqCmp(q, h) < 0 <=> q < h)
  BY Behind
<1>4. s # << >> => Len(s) >= 1
  BY <1>1, EmptySeq
\* An empty ring, or one that begins behind the message, holds it alone: it is
\* the first of its channel.
<1>5. CASE s = << >> \/ SeqCmp(q, s[1].seq) < 0
  <2>1. Len(s2) = 1 /\ s2[1].seq = q
    BY <1>5 DEF AdmitKeeps
  <2>2. m = 0
    <3>1. CASE s = << >>
      BY <3>1
    <3>2. CASE s # << >>
      <4>1. q < h
        BY <1>3, <1>5, <3>2
      <4> HIDE DEF h
      <4>2. m >= 1 => h = 1 \/ h <= m - DampenSlots + 1
        BY <1>3, <3>2 DEF RingHolds, h
      <4> QED BY <1>2, <1>3, <3>2, <4>1, <4>2
    <3> QED BY <3>1, <3>2
  <2>3. q = 1 /\ m2 = 1
    BY <1>2, <2>2
  <2> HIDE DEF s2
  <2>4. \A i \in DOMAIN s2 : i = 1
    BY <1>1, <2>1
  <2> QED BY <1>0, <1>2, <2>1, <2>3, <2>4 DEF RingRuns, RingHolds, s2
<1>6. CASE s # << >> /\ ~(SeqCmp(q, s[1].seq) < 0)
  <2>1. q >= h /\ h \in 1 .. MaxSeq
    BY <1>2, <1>3, <1>6
  <2>2. \A i \in DOMAIN s : s[i].seq \in 1 .. MaxSeq /\ s[i].seq = h + (i - 1)
    BY <1>3, <1>6 DEF RingRuns
  <2>3. m >= 1 => m <= h + (Len(s) - 1) /\ (h = 1 \/ h <= m - DampenSlots + 1)
    BY <1>3, <1>6 DEF RingHolds
  <2>4. CASE InRing(s, q)
    <3>1. Len(s2) = Len(s) /\ \A i \in DOMAIN s : s2[i].seq = s[i].seq
      BY <1>6, <2>4 DEF AdmitKeeps, SameSeqs
    <3>2. PICK i \in DOMAIN s : s[i].seq = q
      BY <2>4 DEF InRing
    <3>3. q <= h + (Len(s) - 1)
      BY <1>1, <2>1, <2>2, <3>2
    <3>4. 1 \in DOMAIN s
      BY <1>1, <1>4, <1>6
    <3> HIDE DEF h, s2
    <3>5. s2[1].seq = h
      BY <3>1, <3>4 DEF h
    <3>6. RingRuns(s2)
      BY <1>0, <1>1, <2>2, <3>1, <3>5 DEF RingRuns, s2
    <3>7. RingHolds(s2, m2)
      <4>1. m2 <= h + (Len(s) - 1)
        BY <1>2, <2>3, <3>3
      <4>2. h = 1 \/ h <= m2 - DampenSlots + 1
        BY <1>2, <2>1, <2>3
      <4> QED BY <3>1, <3>5, <4>1, <4>2 DEF RingHolds
    <3> QED BY <3>6, <3>7 DEF s2
  \* A message the ring lacks is the next one, and the ring ends with the last.
  <2>5. CASE ~InRing(s, q)
    <3>1. Pushes(s, q, s2)
      BY <1>6, <2>5 DEF AdmitKeeps
    <3>2. ~(q <= h + (Len(s) - 1))
      BY <1>3, <1>6, <2>1, <2>5, RunIncludes
    <3> HIDE DEF h, s2
    <3>3. q > h + (Len(s) - 1) /\ Len(s) >= 1
      BY <1>1, <1>4, <1>6, <2>1, <3>2
    <3>4. m >= 1
      BY <1>1, <1>2, <2>1, <3>3
    <3>5. q = m + 1 /\ m = h + (Len(s) - 1) /\ m2 = m + 1
      BY <1>1, <1>2, <2>1, <2>3, <3>3, <3>4
    <3>6. CASE Len(s) < DampenSlots
      <4>1. /\ s2[Len(s2)].seq = q /\ Len(s2) = Len(s) + 1
            /\ \A i \in DOMAIN s2 : i = Len(s2) \/ (i \in DOMAIN s /\ s2[i] = s[i])
        BY <3>1, <3>6 DEF Pushes
      <4>2. ASSUME NEW i \in DOMAIN s2
            PROVE  s2[i].seq \in 1 .. MaxSeq /\ s2[i].seq = h + (i - 1)
        <5>1. CASE i = Len(s2)
          BY <1>1, <2>1, <3>5, <4>1, <5>1
        <5>2. CASE i \in DOMAIN s /\ s2[i] = s[i]
          BY <2>2, <5>2
        <5> QED BY <4>1, <5>1, <5>2
      <4>3. 1 \in DOMAIN s2
        BY <1>1, <4>1
      <4>4. s2[1].seq = h
        BY <2>1, <4>2, <4>3
      <4>5. RingRuns(s2)
        BY <1>0, <4>2, <4>4 DEF RingRuns, s2
      <4>6. RingHolds(s2, m2)
        BY <1>1, <1>2, <2>1, <2>3, <3>4, <3>5, <4>1, <4>4 DEF RingHolds
      <4> QED BY <4>5, <4>6 DEF s2
    <3>7. CASE ~(Len(s) < DampenSlots)
      <4>1. /\ s2[Len(s2)].seq = q /\ Len(s2) = DampenSlots /\ Len(s) = DampenSlots
            /\ \A i \in DOMAIN s2 : i = Len(s2) \/ (i + 1 \in DOMAIN s /\ s2[i] = s[i + 1])
        BY <3>1, <3>7 DEF Pushes
      <4>2. \A i \in DOMAIN s2 : s2[i].seq \in 1 .. MaxSeq /\ s2[i].seq = (h + 1) + (i - 1)
        <5> SUFFICES ASSUME NEW i \in DOMAIN s2
                     PROVE  s2[i].seq \in 1 .. MaxSeq /\ s2[i].seq = (h + 1) + (i - 1)
          OBVIOUS
        <5>1. i \in Nat
          BY <1>1
        <5>2. CASE i = Len(s2)
          BY <1>1, <1>2, <2>1, <3>5, <4>1, <5>1, <5>2
        <5>3. CASE i # Len(s2)
          <6>1. i + 1 \in DOMAIN s /\ s2[i] = s[i + 1]
            BY <4>1, <5>3
          <6>2. s[i + 1].seq \in 1 .. MaxSeq /\ s[i + 1].seq = h + ((i + 1) - 1)
            BY <2>2, <6>1
          <6> QED BY <2>1, <5>1, <6>1, <6>2
        <5> QED BY <5>2, <5>3
      <4>3. 1 \in DOMAIN s2
        BY <1>1, <1>2, <4>1
      <4>4. s2[1].seq = h + 1
        BY <2>1, <4>2, <4>3
      <4>5. RingRuns(s2)
        BY <1>0, <4>2, <4>4 DEF RingRuns, s2
      <4>6. RingHolds(s2, m2)
        <5>1. m2 = h + DampenSlots /\ s2[1].seq = h + 1 /\ Len(s2) = DampenSlots
          BY <1>2, <2>1, <3>5, <4>1, <4>4
        <5>2. /\ m2 <= s2[1].seq + (Len(s2) - 1)
              /\ s2[1].seq <= m2 - DampenSlots + 1
          BY <1>2, <2>1, <5>1
        <5> QED BY <5>2 DEF RingHolds
      <4> QED BY <4>5, <4>6 DEF s2
    <3> QED BY <3>6, <3>7
  <2> QED BY <2>4, <2>5
<1> QED BY <1>5, <1>6

LEMMA NewestTyped ==
  ASSUME Typed, NEW a \in Addrs
  PROVE  Newest(a) \in 0 .. MaxSeq + 1 /\ (next[a] = First => Newest(a) = 0)
<1>1. next[a].seq \in 1 .. MaxSeq + 1 /\ next[a].part \in 1 .. Parts
  BY NextTyped
<1> QED BY <1>1 DEF Newest, First

LEMMA SendsRing ==
  ASSUME DamperKnowsAll, CounterIsWide, DamperRingFits, DampenInv, RingsHold, DampenOn,
         NEW a \in Addrs, NEW q, NEW k, Sends(a, q, k)
  PROVE  RingRuns(Verdict(a, q).ring) /\ RingHolds(Verdict(a, q).ring, Newest(a)')
<1> DEFINE s == RingOf(dampen, a)
<1> DEFINE v == Verdict(a, q)
<1> DEFINE m == Newest(a)
<1>1. /\ q \in 1 .. MaxSeq /\ q \in Seqs /\ Hook(a, q, k) /\ "p2p" \in open
      /\ q <= m + 1 /\ q > m - Flight
  BY DEF Sends, Seqs, Hook
<1>2. AdmitKeeps(s, q, now, v)
  BY <1>1, VerdictFacts DEF DampenInv, Typed
<1>3. s \in Seq(Entry) /\ Len(s) <= DampenSlots
  <2>1. CASE a \in DOMAIN dampen
    BY <2>1 DEF RingOf, DampenInv, Typed, DampenTable, DampenRecord
  <2>2. CASE a \notin DOMAIN dampen
    BY <2>2, EmptyRing DEF RingOf
  <2> QED BY <2>1, <2>2
<1>4. m \in 0 .. MaxSeq + 1 /\ (next[a] = First => m = 0)
  BY NewestTyped DEF DampenInv
<1>5. IF s = << >> THEN m = 0 ELSE RingRuns(s) /\ RingHolds(s, m)
  <2>1. CASE a \in DOMAIN dampen
    BY <2>1 DEF RingOf, RingsHold, RingRuns
  <2>2. CASE a \notin DOMAIN dampen
    BY <1>1, <1>4, <2>2 DEF RingOf, RingsHold
  <2> QED BY <2>1, <2>2
<1> HIDE DEF s, v, m
<1>6. m \in 0 .. MaxSeq
  <2>1. CASE s = << >>
    BY <1>5, <2>1
  <2>2. CASE s # << >>
    <3>1. DOMAIN s = 1 .. Len(s) /\ Len(s) \in Nat
      BY <1>3, LenProperties
    <3>2. Len(s) >= 1
      BY <1>3, <2>2, <3>1, EmptySeq
    <3>3. /\ s[Len(s)].seq \in 1 .. MaxSeq /\ s[Len(s)].seq = s[1].seq + (Len(s) - 1)
          /\ m >= 1 => m <= s[1].seq + (Len(s) - 1)
      BY <1>5, <2>2, <3>1, <3>2 DEF RingRuns, RingHolds
    <3> QED BY <1>4, <3>3
  <2> QED BY <2>1, <2>2
<1>7. PICK m2 : m2 = Newest(a)'
  OBVIOUS
<1>8. m2 = IF q > m THEN q ELSE m
  BY <1>7 DEF Sends, m
<1>9. m2 \in 1 .. MaxSeq
  BY <1>1, <1>6, <1>8
<1>10. RingRuns(v.ring) /\ RingHolds(v.ring, m2)
  BY <1>1, <1>2, <1>3, <1>5, <1>6, <1>8, <1>9, AdmitRuns
<1> QED BY <1>7, <1>10 DEF v

LEMMA NextRings ==
  ASSUME LobbyIsIdle, DamperKnowsAll, CounterIsWide, DamperRingFits
  PROVE  DampenInv /\ RingsHold /\ [Next]_vars => RingsHold'
<1> SUFFICES ASSUME DampenInv, RingsHold, [Next]_vars
             PROVE  RingsHold'
  OBVIOUS
<1>0. Typed
  BY DEF DampenInv
<1>1. ASSUME NEW a \in Addrs, NEW q, NEW k, Sends(a, q, k) PROVE RingsHold'
  <2>1. q \in Seqs /\ Hook(a, q, k)
    BY <1>1 DEF Sends, Seqs
  <2>2. open' = open
    BY <2>1 DEF Hook
  <2>3. DamperSent(a, q)
    BY <1>0, <2>1, HookDamper
  <2>4. CASE ~DampenOn
    BY <1>0, <2>3, <2>4 DEF DamperSent, RingsHold, DampenInv, SocketTrue
  <2>5. CASE DampenOn
    <3>1. RingRuns(Verdict(a, q).ring) /\ RingHolds(Verdict(a, q).ring, Newest(a)')
      BY <1>1, <2>5, SendsRing
    <3>2. /\ DOMAIN dampen' = DOMAIN dampen \cup {a}
          /\ \A b \in DOMAIN dampen' : b # a => b \in DOMAIN dampen /\ dampen'[b] = dampen[b]
          /\ dampen'[a].ring = Verdict(a, q).ring
      BY <2>3, <2>5 DEF DamperSent
    <3>3. \A b \in Addrs : b # a => next'[b] = next[b]
      BY <1>1 DEF Sends
    <3>4. DOMAIN dampen \subseteq Addrs
      BY <1>0 DEF Typed, DampenTable
    <3>5. ASSUME NEW b \in DOMAIN dampen'
          PROVE  RingRuns(dampen'[b].ring) /\ RingHolds(dampen'[b].ring, Newest(b)')
      <4>1. CASE b = a
        BY <3>1, <3>2, <4>1
      <4>2. CASE b # a
        <5>1. b \in DOMAIN dampen /\ dampen'[b] = dampen[b] /\ next'[b] = next[b]
          BY <3>2, <3>3, <3>4, <4>2
        <5>2. Newest(b)' = Newest(b)
          BY <5>1 DEF Newest
        <5> QED BY <5>1, <5>2 DEF RingsHold
      <4> QED BY <4>1, <4>2
    <3> QED BY <2>2, <3>2, <3>3, <3>5 DEF RingsHold
  <2> QED BY <2>4, <2>5
<1>2. CASE \E a \in Addrs : SendNext(a)
  <2>1. PICK a \in Addrs : SendNext(a)
    BY <1>2
  <2>2. Sends(a, next[a].seq, next[a].part)
    BY <1>0, <2>1, SendNextSends
  <2> QED BY <1>1, <2>2
<1>3. CASE \E a \in Addrs, q \in 1 .. MaxSeq, k \in 1 .. Parts : Resend(a, q, k)
  <2>1. PICK a \in Addrs, q \in 1 .. MaxSeq, k \in 1 .. Parts : Resend(a, q, k)
    BY <1>3
  <2>2. Sends(a, q, k)
    BY <1>0, <2>1, ResendSends
  <2> QED BY <1>1, <2>2
<1>4. CASE SendLobby \/ (\E d \in copies : Receive(d)) \/ (\E h \in hand : RttOnRecv(h))
           \/ GovCopy \/ Tick \/ UNCHANGED vars
  <2>1. UNCHANGED << dampen, open, next >>
    BY <1>4 DEF SendLobby, Receive, RttOnRecv, GovCopy, Tick, vars
  <2> QED BY <2>1 DEF RingsHold, Newest
<1>5. CASE GovFeed
  <2>1. UNCHANGED << open, next >>
    BY <1>5 DEF GovFeed
  <2>2. DOMAIN dampen' = DOMAIN dampen /\ \A a \in DOMAIN dampen : dampen'[a].ring = dampen[a].ring
    BY <1>0, <1>5, GovFeedFeeds DEF FeedsOnly
  <2> QED BY <2>1, <2>2 DEF RingsHold, Newest
<1>6. CASE \E s \in Sockets : Close(s)
  <2>1. PICK s \in Sockets : Close(s)
    BY <1>6
  <2>2. open' = open \ {s} /\ next' = next /\ SocketTrue
    BY <2>1 DEF Close, DampenInv
  <2>3. /\ s = "p2p" => DOMAIN dampen' = {}
        /\ s # "p2p" => dampen' = dampen \/ (DOMAIN dampen = {} /\ DOMAIN dampen' = {})
    BY <2>1, <2>2, CloseForgets
  <2>4. CASE s = "p2p"
    BY <2>2, <2>3, <2>4 DEF RingsHold
  <2>5. CASE s # "p2p"
    BY <2>2, <2>3, <2>5 DEF RingsHold, Newest
  <2> QED BY <2>4, <2>5
<1>7. CASE Reopen \/ Reconnect
  <2>1. dampen' = dampen /\ \A a \in Addrs : next'[a] = First
    BY <1>7 DEF Reopen, Reconnect
  <2>2. DOMAIN dampen \subseteq Addrs
    BY <1>0 DEF Typed, DampenTable
  <2>3. \A a \in DOMAIN dampen : Newest(a)' = 0
    BY <2>1, <2>2 DEF Newest, First
  <2>4. \A s : RingHolds(s, 0)
    BY DEF RingHolds
  <2> QED BY <2>1, <2>3, <2>4 DEF RingsHold
<1> QED BY <1>2, <1>3, <1>4, <1>5, <1>6, <1>7 DEF Next

\* "A live duplicate is necessarily inside the retained set and never triggers
\* the reset" (send_dampen.h:207): in a session of any length, however much the
\* ring has evicted, what the game may still send again is in the ring and is
\* not taken for a restart, if the ring holds as many messages as the game may
\* send again, with a record for every peer and an idle lobby socket.
THEOREM LiveIsNoRestart ==
  ASSUME LobbyIsIdle, DamperKnowsAll, CounterIsWide, DamperRingFits
  PROVE  Safety => []ResetMeansRestart
<1>1. Init => RingsHold
  BY NobodyFacts DEF Init, RingsHold
<1>2. DampenInv /\ RingsHold /\ [Next]_vars => RingsHold'
  BY NextRings
<1>3. DampenInv /\ RingsHold => ResetMeansRestart
  <2> SUFFICES ASSUME DampenInv, RingsHold, DampenOn, "p2p" \in open,
                      NEW a \in Addrs, NEW q \in 1 .. MaxSeq, MayRetry(a, q)
               PROVE  /\ a \in DOMAIN dampen
                      /\ \E i \in DOMAIN dampen[a].ring : dampen[a].ring[i].seq = q
                      /\ ~Verdict(a, q).restart
    BY DEF ResetMeansRestart
  <2> DEFINE s == RingOf(dampen, a)
  <2> DEFINE m == Newest(a)
  <2>0. /\ q \in Seqs /\ q \in Nat /\ q <= m /\ q > m - Flight /\ m \in Nat
        /\ Flight \in Nat /\ DampenSlots \in Nat /\ Flight <= DampenSlots
        /\ (next[a] = First => m = 0)
    BY NewestTyped DEF Seqs, MayRetry, DampenInv, DamperRingFits
  <2>1. a \in DOMAIN dampen
    BY <2>0 DEF RingsHold
  <2>2. s = dampen[a].ring /\ RingRuns(s) /\ RingHolds(s, m) /\ s \in Seq(Entry)
    BY <2>1 DEF RingOf, RingsHold, DampenInv, Typed, DampenTable, DampenRecord
  <2>3. AdmitKeeps(s, q, now, Verdict(a, q))
    BY <2>0, VerdictFacts DEF DampenInv, Typed
  <2> HIDE DEF s, m
  <2>4. s[1].seq \in 1 .. MaxSeq /\ (SeqCmp(q, s[1].seq) < 0 <=> q < s[1].seq)
    BY <2>2, Behind
  <2>5. m <= s[1].seq + (Len(s) - 1) /\ (s[1].seq = 1 \/ s[1].seq <= m - DampenSlots + 1)
    BY <2>0, <2>2 DEF RingHolds
  <2>6. Len(s) \in Nat
    BY <2>2, LenProperties
  <2>7. s[1].seq <= q /\ q <= s[1].seq + (Len(s) - 1)
    BY <2>0, <2>4, <2>5, <2>6, SMTT(30)
  <2>8. InRing(s, q)
    BY <2>2, <2>4, <2>7, RunIncludes
  <2>9. ~(q < s[1].seq)
    BY <2>0, <2>4, <2>7
  <2>10. ~Verdict(a, q).restart
    BY <2>3, <2>4, <2>9 DEF AdmitKeeps
  <2> QED BY <2>1, <2>2, <2>8, <2>10 DEF InRing
<1>4. Safety => []DampenInv
  BY DamperInvariant
<1> QED BY <1>1, <1>2, <1>3, <1>4, PTL DEF Safety

-----------------------------------------------------------------------------
(* A sample measures the copy that was acknowledged *)

\* What the sampler's record of one peer owes its copies.
RecordTrue(p, a, cps) == RttRecord(p) /\ SlotsOrdered(p) /\ SlotsTrue(p, a, cps)

LEMMA LiveSame ==
  ASSUME NEW p, NEW v, SameAcks(p, v), NEW q
  PROVE  Live(v, q) <=> Live(p, q)
BY DEF SameAcks, Live

\* The record v of p, and every message before q, keep their slots; q has one.
RingKeeps(p, q, v) ==
  /\ InRing(v.slots, q)
  /\ \A n : InRing(p.slots, n) => InRing(v.slots, n)

\* A slot of v is the new one of q, sent at t, or one of p.
NewOrKept(p, q, t, v) ==
  \A i \in DOMAIN v.slots :
    \/ v.slots[i].seq = q /\ v.slots[i].sent = t
    \/ i \in DOMAIN p.slots /\ v.slots[i] = p.slots[i]

LEMMA SendOrdered ==
  ASSUME NEW p, RttRecord(p), SlotsOrdered(p),
         NEW q \in 1 .. MaxSeq, HasRoom(p, q), NEW t \in Nat, NEW v, Recorded(p, q, t, v),
         \A n \in 1 .. q - 1 : Live(p, n) => InRing(p.slots, n)
  PROVE  /\ RingKeeps(p, q, v) /\ SlotsOrdered(v)
         /\ ~InRing(p.slots, q) => NewOrKept(p, q, t, v)
<1>1. q \in Seqs /\ q \in Nat
  BY DEF Seqs
<1>2. /\ RttRecord(v) /\ SameAcks(p, v)
      /\ InRing(p.slots, q) => Marked(p.slots, q, v.slots)
      /\ ~InRing(p.slots, q) => Pushed(p.slots, RttSlots, NewSlot(q, t), v.slots)
  BY <1>1, SendFacts
<1>3. \A n : Live(v, n) <=> Live(p, n)
  BY <1>2, LiveSame
<1>4. /\ v.ackInit => v.lastAck \in 1 .. MaxSeq
      /\ \A i \in DOMAIN p.slots : p.slots[i].seq \in 1 .. MaxSeq
      /\ \A i, j \in DOMAIN p.slots :
           i < j /\ Live(v, p.slots[i].seq) /\ Live(v, p.slots[j].seq)
             => p.slots[i].seq < p.slots[j].seq
      /\ \A i \in DOMAIN p.slots : \A n \in 1 .. p.slots[i].seq :
           Live(v, n) => InRing(p.slots, n)
  BY <1>2, <1>3 DEF SlotsOrdered, SameAcks
<1>5. CASE InRing(p.slots, q)
  <2>1. /\ DOMAIN v.slots = DOMAIN p.slots
        /\ \A i \in DOMAIN p.slots : v.slots[i].seq = p.slots[i].seq
    BY <1>2, <1>5 DEF Marked
  <2>2. \A n : InRing(p.slots, n) => InRing(v.slots, n)
    BY <2>1 DEF InRing
  <2>3. SlotsOrdered(v)
    BY <1>4, <2>1, <2>2 DEF SlotsOrdered
  <2> QED BY <1>5, <2>2, <2>3 DEF RingKeeps
<1>6. CASE ~InRing(p.slots, q)
  <2> DEFINE x == NewSlot(q, t)
  <2> DEFINE m == Len(v.slots)
  <2>1. p.slots \in Seq(Slot) /\ Len(p.slots) <= RttSlots /\ OneEach(p.slots)
    BY DEF RttRecord
  <2>2. x \in Slot /\ x.seq = q /\ x.sent = t
    BY <1>1 DEF NewSlot, Slot
  <2>3. \A i \in DOMAIN p.slots : p.slots[i].seq # q
    BY <1>6 DEF InRing
  <2>4. Len(p.slots) < RttSlots
    BY <1>6 DEF HasRoom
  <2>5. Pushed(p.slots, RttSlots, x, v.slots)
    BY <1>2, <1>6
  <2> HIDE DEF x
  <2>6. /\ v.slots \in Seq(Slot) /\ m \in DOMAIN v.slots /\ v.slots[m] = x
        /\ \A i \in DOMAIN v.slots : i = m \/ (i \in DOMAIN p.slots /\ v.slots[i] = p.slots[i])
        /\ \A i \in DOMAIN p.slots : i \in DOMAIN v.slots /\ v.slots[i] = p.slots[i] /\ i < m
    BY <2>1, <2>2, <2>4, <2>5, PushFacts, SMTT(30)
  <2>7. DOMAIN v.slots = 1 .. m /\ m \in Nat
    <3>1. v.slots \in Seq(Slot)
      BY <2>6
    <3> QED BY ONLY <3>1, LenProperties DEF m
  <2> HIDE DEF m
  <2>8. RingKeeps(p, q, v)
    <3>1. InRing(v.slots, q)
      BY <2>2, <2>6 DEF InRing
    <3>2. \A n : InRing(p.slots, n) => InRing(v.slots, n)
      BY <2>6 DEF InRing
    <3> QED BY <3>1, <3>2 DEF RingKeeps
  <2>9. \A i \in DOMAIN v.slots : v.slots[i].seq \in 1 .. MaxSeq
    BY <1>4, <2>2, <2>6
  \* q is new and still counts: no message that counts has a slot beyond it.
  <2>10. Live(v, q) => \A i \in DOMAIN p.slots : p.slots[i].seq < q
    <3> SUFFICES ASSUME Live(v, q), NEW i \in DOMAIN p.slots, ~(p.slots[i].seq < q)
                 PROVE  FALSE
      OBVIOUS
    <3>1. q \in 1 .. p.slots[i].seq
      BY <1>1, <1>4
    <3> QED BY <1>4, <1>6, <3>1
  <2>11. ASSUME NEW i \in DOMAIN v.slots, NEW j \in DOMAIN v.slots, i < j,
                Live(v, v.slots[i].seq), Live(v, v.slots[j].seq)
         PROVE  v.slots[i].seq < v.slots[j].seq
    <3>1. i \in 1 .. m /\ j \in 1 .. m /\ i # m
      BY <2>7, <2>11
    <3>2. i \in DOMAIN p.slots /\ v.slots[i] = p.slots[i]
      BY <2>6, <3>1
    <3>3. CASE j = m
      BY <2>2, <2>6, <2>10, <2>11, <3>2, <3>3
    <3>4. CASE j # m
      BY <1>4, <2>6, <2>11, <3>2, <3>4
    <3> QED BY <3>3, <3>4
  <2>12. ASSUME NEW i \in DOMAIN v.slots, NEW n \in 1 .. v.slots[i].seq, Live(v, n)
         PROVE  InRing(v.slots, n)
    <3>1. CASE i = m
      <4>1. n = q \/ n \in 1 .. q - 1
        BY <1>1, <2>2, <2>6, <3>1
      <4> QED BY <1>3, <2>8, <2>12, <4>1 DEF RingKeeps
    <3>2. CASE i # m
      BY <1>4, <2>6, <2>8, <2>12, <3>2 DEF RingKeeps
    <3> QED BY <3>1, <3>2
  <2>13. SlotsOrdered(v)
    BY <1>4, <2>9, <2>11, <2>12 DEF SlotsOrdered
  <2>14. NewOrKept(p, q, t, v)
    <3> SUFFICES ASSUME NEW i \in DOMAIN v.slots
                 PROVE  \/ v.slots[i].seq = q /\ v.slots[i].sent = t
                        \/ i \in DOMAIN p.slots /\ v.slots[i] = p.slots[i]
      BY DEF NewOrKept
    <3>1. CASE i = m
      BY <2>2, <2>6, <3>1
    <3>2. CASE i # m
      BY <2>6, <3>2
    <3> QED BY <3>1, <3>2
  <2> QED BY <2>8, <2>13, <2>14
<1> QED BY <1>5, <1>6

\* The copies after a send of q to a at t.
SentOne(cps, a, q, t, cps2) ==
  \A d \in cps2 : d \in cps \/ (d.peer = a /\ d.seq = q /\ d.at = t)

LEMMA SendKeeps ==
  ASSUME NEW p, NEW a, NEW cps, RecordTrue(p, a, cps),
         NEW q \in 1 .. MaxSeq, HasRoom(p, q), NEW t \in Nat, NEW v, Recorded(p, q, t, v),
         \A n \in 1 .. q - 1 : Live(p, n) => InRing(p.slots, n),
         NEW cps2, SentOne(cps, a, q, t, cps2)
  PROVE  RecordTrue(v, a, cps2) /\ RingKeeps(p, q, v)
<1>0. RttRecord(p) /\ SlotsOrdered(p) /\ SlotsTrue(p, a, cps) /\ q \in Seqs
  BY DEF RecordTrue, Seqs
<1>1. /\ RingKeeps(p, q, v) /\ SlotsOrdered(v)
      /\ ~InRing(p.slots, q) => NewOrKept(p, q, t, v)
  BY <1>0, SendOrdered
<1>2. /\ RttRecord(v) /\ SameAcks(p, v)
      /\ InRing(p.slots, q) => Marked(p.slots, q, v.slots)
      /\ ~InRing(p.slots, q) => Pushed(p.slots, RttSlots, NewSlot(q, t), v.slots)
  BY <1>0, SendFacts
<1>3. \A n : Live(v, n) <=> Live(p, n)
  BY <1>2, LiveSame
<1>4. SlotsTrue(v, a, cps2)
  <2> SUFFICES ASSUME NEW d \in cps2, d.peer = a, Live(v, d.seq)
               PROVE  /\ InRing(v.slots, d.seq)
                      /\ \A i \in DOMAIN v.slots :
                           v.slots[i].seq = d.seq /\ ~v.slots[i].ambiguous => d.at = v.slots[i].sent
    BY DEF SlotsTrue
  <2>0. Live(p, d.seq)
    BY <1>3
  <2>1. d \in cps =>
          /\ InRing(p.slots, d.seq)
          /\ \A i \in DOMAIN p.slots :
               p.slots[i].seq = d.seq /\ ~p.slots[i].ambiguous => d.at = p.slots[i].sent
    BY <1>0, <2>0 DEF SlotsTrue
  <2>2. InRing(v.slots, d.seq)
    BY <1>1, <2>1 DEF RingKeeps, SentOne
  <2>3. ASSUME NEW i \in DOMAIN v.slots, v.slots[i].seq = d.seq, ~v.slots[i].ambiguous
        PROVE  d.at = v.slots[i].sent
    <3>1. CASE InRing(p.slots, q)
      <4>1. /\ i \in DOMAIN p.slots /\ v.slots[i].seq = p.slots[i].seq
            /\ v.slots[i].sent = p.slots[i].sent
            /\ v.slots[i].ambiguous = (p.slots[i].ambiguous \/ p.slots[i].seq = q)
        BY <1>2, <3>1 DEF Marked
      <4>2. ~p.slots[i].ambiguous /\ d.seq # q
        BY <2>3, <4>1
      <4>3. d \in cps
        BY <4>2 DEF SentOne
      <4> QED BY <2>1, <2>3, <4>1, <4>2, <4>3
    <3>2. CASE ~InRing(p.slots, q)
      <4>1. \/ v.slots[i].seq = q /\ v.slots[i].sent = t
            \/ i \in DOMAIN p.slots /\ v.slots[i] = p.slots[i]
        BY <1>1, <3>2 DEF NewOrKept
      <4>2. CASE d \in cps
        <5>1. d.seq # q
          BY <2>1, <3>2, <4>2
        <5> QED BY <2>1, <2>3, <4>1, <4>2, <5>1
      <4>3. CASE d \notin cps
        <5>1. d.seq = q /\ d.at = t
          BY <4>3 DEF SentOne
        <5>2. ~(i \in DOMAIN p.slots /\ v.slots[i] = p.slots[i])
          BY <2>3, <3>2, <5>1 DEF InRing
        <5> QED BY <4>1, <5>1, <5>2
      <4> QED BY <4>2, <4>3
    <3> QED BY <3>1, <3>2
  <2> QED BY <2>2, <2>3
<1> QED BY <1>1, <1>2, <1>4 DEF RecordTrue

\* The record v of p after an ack: what still counts did before, and keeps its slot.
AckKept(p, v) ==
  \A n \in 1 .. MaxSeq : Live(v, n) =>
    Live(p, n) /\ (InRing(p.slots, n) => InRing(v.slots, n))

LEMMA AckKeeps ==
  ASSUME CounterIsWide, NEW p, NEW a, NEW cps, RecordTrue(p, a, cps),
         \A e \in cps : e.seq \in 1 .. MaxSeq, NEW q \in 1 .. MaxSeq,
         NEW t \in Nat, NEW r, Acked(p, q, t, r)
  PROVE  /\ RecordTrue(r.peer, a, cps) /\ AckKept(p, r.peer)
         /\ \A d \in cps : d.peer = a /\ d.seq = q =>
              r.sample = NoSample \/ r.sample = t - d.at
<1> DEFINE v == r.peer
<1>1. RttRecord(p) /\ SlotsOrdered(p) /\ SlotsTrue(p, a, cps) /\ q \in Seqs /\ q \in Nat
  BY DEF RecordTrue, Seqs
<1>2. /\ RttRecord(r.peer) /\ r.peer.use = p.use
      /\ Stale(p, q) => r.sample = NoSample /\ r.peer = p
      /\ ~Stale(p, q) => r.peer.lastAck = q /\ r.peer.ackInit = TRUE
      /\ ~Stale(p, q) => HitAcked(p, q, t, r)
      /\ ~Stale(p, q) /\ ~InRing(p.slots, q) => r.sample = NoSample /\ r.peer.slots = p.slots
  <2>1. AckGives(p, q, t, r)
    BY <1>1, AckFacts
  <2> QED BY <2>1 DEF AckGives
<1>3. CASE Stale(p, q)
  <2>1. v = p /\ r.sample = NoSample
    BY <1>2, <1>3
  <2>2. AckKept(p, v)
    BY <2>1 DEF AckKept
  <2> QED BY <2>1, <2>2
\* What counts after an ack is beyond it and counted before.
<1>3a. ASSUME ~Stale(p, q)
       PROVE  /\ Live(p, q) /\ \A n : Live(v, n) <=> n > q
              /\ \A n \in Nat : n > q => Live(p, n)
  <2>0. v.lastAck = q /\ v.ackInit = TRUE
    BY <1>2, <1>3a
  <2>1. p.ackInit => q > p.lastAck
    <3> SUFFICES ASSUME p.ackInit PROVE q > p.lastAck
      OBVIOUS
    <3>1. p.lastAck \in 1 .. MaxSeq /\ ~(SeqCmp(q, p.lastAck) <= 0)
      BY <1>1, <1>3a DEF Stale, SlotsOrdered
    <3>2. SeqCmp(q, p.lastAck) = q - p.lastAck
      BY <3>1, CmpIsDifference
    <3> QED BY <1>1, <3>1, <3>2
  <2>2. p.ackInit => p.lastAck \in 1 .. MaxSeq
    BY <1>1 DEF SlotsOrdered
  <2> HIDE DEF v
  <2> QED BY <1>1, <2>0, <2>1, <2>2 DEF Live
<1>4. CASE ~Stale(p, q) /\ InRing(p.slots, q)
  <2>0. v.lastAck = q /\ v.ackInit = TRUE
    BY <1>2, <1>4
  <2>1. /\ p.ackInit => p.lastAck \in 1 .. MaxSeq
        /\ \A i \in DOMAIN p.slots : p.slots[i].seq \in 1 .. MaxSeq
        /\ \A i, j \in DOMAIN p.slots :
             i < j /\ Live(p, p.slots[i].seq) /\ Live(p, p.slots[j].seq)
               => p.slots[i].seq < p.slots[j].seq
        /\ \A i \in DOMAIN p.slots : \A n \in 1 .. p.slots[i].seq :
             Live(p, n) => InRing(p.slots, n)
    BY <1>1 DEF SlotsOrdered
  <2>3. Live(p, q) /\ \A n : Live(v, n) <=> n > q
    BY <1>3a, <1>4
  <2>4. \A n : Live(v, n) <=> n > q
    BY <2>3
  <2>5. \A n \in Nat : n > q => Live(p, n)
    BY <1>3a, <1>4
  <2>6. \A d \in cps : d.peer = a /\ d.seq = q =>
          \A i \in DOMAIN p.slots :
            p.slots[i].seq = q /\ ~p.slots[i].ambiguous => d.at = p.slots[i].sent
    BY <1>1, <2>3 DEF SlotsTrue
  <2>7. PICK h \in DOMAIN p.slots : p.slots[h].seq = q
    BY <1>4 DEF InRing
  <2>8. /\ Retired(p.slots, h, v.slots)
        /\ r.sample = NoSample
           \/ (~p.slots[h].ambiguous /\ r.sample = t - p.slots[h].sent)
    BY <1>2, <1>4, <2>7 DEF HitAcked
  <2>9. \A d \in cps : d.peer = a /\ d.seq = q => r.sample = NoSample \/ r.sample = t - d.at
    BY <2>6, <2>7, <2>8
  <2>10. p.slots \in Seq(Slot) /\ DOMAIN p.slots \subseteq Nat
    BY <1>1, LenProperties DEF RttRecord
  <2> HIDE DEF v
  <2>11. /\ h \in Nat
         /\ \A i \in DOMAIN v.slots :
              i \in Nat /\ i + h \in DOMAIN p.slots /\ v.slots[i] = p.slots[i + h]
         /\ \A j \in DOMAIN p.slots : j > h =>
              \E i \in DOMAIN v.slots : j = i + h /\ v.slots[i] = p.slots[j]
    BY <2>8, <2>10, RetireFacts
  <2>12. ASSUME NEW i \in DOMAIN p.slots, p.slots[i].seq > q
         PROVE  \E k \in DOMAIN v.slots : v.slots[k] = p.slots[i]
    <3>1. p.slots[i].seq \in Nat /\ i \in Nat /\ h \in Nat
      BY <2>1, <2>10, <2>11
    <3>2. i # h
      BY <1>1, <2>7, <2>12
    <3>3. ~(i < h)
      <4> SUFFICES ASSUME i < h PROVE FALSE
        OBVIOUS
      <4>1. Live(p, p.slots[i].seq) /\ Live(p, p.slots[h].seq)
        BY <2>3, <2>5, <2>7, <2>12, <3>1
      <4>2. p.slots[i].seq < q
        BY <2>1, <2>7, <4>1
      <4> QED BY <1>1, <2>12, <3>1, <4>2
    <3>4. i > h
      BY <3>1, <3>2, <3>3
    <3> QED BY <2>11, <3>4
  <2>13. ASSUME NEW n \in 1 .. MaxSeq, n > q, InRing(p.slots, n)
         PROVE  InRing(v.slots, n)
    <3>1. PICK i \in DOMAIN p.slots : p.slots[i].seq = n
      BY <2>13 DEF InRing
    <3>2. \E k \in DOMAIN v.slots : v.slots[k] = p.slots[i]
      BY <2>12, <2>13, <3>1
    <3> QED BY <3>1, <3>2 DEF InRing
  <2>14. AckKept(p, v)
    BY <2>4, <2>5, <2>13 DEF AckKept
  <2>15. \A i \in DOMAIN v.slots : v.slots[i].seq \in 1 .. MaxSeq
    BY <2>1, <2>11
  <2>16. ASSUME NEW i \in DOMAIN v.slots, NEW j \in DOMAIN v.slots, i < j,
                Live(v, v.slots[i].seq), Live(v, v.slots[j].seq)
         PROVE  v.slots[i].seq < v.slots[j].seq
    <3>1. /\ i + h \in DOMAIN p.slots /\ v.slots[i] = p.slots[i + h]
          /\ j + h \in DOMAIN p.slots /\ v.slots[j] = p.slots[j + h]
      BY <2>11
    <3>2. i + h < j + h
      BY <2>11, <2>16
    <3>3. Live(p, v.slots[i].seq) /\ Live(p, v.slots[j].seq)
      BY <2>4, <2>5, <2>15, <2>16
    <3> QED BY <2>1, <3>1, <3>2, <3>3
  <2>17. ASSUME NEW i \in DOMAIN v.slots, NEW n \in 1 .. v.slots[i].seq, Live(v, n)
         PROVE  InRing(v.slots, n)
    <3>1. n \in 1 .. MaxSeq /\ n > q /\ Live(p, n)
      BY <2>4, <2>5, <2>15, <2>17
    <3>2. i + h \in DOMAIN p.slots /\ v.slots[i] = p.slots[i + h]
      BY <2>11
    <3>3. InRing(p.slots, n)
      BY <2>1, <3>1, <3>2
    <3> QED BY <2>13, <3>1, <3>3
  <2>18. SlotsOrdered(v)
    BY <2>0, <2>15, <2>16, <2>17 DEF SlotsOrdered
  <2>19. SlotsTrue(v, a, cps)
    <3> SUFFICES ASSUME NEW e \in cps, e.peer = a, Live(v, e.seq)
                 PROVE  /\ InRing(v.slots, e.seq)
                        /\ \A i \in DOMAIN v.slots :
                             v.slots[i].seq = e.seq /\ ~v.slots[i].ambiguous => e.at = v.slots[i].sent
      BY DEF SlotsTrue
    <3>1. e.seq \in 1 .. MaxSeq /\ e.seq > q /\ Live(p, e.seq)
      BY <2>4, <2>5
    <3>2. /\ InRing(p.slots, e.seq)
          /\ \A i \in DOMAIN p.slots :
               p.slots[i].seq = e.seq /\ ~p.slots[i].ambiguous => e.at = p.slots[i].sent
      BY <1>1, <3>1 DEF SlotsTrue
    <3>3. InRing(v.slots, e.seq)
      BY <2>13, <3>1, <3>2
    <3>4. \A i \in DOMAIN v.slots : \E j \in DOMAIN p.slots : v.slots[i] = p.slots[j]
      BY <2>11
    <3> QED BY <3>2, <3>3, <3>4
  <2> QED BY <1>2, <2>9, <2>14, <2>18, <2>19 DEF RecordTrue, v
<1>5. CASE ~Stale(p, q) /\ ~InRing(p.slots, q)
  <2>1. /\ r.sample = NoSample /\ v.slots = p.slots
        /\ v.lastAck = q /\ v.ackInit = TRUE /\ RttRecord(v)
    BY <1>2, <1>5
  <2>2. \A n \in Nat : Live(v, n) => Live(p, n)
    BY <1>3a, <1>5
  <2> HIDE DEF v
  <2>3. AckKept(p, v)
    BY <2>1, <2>2 DEF AckKept
  <2>4. SlotsOrdered(v)
    BY <1>1, <2>1, <2>2 DEF SlotsOrdered
  <2>5. SlotsTrue(v, a, cps)
    BY <1>1, <2>1, <2>2 DEF SlotsTrue
  <2> QED BY <2>1, <2>3, <2>4, <2>5 DEF RecordTrue, v
<1> QED BY <1>3, <1>4, <1>5

LEMMA RecordGood ==
  ASSUME Typed, SlotsHold, NEW a \in Addrs, RttRecord(RecordOf(rtt, a, now))
  PROVE  /\ RecordTrue(RecordOf(rtt, a, now), a, copies)
         /\ "p2p" \in open => SlotsWhole(RecordOf(rtt, a, now), next[a])
<1> DEFINE p == RecordOf(rtt, a, now)
<1>1. CASE a \in DOMAIN rtt
  <2>1. p = [rtt[a] EXCEPT !.use = now]
    BY <1>1 DEF RecordOf
  <2>2. rtt[a] \in [slots : Seq(Slot), lastAck : Seqs, ackInit : BOOLEAN,
                    srtt : Nat, srttInit : BOOLEAN, use : Nat]
    BY <1>1 DEF Typed, RttTable, RttRecord
  <2>3. p.slots = rtt[a].slots /\ p.lastAck = rtt[a].lastAck /\ p.ackInit = rtt[a].ackInit
    BY <2>1, <2>2
  <2>4. /\ SlotsOrdered(rtt[a]) /\ SlotsTrue(rtt[a], a, copies)
        /\ "p2p" \in open => SlotsWhole(rtt[a], next[a])
    BY <1>1 DEF SlotsHold
  <2> HIDE DEF p
  <2>5. \A n : Live(p, n) <=> Live(rtt[a], n)
    BY <2>3 DEF Live
  <2>6. SlotsOrdered(p)
    BY <2>3, <2>4, <2>5 DEF SlotsOrdered
  <2>7. SlotsTrue(p, a, copies)
    BY <2>3, <2>4, <2>5 DEF SlotsTrue
  <2>8. "p2p" \in open => SlotsWhole(p, next[a])
    BY <2>3, <2>4, <2>5 DEF SlotsWhole
  <2> QED BY <2>6, <2>7, <2>8 DEF RecordTrue, p
<1>2. CASE a \notin DOMAIN rtt
  <2>1. p.slots = << >> /\ p.ackInit = FALSE
    BY <1>2 DEF RecordOf, NewRttPeer
  <2>2. DOMAIN p.slots = {}
    BY <2>1, EmptyRing
  <2>3. ("p2p" \in open => next[a] = First) /\ \A d \in copies : d.peer # a
    BY <1>2 DEF SlotsHold
  <2> HIDE DEF p
  <2>4. SlotsOrdered(p)
    BY <2>1, <2>2 DEF SlotsOrdered
  <2>5. SlotsTrue(p, a, copies)
    BY <2>3 DEF SlotsTrue
  <2>6. "p2p" \in open => SlotsWhole(p, next[a])
    BY <2>3 DEF SlotsWhole, Handed, First
  <2> QED BY <2>4, <2>5, <2>6 DEF RecordTrue, p
<1> QED BY <1>1, <1>2

LEMMA SendsSlots ==
  ASSUME SamplerKnowsAll, DampenInv, SlotsInv, ~evicted',
         NEW a \in Addrs, NEW q, NEW k, Sends(a, q, k)
  PROVE  SlotsHold'
<1>0. /\ Typed /\ q \in 1 .. MaxSeq /\ q \in Seqs /\ q \in Nat /\ now \in Nat
      /\ Hook(a, q, k) /\ q <= next[a].seq
  BY DEF DampenInv, Typed, Sends, Seqs
<1>1. "p2p" \in open /\ open' = open
  BY <1>0 DEF Hook
<1>2. SamplerSent(a, q, k)
  BY <1>0, HookSampler
<1>2a. SlotsHold
  BY <1>2 DEF SamplerSent, SlotsInv
<1>3. /\ \A b \in Addrs : b # a => next'[b] = next[b]
      /\ \A n : Handed(next'[a], n, 1) => n = q \/ Handed(next[a], n, 1)
  BY DEF Sends
<1>4. DOMAIN rtt \subseteq Addrs
  BY <1>0 DEF Typed, RttTable
<1>5. CASE Dropped(a, q)
  <2>1. UNCHANGED << rtt, copies >>
    BY <1>2, <1>5 DEF SamplerSent
  <2>2. PICK d \in copies : d.peer = a /\ d.seq = q
    BY <1>0, <1>5, SuppressedHasCopy DEF Dropped
  <2>3. a \in DOMAIN rtt /\ (Live(rtt[a], q) => InRing(rtt[a].slots, q))
    BY <1>2a, <2>2 DEF SlotsHold, SlotsTrue
  <2>4. SlotsWhole(rtt[a], next[a])
    BY <1>1, <1>2a, <2>3 DEF SlotsHold
  <2>5. SlotsWhole(rtt[a], next'[a])
    BY <1>3, <2>3, <2>4 DEF SlotsWhole
  <2> QED BY <1>1, <1>2a, <1>3, <1>4, <2>1, <2>3, <2>5 DEF SlotsHold
<1>6. CASE ~Dropped(a, q)
  <2> DEFINE p0 == RecordOf(rtt, a, now)
  <2>1. PICK p : Recorded(p0, q, now, p) /\ RttRecord(p0) /\ SamplerHas(a, p, rtt')
    BY <1>2, <1>6 DEF SamplerSent
  <2>2. copies' = copies \cup {NewCopy(a, q, k)}
    BY <1>2, <1>6 DEF SamplerSent
  <2>3. RecordTrue(p0, a, copies) /\ SlotsWhole(p0, next[a])
    BY <1>0, <1>1, <1>2a, <2>1, RecordGood
  <2>3a. HasRoom(p0, q)
    BY <1>2, <1>6 DEF SamplerSent
  <2> HIDE DEF p0
  <2>4. SentOne(copies, a, q, now, copies')
    BY <2>2 DEF SentOne, NewCopy
  <2>5. \A n \in 1 .. q - 1 : Live(p0, n) => InRing(p0.slots, n)
    <3> SUFFICES ASSUME NEW n \in 1 .. q - 1, Live(p0, n)
                 PROVE  InRing(p0.slots, n)
      OBVIOUS
    <3>1. next[a].seq \in Nat /\ MaxSeq \in Nat /\ 1 \in 1 .. Parts
      BY <1>0, NextTyped
    <3>2. n \in 1 .. MaxSeq /\ Handed(next[a], n, 1)
      BY <1>0, <3>1 DEF Handed
    <3> QED BY <2>3, <3>2 DEF SlotsWhole
  <2>6. RecordTrue(p, a, copies') /\ RingKeeps(p0, q, p)
    BY <1>0, <2>1, <2>3, <2>3a, <2>4, <2>5, SendKeeps
  <2>7. SameAcks(p0, p)
    BY <1>0, <2>1, SendFacts
  <2>8. \A n : Live(p, n) <=> Live(p0, n)
    BY <2>7, LiveSame
  <2>9. SlotsWhole(p, next'[a])
    BY <1>3, <2>3, <2>6, <2>8 DEF SlotsWhole, RingKeeps
  <2>10. /\ rtt'[a] = p /\ DOMAIN rtt' = DOMAIN rtt \cup {a}
         /\ \A b \in DOMAIN rtt' : b # a => b \in DOMAIN rtt /\ rtt'[b] = rtt[b]
    BY <2>1 DEF SamplerHas
  <2>11. \A d \in copies' : d \in copies \/ d.peer = a
    BY <2>4 DEF SentOne
  <2>12. \A d \in copies' : d.peer \in DOMAIN rtt'
    BY <1>2a, <2>10, <2>11 DEF SlotsHold
  <2>13. ASSUME NEW b \in DOMAIN rtt'
         PROVE  /\ SlotsOrdered(rtt'[b]) /\ SlotsTrue(rtt'[b], b, copies')
                /\ SlotsWhole(rtt'[b], next'[b])
    <3>1. CASE b = a
      BY <2>6, <2>9, <2>10, <3>1 DEF RecordTrue
    <3>2. CASE b # a
      <4>1. b \in DOMAIN rtt /\ rtt'[b] = rtt[b] /\ next'[b] = next[b]
        BY <1>3, <1>4, <2>10, <3>2
      <4>2. /\ SlotsOrdered(rtt[b]) /\ SlotsTrue(rtt[b], b, copies)
            /\ SlotsWhole(rtt[b], next[b])
        BY <1>1, <1>2a, <4>1 DEF SlotsHold
      <4>3. SlotsTrue(rtt[b], b, copies')
        BY <2>11, <3>2, <4>2 DEF SlotsTrue
      <4> QED BY <4>1, <4>2, <4>3
    <3> QED BY <3>1, <3>2
  <2>14. \A b \in Addrs \ DOMAIN rtt' : next'[b] = First
    BY <1>1, <1>2a, <1>3, <2>10 DEF SlotsHold
  <2> QED BY <2>12, <2>13, <2>14 DEF SlotsHold
<1> QED BY <1>5, <1>6

LEMMA RecvSlots ==
  ASSUME SamplerKnowsAll, CounterIsWide, DampenInv, SlotsHold,
         NEW h \in hand, RttOnRecv(h)
  PROVE  SlotsHold'
<1> DEFINE a == h.peer
<1> DEFINE q == h.seq
<1> DEFINE p == RecordOf(rtt, a, now)
<1>0. /\ Typed /\ a \in Addrs /\ q \in 1 .. MaxSeq /\ now \in Nat
      /\ \A e \in copies : e.seq \in 1 .. MaxSeq
  BY HandTyped DEF DampenInv, Typed
<1>1. UNCHANGED << open, next, copies >>
  BY DEF RttOnRecv
<1>2. PICK r : Acked(p, q, now, r) /\ RttRecord(p) /\ SamplerHas(a, r.peer, rtt')
  BY <1>0, RecvTakes DEF Takes
<1>3. RecordTrue(p, a, copies) /\ ("p2p" \in open => SlotsWhole(p, next[a]))
  BY <1>0, <1>2, RecordGood
<1> HIDE DEF p
<1>4. RecordTrue(r.peer, a, copies) /\ AckKept(p, r.peer)
  BY <1>0, <1>2, <1>3, AckKeeps
<1>5. "p2p" \in open => SlotsWhole(r.peer, next[a])
  BY <1>3, <1>4 DEF SlotsWhole, AckKept
<1>6. /\ rtt'[a] = r.peer /\ DOMAIN rtt' = DOMAIN rtt \cup {a}
      /\ \A b \in DOMAIN rtt' : b # a => b \in DOMAIN rtt /\ rtt'[b] = rtt[b]
  BY <1>2 DEF SamplerHas
<1> HIDE DEF a, q
<1>7. \A b \in DOMAIN rtt' : /\ SlotsOrdered(rtt'[b]) /\ SlotsTrue(rtt'[b], b, copies)
                             /\ "p2p" \in open => SlotsWhole(rtt'[b], next[b])
  BY <1>4, <1>5, <1>6 DEF SlotsHold, RecordTrue
<1> QED BY <1>1, <1>6, <1>7 DEF SlotsHold

LEMMA NextSlots ==
  ASSUME LobbyIsIdle, SamplerKnowsAll, CounterIsWide
  PROVE  DampenInv /\ SlotsInv /\ [Next]_vars => SlotsInv'
<1> SUFFICES ASSUME DampenInv, SlotsInv, [Next]_vars, ~evicted'
             PROVE  SlotsHold'
  BY DEF SlotsInv
<1>0. Typed
  BY DEF DampenInv
<1>1. CASE \E a \in Addrs : SendNext(a)
  <2>1. PICK a \in Addrs : SendNext(a)
    BY <1>1
  <2>2. Sends(a, next[a].seq, next[a].part)
    BY <1>0, <2>1, SendNextSends
  <2> QED BY <2>2, SendsSlots
<1>2. CASE \E a \in Addrs, q \in 1 .. MaxSeq, k \in 1 .. Parts : Resend(a, q, k)
  <2>1. PICK a \in Addrs, q \in 1 .. MaxSeq, k \in 1 .. Parts : Resend(a, q, k)
    BY <1>2
  <2>2. Sends(a, q, k)
    BY <1>0, <2>1, ResendSends
  <2> QED BY <2>2, SendsSlots
<1>3. CASE \E h \in hand : RttOnRecv(h)
  <2>1. SlotsHold
    BY <1>3 DEF RttOnRecv, SlotsInv
  <2> QED BY <1>3, <2>1, RecvSlots
<1>4. CASE SendLobby \/ (\E d \in copies : Receive(d)) \/ GovCopy \/ GovFeed \/ Tick
           \/ UNCHANGED vars
  <2>1. UNCHANGED << rtt, open, next, copies, evicted >>
    BY <1>4 DEF SendLobby, Receive, GovCopy, GovFeed, Tick, vars
  <2> QED BY <2>1 DEF SlotsInv, SlotsHold
<1>5. CASE \E s \in Sockets : Close(s)
  <2>1. PICK s \in Sockets : Close(s)
    BY <1>5
  <2>2. open' = open \ {s} /\ next' = next /\ SocketTrue /\ SlotsHold
    BY <2>1 DEF Close, DampenInv, SlotsInv
  <2>3. /\ s = "p2p" => copies' = {}
        /\ s # "p2p" => copies' = copies
        /\ s # "p2p" => rtt' = rtt \/ DOMAIN dampen = {}
    BY <2>1, <2>2, CloseForgets
  <2>4. /\ DOMAIN rtt' \subseteq DOMAIN rtt
        /\ \A a \in DOMAIN rtt' : rtt'[a] = rtt[a]
        /\ DOMAIN dampen = {} => DOMAIN rtt' = DOMAIN rtt
    BY <2>1, CloseSampler
  <2>5. CASE s = "p2p"
    <3>1. copies' = {} /\ "p2p" \notin open'
      BY <2>2, <2>3, <2>5
    <3>2. \A a \in DOMAIN rtt' : SlotsOrdered(rtt'[a])
      BY <2>2, <2>4 DEF SlotsHold
    <3> QED BY <3>1, <3>2 DEF SlotsHold, SlotsTrue
  <2>6. CASE s # "p2p"
    <3>1. copies' = copies /\ ("p2p" \in open' => "p2p" \in open)
      BY <2>2, <2>3, <2>6
    <3>2. DOMAIN rtt' = DOMAIN rtt
      BY <2>3, <2>4, <2>6
    <3> QED BY <2>2, <2>4, <3>1, <3>2 DEF SlotsHold
  <2> QED BY <2>5, <2>6
<1>6. CASE Reopen \/ Reconnect
  <2>1. UNCHANGED << rtt, copies >> /\ SlotsHold /\ \A a \in Addrs : next'[a] = First
    BY <1>6 DEF Reopen, Reconnect, SlotsInv
  <2>2. DOMAIN rtt \subseteq Addrs
    BY <1>0 DEF Typed, RttTable
  <2>3. \A a \in DOMAIN rtt : SlotsWhole(rtt[a], next'[a])
    <3>1. \A q : ~Handed(First, q, 1)
      BY DEF Handed, First
    <3> QED BY <2>1, <2>2, <3>1 DEF SlotsWhole
  <2> QED BY <2>1, <2>3 DEF SlotsHold
<1> QED BY <1>1, <1>2, <1>3, <1>4, <1>5, <1>6 DEF Next

\* "Never a wrong number" (net_rtt.h:68): in a session of any length, with a
\* record for every peer and an idle lobby socket, a sample is the age of the copy
\* that was acknowledged until the sampler has counted a slot lost to a full
\* ring, across the reuse of slots and the restart of the counters.
THEOREM SamplesAreTrue ==
  ASSUME LobbyIsIdle, SamplerKnowsAll, CounterIsWide
  PROVE  Safety => []SampleIsTrue
<1>1. Init => SlotsInv
  BY NobodyFacts DEF Init, SlotsInv, SlotsHold
<1>2. DampenInv /\ SlotsInv /\ [Next]_vars => SlotsInv'
  BY NextSlots
<1>3. DampenInv /\ SlotsInv => SampleIsTrue
  <2> SUFFICES ASSUME DampenInv, SlotsHold, NEW d \in copies, d.peer \in DOMAIN rtt
               PROVE  RttRecv(rtt[d.peer], d.seq, now).sample \in {NoSample, now - d.at}
    BY DEF SampleIsTrue, SlotsInv
  <2> DEFINE a == d.peer
  <2> DEFINE r == RttRecv(rtt[a], d.seq, now)
  <2>1. now \in Nat /\ RttRecord(rtt[a]) /\ \A e \in copies : e.seq \in 1 .. MaxSeq
    BY DEF DampenInv, Typed, RttTable, CopiesTrue, CopyTrue
  <2>2. RecordTrue(rtt[a], a, copies)
    BY <2>1 DEF SlotsHold, RecordTrue
  <2>3. Acked(rtt[a], d.seq, now, r)
    BY DEF Acked
  <2> HIDE DEF r
  <2>4. r.sample = NoSample \/ r.sample = now - d.at
    BY <2>1, <2>2, <2>3, AckKeeps
  <2> QED BY <2>4 DEF r
<1>4. Safety => []DampenInv
  BY DamperInvariant
<1> QED BY <1>1, <1>2, <1>3, <1>4, PTL DEF Safety

-----------------------------------------------------------------------------
(* The close of another socket *)

\* With nothing on its way the damper's table is as it was at the start.
IdleKnowsNobody == copies = {} \/ ~DampenOn => dampen = Nobody

LEMMA NextIdle ==
  ASSUME LobbyIsIdle
  PROVE  DampenInv /\ IdleKnowsNobody /\ [Next]_vars => IdleKnowsNobody'
<1> SUFFICES ASSUME DampenInv, IdleKnowsNobody, [Next]_vars
             PROVE  IdleKnowsNobody'
  OBVIOUS
<1>0. Typed /\ SocketTrue
  BY DEF DampenInv
<1>1. ASSUME NEW a \in Addrs, NEW q, NEW k, Sends(a, q, k) PROVE IdleKnowsNobody'
  <2>1. q \in Seqs /\ Hook(a, q, k)
    BY <1>1 DEF Sends, Seqs
  <2>2. SamplerSent(a, q, k) /\ DamperSent(a, q)
    BY <1>0, <2>1, HookSampler, HookDamper
  <2>3. CASE ~DampenOn
    BY <2>2, <2>3 DEF DamperSent, IdleKnowsNobody
  <2>4. CASE Dropped(a, q)
    <3>1. \E d \in copies : d.peer = a
      BY <2>1, <2>4, SuppressedHasCopy DEF Dropped
    <3>2. copies' = copies
      BY <2>2, <2>4 DEF SamplerSent
    <3> QED BY <2>4, <3>1, <3>2 DEF IdleKnowsNobody, Dropped
  <2>5. CASE DampenOn /\ ~Dropped(a, q)
    BY <2>2, <2>5 DEF SamplerSent, IdleKnowsNobody
  <2> QED BY <2>3, <2>4, <2>5
<1>2. CASE \E a \in Addrs : SendNext(a)
  <2>1. PICK a \in Addrs : SendNext(a)
    BY <1>2
  <2>2. Sends(a, next[a].seq, next[a].part)
    BY <1>0, <2>1, SendNextSends
  <2> QED BY <1>1, <2>2
<1>3. CASE \E a \in Addrs, q \in 1 .. MaxSeq, k \in 1 .. Parts : Resend(a, q, k)
  <2>1. PICK a \in Addrs, q \in 1 .. MaxSeq, k \in 1 .. Parts : Resend(a, q, k)
    BY <1>3
  <2>2. Sends(a, q, k)
    BY <1>0, <2>1, ResendSends
  <2> QED BY <1>1, <2>2
<1>4. CASE SendLobby \/ (\E d \in copies : Receive(d)) \/ (\E h \in hand : RttOnRecv(h))
           \/ GovCopy \/ Reopen \/ Reconnect
           \/ Tick \/ UNCHANGED vars
  <2>1. UNCHANGED << dampen, copies >>
    BY <1>4 DEF SendLobby, Receive, RttOnRecv, GovCopy, Reopen, Reconnect, Tick, vars
  <2> QED BY <2>1 DEF IdleKnowsNobody
<1>5. CASE GovFeed
  <2>1. /\ copies' = copies
        /\ dampen' = [a \in DOMAIN dampen |->
             IF a \in DOMAIN gov.srtt THEN DampenSetRtt(dampen, a, gov.srtt[a])[a]
                                      ELSE dampen[a]]
    BY <1>5 DEF GovFeed
  <2>2. dampen = Nobody => dampen' = Nobody
    BY <2>1, NobodyFacts DEF Nobody
  <2> QED BY <2>1, <2>2 DEF IdleKnowsNobody
<1>6. CASE \E s \in Sockets : Close(s)
  <2>1. PICK s \in Sockets : Close(s)
    BY <1>6
  <2>2. /\ dampen' = IF dampenSock = s THEN Nobody ELSE dampen
        /\ copies' = IF s = "p2p" THEN {} ELSE copies
    BY <2>1 DEF Close
  <2> QED BY <1>0, <2>2 DEF IdleKnowsNobody, SocketTrue
<1> QED BY <1>2, <1>3, <1>4, <1>5, <1>6 DEF Next

\* "Closing an unrelated socket must leave the peer ring intact"
\* (dsound_proxy.cpp:1173): so it does where the lobby socket is idle during a
\* session.
THEOREM LobbyCloseKeepsRing ==
  ASSUME LobbyIsIdle
  PROVE  Safety => UnrelatedCloseKeepsRing
<1>1. Init => IdleKnowsNobody
  BY DEF Init, IdleKnowsNobody
<1>2. DampenInv /\ IdleKnowsNobody /\ [Next]_vars => IdleKnowsNobody'
  BY NextIdle
<1>3. DampenInv /\ IdleKnowsNobody => (Close("lobby") => UNCHANGED dampen)
  <2> SUFFICES ASSUME DampenInv, IdleKnowsNobody, Close("lobby")
               PROVE  dampen' = dampen
    OBVIOUS
  <2>1. dampen' = IF dampenSock = "lobby" THEN Nobody ELSE dampen
    BY DEF Close
  <2>2. dampenSock = "lobby" => copies = {} \/ ~DampenOn
    BY DEF DampenInv, SocketTrue
  <2> QED BY <2>1, <2>2 DEF IdleKnowsNobody
<1>4. Safety => []DampenInv
  BY DamperInvariant
<1> QED BY <1>1, <1>2, <1>3, <1>4, PTL DEF Safety, UnrelatedCloseKeepsRing
=============================================================================
