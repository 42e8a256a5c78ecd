---------------------------- MODULE ReorderCore -----------------------------
(***************************************************************************)
(* shared/reorder_core.h: the per-peer reorder buffer of the receive path. *)
(* The caller holds g_reorder_cs and supplies the clock; this module gives *)
(* the header's decisions as operators and RecvPath.tla adds the threads.  *)
(*                                                                         *)
(* A time stamp is kept as its age, which Aged advances with the clock and *)
(* lets no further than the largest value any comparison distinguishes.    *)
(* Sequences in a ring differ, so the order of its slots decides nothing   *)
(* and a ring is a set.  The statistics are left out: a datagram that is   *)
(* destroyed is returned to the caller instead of counted.                 *)
(***************************************************************************)
EXTENDS SeqNum, FiniteSets

CONSTANTS
  Adapt,      \* adapt: the hold window follows the link
  WinMin,     \* win_min_ms: floor of the window
  WinMax,     \* win_max_ms: ceiling of the window
  MaxHold,    \* max_hold_ms: ceiling of a hold, 0 = the window only
  GrowPad,    \* kReorderGrowPadMs
  DecayAfter, \* kReorderDecayMs
  PeerIdle,   \* kReorderPeerIdleMs
  Depth,      \* depth: slots of a ring
  Peers,      \* peers: entries of the table
  NoKey       \* key 0: a free entry

ASSUME ReorderAssumption ==
  /\ Adapt \in BOOLEAN
  /\ WinMin \in Nat /\ WinMax \in Nat /\ WinMin <= WinMax
  /\ MaxHold \in Nat /\ GrowPad \in Nat
  /\ DecayAfter \in Nat /\ PeerIdle \in Nat
  /\ Depth \in Nat \ {0} /\ Peers \in Nat \ {0}

Least(a, b) == IF a < b THEN a ELSE b

\* An entry as reorder_get_peer claims it; NoPeer is a free one.
NewPeer(k) ==
  [key |-> k, init |-> FALSE, last |-> 0, held |-> {},
   win |-> IF Adapt THEN WinMin ELSE WinMax, adj |-> 0, act |-> 0, del |-> 0]

NoPeer == NewPeer(NoKey)

\* reorder_reset.
NoPeers == [i \in 0 .. Peers - 1 |-> NoPeer]

\* One tick older.
Aged(p) ==
  [p EXCEPT !.adj = Least(@ + 1, DecayAfter), !.act = Least(@ + 1, PeerIdle),
            !.del = Least(@ + 1, WinMax),
            !.held = {[e EXCEPT !.age = Least(@ + 1, WinMax)] : e \in p.held}]

\* Mutant of Saturated: off by one.
SaturatedLate(tbl) ==
  \E i \in DOMAIN tbl : tbl[i].key # NoKey /\ Cardinality(tbl[i].held) > Depth

\* reorder_drain_saturated.
Saturated(tbl) ==
  \E i \in DOMAIN tbl : tbl[i].key # NoKey /\ Cardinality(tbl[i].held) >= Depth

\* reorder_get_peer: the entry of k, a free one, or the least recently active
\* one if it has been idle long enough; none when every entry is live.
EntryFor(tbl, k) ==
  LET own  == {i \in DOMAIN tbl : tbl[i].key = k}
      free == {i \in DOMAIN tbl : tbl[i].key = NoKey}
      idle == {i \in DOMAIN tbl : /\ tbl[i].act >= PeerIdle
                                  /\ \A j \in DOMAIN tbl : tbl[j].act <= tbl[i].act}
      First(S) == {CHOOSE i \in S : \A j \in S : i <= j}
  IN  IF own # {} THEN own
      ELSE IF free # {} THEN First(free)
      ELSE idle

\* The claimed entry: its own, touched, or a new one.
Claimed(p, k) == IF p.key = k THEN [p EXCEPT !.act = 0] ELSE NewPeer(k)

-----------------------------------------------------------------------------
\* reorder_adapt_on_arrival: the window grows by a late arrival, or by the
\* arrival of the successor that held datagrams were waiting for.
AdaptOnArrival(p, seq) ==
  LET cmp    == SeqCmp(seq, p.last)
      waited == {e.age : e \in p.held}
      Grow(age) ==
        LET w == Least(age + GrowPad, WinMax)
        IN  IF w > p.win THEN [p EXCEPT !.win = w, !.adj = 0] ELSE p
  IN  IF ~Adapt \/ ~p.init \/ cmp = 0 THEN p
      ELSE IF cmp < 0 THEN Grow(p.del)
      ELSE IF seq = SeqNext(p.last) /\ waited # {}
        THEN Grow(CHOOSE a \in waited : \A b \in waited : a >= b)
      ELSE p

\* Mutants of Insert: no look for a repeated sequence in the ring; a repeated
\* sequence overwrites the slot that holds it.
InsertUnchecked(p, d, seq) ==
  LET e == [id |-> d, seq |-> seq, age |-> 0]
  IN  IF p.init /\ SeqCmp(seq, p.last) <= 0
        THEN [what |-> "stale", held |-> p.held, out |-> {}]
        ELSE [what |-> "buffered", held |-> p.held \cup {e}, out |-> {}]

InsertReplaces(p, d, seq) ==
  LET e == [id |-> d, seq |-> seq, age |-> 0]
      same == {f \in p.held : f.seq = seq}
  IN  IF p.init /\ SeqCmp(seq, p.last) <= 0
        THEN [what |-> "stale", held |-> p.held, out |-> {}]
      ELSE IF same # {}
        THEN [what |-> "duplicate", held |-> (p.held \ same) \cup {e}, out |-> {}]
        ELSE [what |-> "buffered", held |-> p.held \cup {e}, out |-> {}]

\* reorder_insert: what becomes of a datagram d with sequence seq, and the
\* ring it leaves.  out is the datagram a full ring hands back.
Insert(p, d, seq) ==
  LET e == [id |-> d, seq |-> seq, age |-> 0]
      oldest == CHOOSE f \in p.held : \A g \in p.held : f.age >= g.age
  IN  IF p.init /\ SeqCmp(seq, p.last) <= 0
        THEN [what |-> "stale", held |-> p.held, out |-> {}]
      ELSE IF \E f \in p.held : f.seq = seq
        THEN [what |-> "duplicate", held |-> p.held, out |-> {}]
      ELSE IF Cardinality(p.held) < Depth
        THEN [what |-> "buffered", held |-> p.held \cup {e}, out |-> {}]
      ELSE [what |-> "evicted", held |-> (p.held \ {oldest}) \cup {e}, out |-> {oldest}]

\* The cursor after a delivery: it only ever advances.
Cursor(p, seq) == IF ~p.init \/ SeqCmp(seq, p.last) > 0 THEN seq ELSE p.last

\* reorder_purge_stale: what the cursor has passed is destroyed.
Passed(p, cursor) == {e \in p.held : SeqCmp(e.seq, cursor) <= 0}

\* Mutant of NoteDelivery: what the cursor passed stays in the ring.
NoteKeepsPassed(p, seq) ==
  [p EXCEPT !.init = TRUE, !.last = Cursor(p, seq), !.del = 0, !.act = 0]

\* reorder_note_delivery.
NoteDelivery(p, seq) ==
  [p EXCEPT !.init = TRUE, !.last = Cursor(p, seq),
            !.held = @ \ Passed(p, Cursor(p, seq)), !.del = 0, !.act = 0]

-----------------------------------------------------------------------------
\* Mutant of Hold: the ceiling replaces the window instead of capping it.
HoldCeiling(p) == IF MaxHold # 0 THEN MaxHold ELSE p.win

\* How long a held datagram may wait for its predecessor.
Hold(p) == IF MaxHold # 0 THEN Least(p.win, MaxHold) ELSE p.win

\* reorder_pick: the datagram to deliver next and why; none if the set is
\* empty.  Without a cursor the lowest sequence; then the exact successor; then
\* the nearest of those that have waited their hold out.
Pick(p) ==
  LET next  == {e \in p.held : e.seq = SeqNext(p.last)}
      aged  == {e \in p.held : e.age >= Hold(p)}
      ahead == {e \in aged : SeqCmp(e.seq, SeqNext(p.last)) >= 0}
      Nearest(S) == {e \in S : \A f \in S : SeqCmp(e.seq, f.seq) <= 0}
      Eldest(S)  == {e \in S : \A f \in S : e.age >= f.age}
      \* Without a cursor the sequences may span the whole circle and none be
      \* the lowest: then the order of the slots decides.
      Lowest(S) == IF Nearest(S) # {} THEN Nearest(S) ELSE S
      As(kind, S) == {[kind |-> kind, e |-> e] : e \in S}
  IN  IF ~p.init THEN As("first", Lowest(p.held))
      ELSE IF next # {} THEN As("inOrder", next)
      ELSE IF ahead # {} THEN As("forced", Nearest(ahead))
      ELSE As("forced", Eldest(aged))

\* reorder_decay: after a quiet time the window gives up a quarter of what it
\* has above the floor.
Decay(p) ==
  IF Adapt /\ p.adj >= DecayAfter
    THEN [p EXCEPT !.win = IF @ <= WinMin THEN WinMin
                           ELSE WinMin + (3 * (@ - WinMin)) \div 4,
                   !.adj = 0]
    ELSE p

\* reorder_take.
TakeOut(p, e) == Decay(NoteDelivery([p EXCEPT !.held = @ \ {e}], e.seq))

\* reorder_next_ready: the entries with something to deliver, the next after
\* the last one served first.
NextReady(tbl, rr) ==
  LET ready == {i \in DOMAIN tbl : tbl[i].key # NoKey /\ Pick(tbl[i]) # {}}
      Turn(i) == (i - rr) % Peers
  IN  {i \in ready : \A j \in ready : Turn(i) <= Turn(j)}
=============================================================================
