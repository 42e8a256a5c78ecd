----------------------------- MODULE SendDampen -----------------------------
(***************************************************************************)
(* shared/send_dampen.h: the suppressor of redundant retransmissions.  Per *)
(* IPv4 address it keeps a ring of the sequences sent, each with the time  *)
(* of its last actual send and a window; a copy inside the window is       *)
(* dropped.  The counters and the high-water mark (high_seq) decide        *)
(* nothing and are left out, as is dampen_observe_ack, which nobody calls. *)
(***************************************************************************)
EXTENDS SeqNum, Sequences, FiniteSets

CONSTANTS
  DampenSlots,   \* kDampenSlots: sequences remembered per peer
  DampenFloor,   \* kDampenFloorMs
  DampenMax,     \* kDampenMaxMs
  DampenPeers    \* kDampenPeers: peers remembered

ASSUME DampenAssumption ==
  /\ DampenSlots \in Nat \ {0}
  /\ DampenFloor \in Nat /\ DampenMax \in Nat
  /\ DampenFloor <= DampenMax
  /\ DampenPeers \in Nat \ {0}

\* A peer's record as dampen_get_peer claims it.
NewDampenPeer(t) == [rtt |-> 0, ring |-> << >>, use |-> t]

\* dampen_window_for: 1.2 times the estimate between the floor and the ceiling.
WindowFor(rtt) ==
  LET w == (rtt * 12) \div 10
  IN  IF w < DampenFloor THEN DampenFloor ELSE IF w > DampenMax THEN DampenMax ELSE w

(***************************************************************************)
(* A table of peers is a function whose domain holds the addresses in use. *)
(* Claiming a record touches it or creates it, and a full table gives up a *)
(* least recently used one (the code takes the first of several).          *)
(***************************************************************************)
Oldest(tbl) == {a \in DOMAIN tbl : \A b \in DOMAIN tbl : tbl[a].use <= tbl[b].use}

Claim(tbl, cap, addr, new, t) ==
  IF addr \in DOMAIN tbl THEN [tbl EXCEPT ![addr].use = t]
  ELSE LET lost == IF Cardinality(DOMAIN tbl) < cap THEN {}
                   ELSE {CHOOSE a \in Oldest(tbl) : TRUE}
           kept == (DOMAIN tbl \ lost) \cup {addr}
       IN  [a \in kept |-> IF a = addr THEN new ELSE tbl[a]]

(***************************************************************************)
(* dampen_admit on the peer's record p, for a reliable datagram with a     *)
(* sequence.  restart is the epoch reset: the sequence is behind the       *)
(* oldest entry of the ring, which is then forgotten.                      *)
(***************************************************************************)
\* Mutants of DampenAdmit: the window is measured from the last attempt; the
\* epoch reset is taken for every sequence behind the newest entry.
AdmitFromAttempt(p, seq, t) ==
  LET hits == {i \in DOMAIN p.ring : p.ring[i].seq = seq}
      i    == CHOOSE i \in hits : TRUE
      drop == t - p.ring[i].last < p.ring[i].window
  IN  IF hits = {}
        THEN [suppress |-> FALSE, restart |-> FALSE,
              ring |-> Append(p.ring, [seq |-> seq, last |-> t, window |-> WindowFor(p.rtt)])]
      ELSE [suppress |-> drop, restart |-> FALSE,
            ring |-> [p.ring EXCEPT ![i].last = t,
                                    ![i].window = IF drop THEN @ ELSE DampenMax]]

AdmitNewestIsOldest(p, seq, t) ==
  LET restart == p.ring # << >> /\ SeqCmp(seq, p.ring[Len(p.ring)].seq) < 0
  IN  [suppress |-> FALSE, restart |-> restart,
       ring |-> Append(IF restart THEN << >> ELSE p.ring,
                       [seq |-> seq, last |-> t, window |-> WindowFor(p.rtt)])]

DampenAdmit(p, seq, t) ==
  LET restart == p.ring # << >> /\ SeqCmp(seq, Head(p.ring).seq) < 0
      ring    == IF restart THEN << >> ELSE p.ring
      hits    == {i \in DOMAIN ring : ring[i].seq = seq}
      room    == IF Len(ring) < DampenSlots THEN ring ELSE Tail(ring)
      i       == CHOOSE i \in hits : \A j \in hits : i <= j
      Widen(e) == [seq |-> e.seq, last |-> t,
                   window |-> IF 2 * e.window > DampenMax THEN DampenMax ELSE 2 * e.window]
  IN  IF hits = {}
        THEN [suppress |-> FALSE, restart |-> restart,
              ring |-> Append(room, [seq |-> seq, last |-> t, window |-> WindowFor(p.rtt)])]
      ELSE IF t - ring[i].last < ring[i].window
        THEN [suppress |-> TRUE, restart |-> FALSE, ring |-> ring]
      ELSE [suppress |-> FALSE, restart |-> FALSE,
            ring |-> [ring EXCEPT ![i] = Widen(ring[i])]]

\* dampen_set_rtt: only a peer the send path has created is updated.
DampenSetRtt(tbl, addr, rtt) ==
  IF addr \in DOMAIN tbl /\ rtt # 0 THEN [tbl EXCEPT ![addr].rtt = rtt] ELSE tbl
=============================================================================
