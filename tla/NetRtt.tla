------------------------------- MODULE NetRtt -------------------------------
(***************************************************************************)
(* shared/net_rtt.h: round-trip samples from the protocol's own ack field. *)
(* Per address, the sequences sent and not yet acknowledged, oldest first, *)
(* and the highest ack seen.  Totals, window statistics and the variance   *)
(* are only printed and are left out.                                      *)
(***************************************************************************)
EXTENDS SeqNum, Sequences

CONSTANTS
  RttSlots,      \* kRttSlots: outstanding sequences remembered per peer
  RttMaxSample,  \* kRttMaxSampleMs
  RttPeers       \* kRttPeers

ASSUME RttAssumption ==
  /\ RttSlots \in Nat \ {0}
  /\ RttMaxSample \in Nat
  /\ RttPeers \in Nat \ {0}

NoSample == -1

\* A peer's record as rtt_get_peer claims it.
NewRttPeer(t) ==
  [slots |-> << >>, lastAck |-> 0, ackInit |-> FALSE,
   srtt |-> 0, srttInit |-> FALSE, use |-> t]

\* Mutant of RttSend: a resend is not marked (no Karn).
RttSendUnmarked(p, seq, t) ==
  IF \E i \in DOMAIN p.slots : p.slots[i].seq = seq THEN p
  ELSE [p EXCEPT !.slots = Append(@, [seq |-> seq, sent |-> t, ambiguous |-> FALSE])]

\* rtt_on_send: a sequence still outstanding becomes ambiguous (Karn); a new
\* one takes a slot, the oldest one's when the ring is full.
RttSend(p, seq, t) ==
  LET again == {i \in DOMAIN p.slots : p.slots[i].seq = seq}
      room  == IF Len(p.slots) < RttSlots THEN p.slots ELSE Tail(p.slots)
  IN  [p EXCEPT !.slots =
         IF again # {}
           THEN [i \in DOMAIN p.slots |->
                   [p.slots[i] EXCEPT !.ambiguous = @ \/ i \in again]]
           ELSE Append(room, [seq |-> seq, sent |-> t, ambiguous |-> FALSE])]

\* A send of seq takes the slot of a sequence that has not been acknowledged
\* (slots_evicted).
RttEvicts(p, seq) ==
  Len(p.slots) = RttSlots /\ \A i \in DOMAIN p.slots : p.slots[i].seq # seq

\* The smoothing of RFC 6298 in integers.
Smooth(p, r) == IF p.srttInit THEN (7 * p.srtt + r) \div 8 ELSE r

(***************************************************************************)
(* rtt_on_recv: only an advancing ack counts.  The slot of the sequence it *)
(* names is retired with every slot before it, and gives a sample unless   *)
(* it is ambiguous or implausible.                                         *)
(***************************************************************************)
RttRecv(p, ack, t) ==
  LET stale  == p.ackInit /\ SeqCmp(ack, p.lastAck) <= 0
      hits   == {i \in DOMAIN p.slots : p.slots[i].seq = ack}
      i      == CHOOSE i \in hits : \A j \in hits : i <= j
      slot   == p.slots[i]
      usable == /\ hits # {}
                /\ ~slot.ambiguous
                /\ slot.sent <= t /\ t - slot.sent <= RttMaxSample
      sample == t - slot.sent
  IN  IF stale THEN [sample |-> NoSample, peer |-> p]
      ELSE [sample |-> IF usable THEN sample ELSE NoSample,
            peer |-> [p EXCEPT
              !.lastAck = ack, !.ackInit = TRUE,
              !.slots = IF hits = {} THEN @ ELSE SubSeq(@, i + 1, Len(@)),
              !.srtt = IF usable THEN Smooth(p, sample) ELSE @,
              !.srttInit = @ \/ usable]]
=============================================================================
