------------------------------ MODULE SendPace ------------------------------
(***************************************************************************)
(* shared/send_pace.h: the optional send pacer, a token bucket in front of *)
(* a FIFO of datagrams.  The header is platform independent: the hook      *)
(* holds g_pace_cs, supplies the clock and performs the sends.  This       *)
(* module gives the header's decisions as operators; SendPath.tla adds the *)
(* threads.                                                                *)
(*                                                                         *)
(* Time is in clock ticks and Second is the number of ticks in a second    *)
(* (1000 in the code); the two integer divisions round as in the code.     *)
(* The one-second measurement window and the other statistics never feed   *)
(* back into a decision and are left out.                                  *)
(***************************************************************************)
EXTENDS Integers, Sequences

CONSTANTS
  Rate,         \* rate_bps: bytes the bucket gains per second
  Second,       \* clock ticks per second
  Burst,        \* burst_bytes: capacity of the bucket
  MaxDelay,     \* max_delay_ms: the longest wait the pacer may impose
  Slots,        \* kPaceQueueSlots
  SeqMinPay,    \* kReorderSeqMinPay: shorter datagrams carry no sequence
  MaxPktBytes   \* kReorderMaxPktBytes: larger datagrams cannot be stored

ASSUME PaceAssumption ==
  /\ Rate \in Nat \ {0}
  /\ Second \in Nat \ {0}
  /\ Burst \in Nat
  /\ MaxDelay \in Nat
  /\ Slots \in Nat \ {0}
  /\ SeqMinPay \in Nat
  /\ MaxPktBytes \in Nat

\* The bucket as pace_init leaves it: full.
PaceInit(t) == [tokens |-> Burst, last |-> t]

\* The refill step of pace_admit: the gain is rounded down and the bucket
\* is capped, and the clock of the bucket moves only if time has passed.
Refill(b, t) ==
  LET gained == b.tokens + ((t - b.last) * Rate) \div Second
  IN  IF t > b.last
        THEN [tokens |-> IF gained > Burst THEN Burst ELSE gained, last |-> t]
        ELSE b

\* Ticks until a bucket in debt is back at zero, rounded down.
Debt(tokens) == IF tokens < 0 THEN ((0 - tokens) * Second) \div Rate ELSE 0

\* Mutants of PaceAdmit: a sequenced datagram the bucket can pay for passes
\* the queue; a queued datagram is not charged.
AdmitMutant(b, held, len, t, passes, charge) ==
  LET f == Refill(b, t)
      Leave(n) == [f EXCEPT !.tokens = n]
      wait == Debt(f.tokens - len)
  IN  IF len < SeqMinPay
        THEN [what |-> "SendNow", bucket |-> b, due |-> t]
      ELSE IF (held = 0 \/ passes) /\ f.tokens >= len
        THEN [what |-> "SendNow", bucket |-> Leave(f.tokens - len), due |-> t]
      ELSE IF wait > MaxDelay \/ held >= Slots
        THEN [what |-> "FlushThenSend", bucket |-> Leave(0), due |-> t]
      ELSE [what |-> "Queued", bucket |-> Leave(f.tokens - charge), due |-> t + wait]

AdmitOvertakes(b, held, len, t) == AdmitMutant(b, held, len, t, TRUE, len)
AdmitOnCredit(b, held, len, t)  == AdmitMutant(b, held, len, t, FALSE, 0)

(***************************************************************************)
(* pace_admit for a datagram of len bytes at time t, with `held` entries   *)
(* in the queue.  The answer is what the caller must do, the bucket it     *)
(* leaves, and when a queued datagram falls due.                           *)
(***************************************************************************)
PaceAdmit(b, held, len, t) ==
  LET f    == Refill(b, t)
      wait == Debt(f.tokens - len)
      Answer(what, tokens, due) ==
        [what |-> what, bucket |-> [f EXCEPT !.tokens = tokens], due |-> due]
  IN  IF len < SeqMinPay
        THEN [what |-> "SendNow", bucket |-> b, due |-> t]
      ELSE IF held = 0 /\ f.tokens >= len
        THEN Answer("SendNow", f.tokens - len, t)
      ELSE IF wait > MaxDelay \/ held >= Slots
        THEN Answer(IF held > 0 THEN "FlushThenSend" ELSE "SendNow", 0, t)
      ELSE Answer("Queued", f.tokens - len, t + wait)

\* Mutant of HeadDue: off by one tick.
HeadOverdue(q, t) == q # << >> /\ Head(q).due < t

\* pace_pop_due: only the head is looked at.
HeadDue(q, t) == q # << >> /\ Head(q).due <= t

\* pace_purge_socket: drop what a closed handle owns and close the gaps,
\* keeping the order of the rest.
PurgeSocket(q, s) ==
  LET Kept(e) == e.sock # s
  IN  IF \A i \in DOMAIN q : Kept(q[i]) THEN q ELSE SelectSeq(q, Kept)
=============================================================================
