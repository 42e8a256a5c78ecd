----------------------------- MODULE OrderedWire ----------------------------
(***************************************************************************)
(* What the send hooks promise the game about its sequenced datagrams: the *)
(* n-th datagram handed to sendto is the n-th original to reach the        *)
(* network stack, each exactly once, and each eventually does.  Nothing is *)
(* said of when, which is the freedom the pacer uses.                      *)
(***************************************************************************)
EXTENDS Naturals, Sequences

CONSTANT MaxSends   \* bound on the sequenced datagrams the game sends

VARIABLES
  accepted,   \* how many sequenced datagrams the game has handed over
  delivered   \* the originals given to the stack, by number, in order

vars == << accepted, delivered >>

TypeOK ==
  /\ accepted \in 0 .. MaxSends
  /\ delivered \in Seq(1 .. MaxSends)

Init ==
  /\ accepted = 0
  /\ delivered = << >>

Accept ==
  /\ accepted < MaxSends
  /\ accepted' = accepted + 1
  /\ UNCHANGED delivered

Deliver ==
  /\ Len(delivered) < accepted
  /\ delivered' = Append(delivered, Len(delivered) + 1)
  /\ UNCHANGED accepted

Next == Accept \/ Deliver

Safety == Init /\ [][Next]_vars
=============================================================================
