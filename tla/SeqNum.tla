------------------------------- MODULE SeqNum -------------------------------
(***************************************************************************)
(* The protocol's message counter and its comparison (reorder_core.h): the *)
(* difference of two counters is taken in the counter's own width and read *)
(* as a signed number, so the order wraps with the counter.                *)
(***************************************************************************)
EXTENDS Integers

CONSTANT SeqSpace   \* number of counter values, 2^32 in the code

ASSUME SeqSpaceAssumption ==
  SeqSpace \in Nat \ {0} /\ SeqSpace % 2 = 0

Seqs == 0 .. SeqSpace - 1

\* seq_cmp: negative, zero or positive as a is behind, equal to or ahead of b.
SeqCmp(a, b) ==
  LET d == (a - b) % SeqSpace
  IN  IF 2 * d >= SeqSpace THEN d - SeqSpace ELSE d

\* seq_next.
SeqNext(s) == (s + 1) % SeqSpace
=============================================================================
