--------------------------- MODULE CompletionPort ---------------------------
(***************************************************************************)
(* What a completion port promises the game, with the receive hook in      *)
(* front of it: a completion is handed over once, and it overtakes at most *)
(* Slack of those that were queued before it.  Slack 0 is a first-in       *)
(* first-out queue.                                                        *)
(***************************************************************************)
EXTENDS Naturals, FiniteSets

CONSTANTS
  MaxArrivals,  \* bound: completions that are queued
  Slack         \* how many earlier completions one may overtake

VARIABLES
  queued,   \* how many completions have been queued so far
  handed    \* the completions the game was handed, by number

vars == << queued, handed >>

Init ==
  /\ queued = 0
  /\ handed = {}

\* One receive completes, or the close of a socket aborts several.
Queue ==
  /\ queued' \in queued + 1 .. MaxArrivals
  /\ UNCHANGED handed

Waiting == (1 .. queued) \ handed

Hand(n) ==
  /\ n \in Waiting
  /\ Cardinality({m \in Waiting : m < n}) <= Slack
  /\ handed' = handed \cup {n}
  /\ UNCHANGED queued

Next == Queue \/ \E n \in Waiting : Hand(n)

Safety == Init /\ [][Next]_vars
=============================================================================
