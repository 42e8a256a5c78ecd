--------------------------- MODULE MCPeerSession ----------------------------
(***************************************************************************)
(* Instances of PeerSession for TLC: windows of 1 and 2 ticks, so that a   *)
(* window opens, doubles, is capped and runs out within the clock's bound. *)
(***************************************************************************)
EXTENDS PeerSession
\* One peer never fills a table, so the times of last use, which only choose
\* whom a full table gives up, tell no two states apart.
McView == << now, [a \in DOMAIN dampen |-> << dampen[a].rtt, dampen[a].ring >>],
             [a \in DOMAIN rtt |-> [rtt[a] EXCEPT !.use = 0]], dampenSock, gov,
             open, next, session, copies, hand, late, evicted >>
=============================================================================
