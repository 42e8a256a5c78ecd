------------------------------- MODULE MCOutbox -------------------------------
(***************************************************************************)
(* Instances of Outbox for TLC.                                            *)
(***************************************************************************)
EXTENDS Outbox

\* The server refuses the first session's bundle for good.
McRefused == {<< 1, 0 >>}
=============================================================================
