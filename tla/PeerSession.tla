---------------------------- MODULE PeerSession ----------------------------
(***************************************************************************)
(* What the hooks remember of the remote peers: the damper and the RTT     *)
(* sampler, driven by the game's sends, its receives, the governor thread  *)
(* that feeds the one into the other, and the closing of sockets that ends *)
(* a session.  Line numbers are of dsound_proxy.cpp; the Windows hooks do  *)
(* the same.                                                               *)
(*                                                                         *)
(* The game's sends and its closes run on one thread and each is one step. *)
(* Its receives run on another (269): the datagram is taken from the       *)
(* socket first and noted by the sampler later, and the socket may close   *)
(* in between.                                                             *)
(*                                                                         *)
(* A message is one or more datagrams that all carry its sequence          *)
(* (reorder_core.h:215); the game may send any of them again.  The network *)
(* may lose, duplicate, delay and reorder both datagrams and acks, so an   *)
(* ack of any copy sent since the socket was opened may arrive at any      *)
(* time: copies, the set of datagrams sent, is all there is to remember.   *)
(***************************************************************************)
EXTENDS SendDampen, NetRtt

CONSTANTS
  Addrs,        \* IPv4 addresses of the remote peers
  DampenOn,     \* g_dampen.enabled
  LobbyAlways,  \* the game uses its lobby socket during a session too
  Parts,        \* datagrams in a message
  Flight,       \* messages of a channel the game may still send again
  MaxSeq,       \* bound: messages per peer and session
  MaxSession,   \* bound: sessions
  MaxTime       \* bound: the clock stops here

ASSUME PeerSessionAssumption ==
  /\ DampenOn \in BOOLEAN /\ LobbyAlways \in BOOLEAN
  /\ Parts \in Nat \ {0} /\ Flight \in Nat \ {0}
  /\ MaxSeq \in Nat /\ MaxSeq + 1 < SeqSpace
  /\ MaxSession \in Nat \ {0} /\ MaxTime \in Nat

VARIABLES
  now,         \* GetTickCount64
  dampen,      \* g_dampen.peers: address -> record
  rtt,         \* g_rtt.peers: address -> record
  dampenSock,  \* g_dampen_sock
  gov,         \* governor thread: the smoothed RTTs it has copied out
  open,        \* the game's sockets that are open
  next,        \* the game: per peer, the next datagram of its channel
  session,     \* sessions so far: a new one restarts every counter
  copies,      \* datagrams given to the network on the open P2P socket
  hand,        \* the datagram received and not yet noted by the sampler
  late,        \* peers with a datagram in hand when a session ended
  evicted      \* g_rtt.st.slots_evicted is not 0

vars == << now, dampen, rtt, dampenSock, gov, open, next, session, copies,
           hand, late, evicted >>

Sockets  == {"p2p", "lobby"}
Datagram == [peer : Addrs, seq : Seqs, part : 1 .. Parts, session : Nat, at : Nat]
Entry    == [seq : Seqs, last : Nat, window : Nat]
Slot     == [seq : Seqs, sent : Nat, ambiguous : BOOLEAN]

TypeOK ==
  /\ now \in Nat
  /\ DOMAIN dampen \subseteq Addrs /\ Cardinality(DOMAIN dampen) <= DampenPeers
  /\ \A a \in DOMAIN dampen :
       /\ dampen[a] \in [rtt : Nat, ring : Seq(Entry), use : Nat]
       /\ Len(dampen[a].ring) <= DampenSlots
       /\ \A i, j \in DOMAIN dampen[a].ring :
            dampen[a].ring[i].seq = dampen[a].ring[j].seq => i = j
  /\ DOMAIN rtt \subseteq Addrs /\ Cardinality(DOMAIN rtt) <= RttPeers
  /\ \A a \in DOMAIN rtt :
       /\ rtt[a] \in [slots : Seq(Slot), lastAck : Seqs, ackInit : BOOLEAN,
                      srtt : Nat, srttInit : BOOLEAN, use : Nat]
       /\ Len(rtt[a].slots) <= RttSlots
  /\ dampenSock \in Sockets \cup {"none"}
  /\ gov.pc \in {"idle", "feed"} /\ DOMAIN gov.srtt \subseteq Addrs
  /\ open \subseteq Sockets
  /\ next \in [Addrs -> [seq : Seqs, part : 1 .. Parts]]
  /\ session \in 1 .. MaxSession
  /\ copies \subseteq Datagram
  /\ hand \subseteq [peer : Addrs, seq : Seqs] /\ Cardinality(hand) <= 1
  /\ late \subseteq Addrs
  /\ evicted \in BOOLEAN

-----------------------------------------------------------------------------
Nobody == [a \in {} |-> 0]
First  == [seq |-> 1, part |-> 1]

Init ==
  /\ now = 0
  /\ dampen = Nobody
  /\ rtt = Nobody
  /\ dampenSock = "none"
  /\ gov = [pc |-> "idle", srtt |-> Nobody]
  /\ open = Sockets
  /\ next = [a \in Addrs |-> First]
  /\ session = 1
  /\ copies = {}
  /\ hand = {} /\ late = {}
  /\ evicted = FALSE

\* What the damper says of sequence q to peer a now.
Verdict(a, q) ==
  DampenAdmit(Claim(dampen, DampenPeers, a, NewDampenPeer(now), now)[a], q, now)

\* A send hook given part k of message q for peer a, on the P2P socket: the
\* damper first; what it lets through is recorded by the sampler and leaves.
Hook(a, q, k) ==
  LET table == Claim(dampen, DampenPeers, a, NewDampenPeer(now), now)
      known == Claim(rtt, RttPeers, a, NewRttPeer(now), now)
      drop  == DampenOn /\ Verdict(a, q).suppress
  IN  /\ "p2p" \in open
      /\ IF DampenOn
           THEN /\ dampen' = [table EXCEPT ![a].ring = Verdict(a, q).ring]
                /\ dampenSock' = "p2p"
           ELSE UNCHANGED << dampen, dampenSock >>
      /\ IF drop
           THEN UNCHANGED << rtt, evicted, copies >>
           ELSE /\ rtt' = [known EXCEPT ![a] = RttSend(@, q, now)]
                /\ evicted' = (evicted \/ RttEvicts(known[a], q))
                /\ copies' = copies \cup {[peer |-> a, seq |-> q, part |-> k,
                                           session |-> session, at |-> now]}
      /\ UNCHANGED << now, gov, open, session, hand, late >>

\* The game hands over the next datagram of its channel to a peer ...
SendNext(a) ==
  /\ next[a].seq <= MaxSeq
  /\ Hook(a, next[a].seq, next[a].part)
  /\ next' = [next EXCEPT ![a] =
       IF @.part < Parts THEN [seq |-> @.seq, part |-> @.part + 1]
                         ELSE [seq |-> @.seq + 1, part |-> 1]]

\* The newest message of a channel of which a datagram was handed over, 0 for
\* none, and the messages the game has not given up.
Newest(a) == IF next[a].part > 1 THEN next[a].seq ELSE next[a].seq - 1

MayRetry(a, q) == q \in 1 .. Newest(a) /\ q > Newest(a) - Flight

\* ... or repeats one: its retry timer does not wait for an ack.
Resend(a, q, k) ==
  /\ MayRetry(a, q)
  /\ q < next[a].seq \/ k < next[a].part
  /\ Hook(a, q, k)
  /\ UNCHANGED next

\* A datagram of the game on its lobby socket.  It carries no sequence, so
\* neither table changes, but the hook remembers the socket.
SendLobby ==
  /\ "lobby" \in open
  /\ LobbyAlways \/ copies = {}
  /\ dampenSock' = IF DampenOn THEN "lobby" ELSE dampenSock
  /\ UNCHANGED << now, dampen, rtt, gov, open, next, session, copies, hand, late,
                  evicted >>

\* The receive hooks take a datagram of peer d.peer that acknowledges d ...
Receive(d) ==
  /\ "p2p" \in open
  /\ hand = {}
  /\ hand' = {[peer |-> d.peer, seq |-> d.seq]}
  /\ UNCHANGED << now, dampen, rtt, dampenSock, gov, open, next, session, copies,
                  late, evicted >>

\* ... and note it under g_rtt_cs, whatever became of the socket meanwhile.
RttOnRecv(h) ==
  LET known == Claim(rtt, RttPeers, h.peer, NewRttPeer(now), now)
  IN  /\ rtt' = [known EXCEPT ![h.peer] = RttRecv(@, h.seq, now).peer]
      /\ hand' = {}
      /\ UNCHANGED << now, dampen, dampenSock, gov, open, next, session, copies,
                      late, evicted >>

-----------------------------------------------------------------------------
(* governor_patch_thread's feed: copied out under g_rtt_cs, applied later  *)
(* under g_pace_cs.                                                        *)

GovCopy ==
  LET sampled == {a \in DOMAIN rtt : rtt[a].srttInit}
  IN  /\ DampenOn
      /\ gov.pc = "idle"
      /\ sampled # {}
      /\ gov' = [pc |-> "feed", srtt |-> [a \in sampled |-> rtt[a].srtt]]
      /\ UNCHANGED << now, dampen, rtt, dampenSock, open, next, session, copies,
                      hand, late, evicted >>

\* Mutant of GovFeed: the feed creates the records it does not find.
GovFeedCreates ==
  /\ gov.pc = "feed"
  /\ dampen' = [a \in DOMAIN dampen \cup DOMAIN gov.srtt |->
       LET p == IF a \in DOMAIN dampen THEN dampen[a] ELSE NewDampenPeer(now)
       IN  IF a \in DOMAIN gov.srtt THEN [p EXCEPT !.rtt = gov.srtt[a]] ELSE p]
  /\ gov' = [pc |-> "idle", srtt |-> Nobody]
  /\ UNCHANGED << now, rtt, dampenSock, open, next, session, copies, hand, late,
                  evicted >>

GovFeed ==
  /\ gov.pc = "feed"
  /\ dampen' = [a \in DOMAIN dampen |->
       IF a \in DOMAIN gov.srtt THEN DampenSetRtt(dampen, a, gov.srtt[a])[a]
                                ELSE dampen[a]]
  /\ gov' = [pc |-> "idle", srtt |-> Nobody]
  /\ UNCHANGED << now, rtt, dampenSock, open, next, session, copies, hand, late,
                  evicted >>

-----------------------------------------------------------------------------
\* Mutant of Close: the damper keeps what it remembers.
CloseKeeps(s) ==
  /\ s \in open
  /\ open' = open \ {s}
  /\ rtt' = IF dampenSock = s THEN Nobody ELSE rtt
  /\ dampenSock' = IF dampenSock = s THEN "none" ELSE dampenSock
  /\ copies' = IF s = "p2p" THEN {} ELSE copies
  /\ UNCHANGED << now, dampen, gov, next, session, hand, late, evicted >>

\* hooked_closesocket, the part under g_pace_cs: the close of the remembered
\* socket forgets every peer the damper knows, in both tables.
Close(s) ==
  LET ends == dampenSock = s
  IN  /\ s \in open
      /\ open' = open \ {s}
      /\ dampen' = IF ends THEN Nobody ELSE dampen
      /\ rtt' = IF ends THEN [a \in DOMAIN rtt \ DOMAIN dampen |-> rtt[a]] ELSE rtt
      /\ dampenSock' = IF ends THEN "none" ELSE dampenSock
      /\ copies' = IF s = "p2p" THEN {} ELSE copies
      /\ late' = (IF ends THEN late \ DOMAIN dampen ELSE late)
                 \cup (IF s = "p2p" THEN {h.peer : h \in hand} ELSE {})
      /\ UNCHANGED << now, gov, next, session, hand, evicted >>

\* The game opens a P2P socket again: a new session on a new port.
Reopen ==
  /\ "p2p" \notin open
  /\ session < MaxSession
  /\ open' = open \cup {"p2p"}
  /\ session' = session + 1
  /\ next' = [a \in Addrs |-> First]
  /\ UNCHANGED << now, dampen, rtt, dampenSock, gov, copies, hand, late, evicted >>

\* The game reconnects on the socket it has: every counter restarts.  It
\* takes longer than the damper's longest window.
Reconnect ==
  /\ "p2p" \in open
  /\ session < MaxSession
  /\ \A d \in copies : now - d.at >= DampenMax
  /\ session' = session + 1
  /\ next' = [a \in Addrs |-> First]
  /\ UNCHANGED << now, dampen, rtt, dampenSock, gov, open, copies, hand, late,
                  evicted >>

Tick ==
  /\ now < MaxTime
  /\ now' = now + 1
  /\ UNCHANGED << dampen, rtt, dampenSock, gov, open, next, session, copies, hand,
                  late, evicted >>

Next ==
  \/ \E a \in Addrs : SendNext(a)
  \/ \E a \in Addrs, q \in 1 .. MaxSeq, k \in 1 .. Parts : Resend(a, q, k)
  \/ SendLobby
  \/ \E d \in copies : Receive(d)
  \/ \E h \in hand : RttOnRecv(h)
  \/ GovCopy \/ GovFeed
  \/ \E s \in Sockets : Close(s)
  \/ Reopen \/ Reconnect
  \/ Tick

Safety == Init /\ [][Next]_vars

-----------------------------------------------------------------------------
(* Properties *)

\* "A first transmission always goes" (send_dampen.h:12): whatever the ring
\* still holds of earlier messages or sessions, the damper does not suppress
\* the next datagram of a channel.
FirstTransmissionGoes ==
  DampenOn /\ "p2p" \in open =>
    \A a \in Addrs : ~Verdict(a, next[a].seq).suppress

\* A retry is suppressed only while a copy of that very message, given to the
\* network in this session, is younger than the ceiling of the window: the
\* damper can delay the recovery of a lost datagram by no more than that,
\* however often the retry timer fires (send_dampen.h:238).
SuppressedIsCovered ==
  DampenOn /\ "p2p" \in open =>
    \A a \in Addrs, q \in 1 .. MaxSeq :
      q < next[a].seq /\ Verdict(a, q).suppress =>
        \E d \in copies : /\ d.peer = a /\ d.seq = q /\ d.session = session
                          /\ now - d.at < DampenMax

\* "A live duplicate is necessarily inside the retained set and never triggers
\* the reset" (send_dampen.h:207): however long the session and whatever the
\* ring has evicted, a message the game may still send again is in the ring and
\* is not taken for a restart.
ResetMeansRestart ==
  DampenOn /\ "p2p" \in open =>
    \A a \in Addrs, q \in 1 .. MaxSeq : MayRetry(a, q) =>
      /\ a \in DOMAIN dampen
      /\ \E i \in DOMAIN dampen[a].ring : dampen[a].ring[i].seq = q
      /\ ~Verdict(a, q).restart

\* Until the sampler has counted a slot lost to a full ring, an ack of a copy sent
\* on the open socket produces a sample only if the time it measures is the age of
\* the copy that was acknowledged: "never a wrong number" (net_rtt.h:68).
SampleIsTrue ==
  ~evicted =>
    \A d \in copies : d.peer \in DOMAIN rtt =>
      RttRecv(rtt[d.peer], d.seq, now).sample \in {NoSample, now - d.at}

\* "Never a wrong number", and a full ring only costs resolution
\* (net_rtt.h:67): the same of every sample.
EverySampleIsTrue ==
  \A d \in copies : d.peer \in DOMAIN rtt =>
    RttRecv(rtt[d.peer], d.seq, now).sample \in {NoSample, now - d.at}

\* The end of a session leaves nothing that "a new epoch's low sequences would
\* otherwise match" (dsound_proxy.cpp:1187): the damper's table is empty after
\* the close of the P2P socket, and the sampler knows only a peer whose
\* datagram was in hand at a close, and was noted after it.
SessionEndForgets ==
  "p2p" \notin open => DOMAIN dampen = {} /\ DOMAIN rtt \subseteq late

\* As the comment has it (dsound_proxy.cpp:1186): no record of either table
\* survives the close.
NothingSurvives == "p2p" \notin open => DOMAIN dampen = {} /\ DOMAIN rtt = {}

\* "Closing an unrelated socket must leave the peer ring intact, or it
\* collapses suppression mid-match" (dsound_proxy.cpp:1173).
UnrelatedCloseKeepsRing ==
  [][Close("lobby") => UNCHANGED dampen]_vars
=============================================================================
