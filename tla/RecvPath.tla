------------------------------ MODULE RecvPath ------------------------------
(***************************************************************************)
(* The buffered receive path: hooked_WSARecvFrom on the game's network     *)
(* thread, which drains the socket into the reorder buffer and returns one *)
(* datagram; reorder_wake_thread, which pokes the socket while the buffer  *)
(* holds something and the game does not poll; hooked_closesocket.  Line   *)
(* numbers are of Linux/proton_dsound_proxy/src/dsound_proxy.cpp.          *)
(*                                                                         *)
(* The call holds g_reorder_cs from its first line to its return, but the  *)
(* kernel receives and the clock runs between two real receives, so each   *)
(* turn of the drain loop is a step.  Time stamps are ages (ReorderCore),  *)
(* so the clock needs no bound.                                            *)
(*                                                                         *)
(* Every datagram that reaches the kernel has a number; given is what the  *)
(* game got, in order, and lost what no later call can deliver.            *)
(***************************************************************************)
EXTENDS ReorderCore, Sequences

CONSTANTS
  Socks,        \* the game's UDP sockets
  Froms,        \* source addresses and ports
  Numbers,      \* sequences the peers send
  DrainCap,     \* g_reorder_drain
  WakeIdle,     \* kReorderWakeIdleMs
  WakeCap,      \* kReorderWakeBurstCap
  MaxArrivals,  \* bound: datagrams the network brings
  MaxCloses     \* bound: closes of a socket

ASSUME RecvPathAssumption ==
  /\ Numbers \subseteq Seqs
  /\ DrainCap \in Nat \ {0}
  /\ WakeIdle \in Nat /\ WakeCap \in Nat
  /\ MaxArrivals \in Nat /\ MaxCloses \in Nat
  /\ NoKey \notin Froms
  /\ MaxHold <= WinMax

VARIABLES
  kernel,       \* per socket, the kernel's receive buffer
  tbl,          \* g_rx.tbl
  rr,           \* g_rx.rr
  reorderSock,  \* g_reorder_sock
  lastCall,     \* age of g_last_recv_call_ms
  news,         \* it changed since the wake thread last acted on it
  game,         \* the game's network thread inside the hook
  wake,         \* reorder_wake_thread
  open,         \* the sockets that are open
  closes,       \* closes so far
  arrived,      \* datagrams the network brought so far
  given,        \* history: what the game was given
  lost          \* history: what was destroyed, and how

vars == << kernel, tbl, rr, reorderSock, lastCall, news, game, wake, open,
           closes, arrived, given, lost >>
history == << arrived, given, lost >>

-----------------------------------------------------------------------------
\* What the kernel may hold: a datagram with a sequence, one too short to
\* have one, one too large for the drain buffer, one of length 0, the wake
\* thread's own.
Data(n, k, q) == [kind |-> "data", id |-> n, from |-> k, seq |-> q]
Packets ==
  [kind : {"data"}, id : Nat, from : Froms, seq : Seqs]
    \cup [kind : {"short", "big", "empty"}, id : Nat] \cup [kind : {"wake"}]

Kinds == {"short", "bypass", "stale", "duplicate", "evicted",
          "first", "inOrder", "forced"}
Ends  == {"big", "empty", "purged", "reclaimed", "reset", "closed"}

HeldData == [id : Nat, seq : Seqs, age : 0 .. WinMax]
Entry ==
  [key : Froms \cup {NoKey}, init : BOOLEAN, last : Seqs, held : SUBSET HeldData,
   win : WinMin .. WinMax, adj : 0 .. DecayAfter, act : 0 .. PeerIdle, del : 0 .. WinMax]

\* A ring has no more datagrams than slots and no sequence twice, and a free
\* entry is as reorder_reset leaves it.
EntryOK(p) ==
  /\ p \in Entry
  /\ IsFiniteSet(p.held) /\ Cardinality(p.held) <= Depth
  /\ \A e, f \in p.held : e.seq = f.seq => e = f
  /\ p.key = NoKey => p = NoPeer

TypeOK ==
  /\ kernel \in [Socks -> Seq(Packets)]
  /\ tbl \in [0 .. Peers - 1 -> Entry] /\ \A i \in 0 .. Peers - 1 : EntryOK(tbl[i])
  /\ rr \in 0 .. Peers - 1
  /\ reorderSock \in Socks \cup {"none"}
  /\ lastCall \in 0 .. WakeIdle /\ news \in BOOLEAN
  /\ game \in [pc : {"idle", "drain", "pick"}, sock : Socks, n : 0 .. DrainCap]
  /\ wake \in [pc : {"sleep", "send"}, target : Socks \cup {"none"},
               last : 0 .. WakeIdle, news : BOOLEAN, burst : 0 .. WakeCap]
  /\ open \subseteq Socks /\ closes \in Nat /\ arrived \in Nat
  /\ given \in Seq([id : 1 .. arrived, kind : Kinds, seq : Seqs, entry : DOMAIN tbl])
  /\ lost \subseteq [id : 1 .. arrived, how : Ends]

-----------------------------------------------------------------------------
Idle(s) == [pc |-> "idle", sock |-> s, n |-> 0]

Init ==
  /\ kernel = [s \in Socks |-> << >>]
  /\ tbl = NoPeers
  /\ rr = 0
  /\ reorderSock = "none"
  /\ lastCall = WakeIdle
  /\ news = FALSE
  /\ \E s \in Socks : game = Idle(s)
  /\ wake = [pc |-> "sleep", target |-> "none", last |-> 0, news |-> FALSE, burst |-> 0]
  /\ open = Socks
  /\ closes = 0
  /\ arrived = 0
  /\ given = << >>
  /\ lost = {}

\* The network brings a datagram.
Arrive(s, kind, k, q) ==
  /\ s \in open
  /\ arrived < MaxArrivals
  /\ arrived' = arrived + 1
  /\ kernel' = [kernel EXCEPT ![s] = Append(@,
       IF kind = "data" THEN Data(arrived + 1, k, q) ELSE [kind |-> kind, id |-> arrived + 1])]
  /\ UNCHANGED << tbl, rr, reorderSock, lastCall, news, game, wake, open, closes, given, lost >>

-----------------------------------------------------------------------------
(* hooked_WSARecvFrom *)

\* The game polls a socket.  Only a poll of the remembered socket tells the
\* wake thread so.
Poll(s) ==
  /\ game.pc = "idle"
  /\ s \in open
  /\ game' = [pc |-> "drain", sock |-> s, n |-> 0]
  /\ lastCall' = IF s = reorderSock THEN 0 ELSE lastCall
  /\ news' = (news \/ s = reorderSock)
  /\ UNCHANGED << kernel, tbl, rr, reorderSock, wake, open, closes, history >>

\* deliver_to_caller: the call returns with a datagram.
Deliver(n, kind, q, i) ==
  /\ given' = Append(given, [id |-> n, kind |-> kind, seq |-> q, entry |-> i])
  /\ game' = Idle(game.sock)

Destroy(S, how) == lost' = lost \cup {[id |-> e.id, how |-> how] : e \in S}

\* One turn of the drain loop: the head of the kernel's buffer.
DrainGuard ==
  /\ game.pc = "drain"
  /\ game.n < DrainCap
  /\ ~Saturated(tbl)
  /\ kernel[game.sock] # << >>
  /\ kernel' = [kernel EXCEPT ![game.sock] = Tail(@)]

Packet == Head(kernel[game.sock])
Continue == game' = [game EXCEPT !.n = @ + 1]

\* The wake thread's datagram is swallowed; an oversized one has already been
\* truncated by the stack.
DrainOther ==
  /\ DrainGuard
  /\ Packet.kind \in {"wake", "big"}
  /\ Continue
  /\ IF Packet.kind = "big" THEN Destroy({Packet}, "big") ELSE UNCHANGED lost
  /\ UNCHANGED << tbl, rr, reorderSock, lastCall, news, wake, open, closes, arrived, given >>

\* A datagram of length 0: the receive has taken it from the kernel, and the
\* loop ends as if the socket were empty.
DrainEmpty ==
  /\ DrainGuard
  /\ Packet.kind = "empty"
  /\ game' = [game EXCEPT !.pc = "pick"]
  /\ Destroy({Packet}, "empty")
  /\ UNCHANGED << tbl, rr, reorderSock, lastCall, news, wake, open, closes, arrived, given >>

\* Too short for a sequence, or no entry for its source: straight through.
DrainBypass ==
  /\ DrainGuard
  /\ \/ Packet.kind = "short" /\ Deliver(Packet.id, "short", 0, 0)
     \/ /\ Packet.kind = "data"
        /\ EntryFor(tbl, Packet.from) = {}
        /\ Deliver(Packet.id, "bypass", 0, 0)
  /\ UNCHANGED << tbl, rr, reorderSock, lastCall, news, wake, open, closes, arrived, lost >>

\* A datagram with a sequence: claim its entry, adapt the window, insert; what
\* cannot be buffered is delivered at once, and so is what a full ring evicts.
DrainData ==
  /\ DrainGuard
  /\ Packet.kind = "data"
  /\ \E i \in EntryFor(tbl, Packet.from) :
       LET p   == AdaptOnArrival(Claimed(tbl[i], Packet.from), Packet.seq)
           ins == Insert(p, Packet.id, Packet.seq)
           ring == [p EXCEPT !.held = ins.held]
           gone == IF tbl[i].key = Packet.from THEN {} ELSE tbl[i].held
       IN  /\ \/ /\ ins.what = "buffered"
                 /\ tbl' = [tbl EXCEPT ![i] = ring]
                 /\ Continue
                 /\ Destroy(gone, "reclaimed")
                 /\ UNCHANGED given
              \/ /\ ins.what \in {"stale", "duplicate"}
                 /\ tbl' = [tbl EXCEPT ![i] = ring]
                 /\ Deliver(Packet.id, ins.what, Packet.seq, i)
                 /\ Destroy(gone, "reclaimed")
              \/ /\ ins.what = "evicted"
                 /\ \E e \in ins.out :
                      /\ tbl' = [tbl EXCEPT ![i] = NoteDelivery(ring, e.seq)]
                      /\ Deliver(e.id, "evicted", e.seq, i)
                      /\ Destroy(Passed(ring, Cursor(ring, e.seq)), "purged")
  /\ reorderSock' = game.sock
  /\ lastCall' = 0
  /\ news' = TRUE
  /\ UNCHANGED << rr, wake, open, closes, arrived >>

\* The loop ends: cap reached, a ring full, or nothing left to receive.
DrainEnd ==
  /\ game.pc = "drain"
  /\ game.n >= DrainCap \/ Saturated(tbl) \/ kernel[game.sock] = << >>
  /\ game' = [game EXCEPT !.pc = "pick"]
  /\ UNCHANGED << kernel, tbl, rr, reorderSock, lastCall, news, wake, open, closes, history >>

\* The best candidate of the buffer is returned ...
ReturnHeld ==
  /\ game.pc = "pick"
  /\ \E i \in NextReady(tbl, rr) : \E pick \in Pick(tbl[i]) :
       LET e    == pick.e
           rest == [tbl[i] EXCEPT !.held = @ \ {e}]
       IN  /\ tbl' = [tbl EXCEPT ![i] = TakeOut(@, e)]
           /\ rr' = (i + 1) % Peers
           /\ Deliver(e.id, pick.kind, e.seq, i)
           /\ Destroy(Passed(rest, Cursor(rest, e.seq)), "purged")
  /\ UNCHANGED << kernel, reorderSock, lastCall, news, wake, open, closes, arrived >>

\* ... or the call says that the socket is empty.
ReturnEmpty ==
  /\ game.pc = "pick"
  /\ NextReady(tbl, rr) = {}
  /\ game' = Idle(game.sock)
  /\ UNCHANGED << kernel, tbl, rr, reorderSock, lastCall, news, wake, open, closes, history >>

-----------------------------------------------------------------------------
(* reorder_wake_thread *)

\* Mutant of WakeLook: only a full ring counts as holding something.
WakeLookFull ==
  /\ wake.pc = "sleep"
  /\ game.pc = "idle"
  /\ Saturated(tbl)
  /\ reorderSock # "none"
  /\ wake' = [wake EXCEPT !.pc = "send", !.target = reorderSock,
                          !.last = lastCall, !.news = news]
  /\ news' = FALSE
  /\ UNCHANGED << kernel, tbl, rr, reorderSock, lastCall, game, open, closes, history >>

\* Under the lock, which no call of the game holds: is anything held?
WakeLook ==
  /\ wake.pc = "sleep"
  /\ game.pc = "idle"
  /\ \E i \in DOMAIN tbl : tbl[i].key # NoKey /\ tbl[i].held # {}
  /\ reorderSock # "none"
  /\ wake' = [wake EXCEPT !.pc = "send", !.target = reorderSock,
                          !.last = lastCall, !.news = news]
  /\ news' = FALSE
  /\ UNCHANGED << kernel, tbl, rr, reorderSock, lastCall, game, open, closes, history >>

\* After the lock: not while the game polls, not more often than the cap
\* allows between two polls, and not to a socket that is closed by now.
WakeSend ==
  LET busy  == wake.last < WakeIdle
      burst == IF wake.news THEN 0 ELSE wake.burst
      send  == ~busy /\ burst < WakeCap /\ wake.target \in open
  IN  /\ wake.pc = "send"
      /\ kernel' = IF send THEN [kernel EXCEPT ![wake.target] = Append(@, [kind |-> "wake"])]
                           ELSE kernel
      /\ wake' = [pc |-> "sleep", target |-> "none", last |-> 0, news |-> FALSE,
                  burst |-> IF busy THEN wake.burst ELSE IF send THEN burst + 1 ELSE burst]
      /\ news' = (news \/ (busy /\ wake.news))
      /\ UNCHANGED << tbl, rr, reorderSock, lastCall, game, open, closes, history >>

-----------------------------------------------------------------------------
\* hooked_closesocket: whatever socket closes, the buffer is reset.
Close(s) ==
  /\ game.pc = "idle"
  /\ s \in open
  /\ closes < MaxCloses
  /\ closes' = closes + 1
  /\ open' = open \ {s}
  /\ kernel' = [kernel EXCEPT ![s] = << >>]
  /\ tbl' = NoPeers
  /\ rr' = 0
  /\ reorderSock' = IF reorderSock = s THEN "none" ELSE reorderSock
  /\ lost' = lost
       \cup {[id |-> e.id, how |-> "reset"] : e \in UNION {tbl[i].held : i \in DOMAIN tbl}}
       \cup {[id |-> kernel[s][j].id, how |-> "closed"] :
               j \in {j \in DOMAIN kernel[s] : kernel[s][j].kind # "wake"}}
  /\ UNCHANGED << lastCall, news, game, wake, arrived, given >>

Reopen(s) ==
  /\ game.pc = "idle"
  /\ s \notin open
  /\ open' = open \cup {s}
  /\ UNCHANGED << kernel, tbl, rr, reorderSock, lastCall, news, game, wake, closes, history >>

Tick ==
  /\ tbl' = [i \in DOMAIN tbl |-> IF tbl[i].key = NoKey THEN tbl[i] ELSE Aged(tbl[i])]
  /\ lastCall' = Least(lastCall + 1, WakeIdle)
  /\ wake' = IF wake.pc = "send" THEN [wake EXCEPT !.last = Least(@ + 1, WakeIdle)] ELSE wake
  /\ UNCHANGED << kernel, rr, reorderSock, news, game, open, closes, history >>

Next ==
  \/ \E s \in Socks, k \in Froms, q \in Numbers : Arrive(s, "data", k, q)
  \/ \E s \in Socks, kind \in {"short", "big", "empty"} :
       Arrive(s, kind, CHOOSE k \in Froms : TRUE, 0)
  \/ \E s \in Socks : Poll(s)
  \/ DrainOther \/ DrainEmpty \/ DrainBypass \/ DrainData \/ DrainEnd
  \/ ReturnHeld \/ ReturnEmpty
  \/ WakeLook \/ WakeSend
  \/ \E s \in Socks : Close(s) \/ Reopen(s)
  \/ Tick

\* The game reads a socket that select calls readable and need not read one
\* that is not, a call returns, the wake thread runs, the clock advances.  The
\* network owes nothing.
PollReadable(s) == kernel[s] # << >> /\ Poll(s)

Fairness ==
  /\ \A s \in Socks : SF_vars(PollReadable(s))
  /\ WF_vars(DrainOther) /\ WF_vars(DrainEmpty) /\ WF_vars(DrainBypass)
  /\ WF_vars(DrainData) /\ WF_vars(DrainEnd) /\ WF_vars(ReturnHeld) /\ WF_vars(ReturnEmpty)
  /\ SF_vars(WakeLook) /\ WF_vars(WakeSend)
  /\ WF_vars(Tick)

Safety == Init /\ [][Next]_vars
Spec   == Safety /\ Fairness

-----------------------------------------------------------------------------
(* Properties *)

KernelIds == UNION {{kernel[s][j].id : j \in {j \in DOMAIN kernel[s] : kernel[s][j].kind # "wake"}}
                      : s \in Socks}
HeldIds  == UNION {{e.id : e \in tbl[i].held} : i \in DOMAIN tbl}
GivenIds == {given[j].id : j \in DOMAIN given}
LostIds  == {l.id : l \in lost}

\* No datagram is lost without an account of it or given to the game twice:
\* each is in the kernel, in a ring, with the game, or in the account of what
\* was destroyed, and in one of them only.  Ends is that account, complete: an
\* oversized and an empty datagram die in the drain, the rest in a ring (purged,
\* reclaimed, reset) or with the socket; overflow and repeated sequences do not
\* (defects A and E).
EachInOnePlace ==
  /\ KernelIds \cup HeldIds \cup GivenIds \cup LostIds = 1 .. arrived
  /\ Cardinality(KernelIds) + Cardinality(HeldIds) + Len(given) + Cardinality(lost) = arrived

\* What comes out of a ring is ahead of everything that came out of it before,
\* and the cursor follows it: it never walks backwards (defect B).
ReleasesInOrder ==
  [][\A i \in DOMAIN tbl :
       /\ tbl[i].init /\ tbl'[i].init /\ tbl'[i].key = tbl[i].key
       /\ tbl'[i].last # tbl[i].last
       => /\ SeqCmp(tbl'[i].last, tbl[i].last) > 0
          /\ \A e \in tbl'[i].held : SeqCmp(e.seq, tbl'[i].last) > 0]_vars

\* When a call says the socket is empty, the buffer owes the game nothing: no
\* successor is held, nothing has waited its hold out, and no source without
\* a cursor holds anything (reorder_core.h:672, "no packet is ever held
\* longer than a value we can state").
EmptyOwesNothing ==
  [][ReturnEmpty => \A i \in DOMAIN tbl : \A e \in tbl[i].held :
       /\ tbl[i].init
       /\ e.seq # SeqNext(tbl[i].last)
       /\ e.age < Least(tbl[i].win, IF MaxHold = 0 THEN tbl[i].win ELSE MaxHold)]_vars

\* The drain leaves a ring room for the datagram it takes from the kernel, so
\* the eviction that would give up the order never happens (defect A).
NothingEvicted == \A j \in DOMAIN given : given[j].kind # "evicted"

\* Every datagram the kernel accepted is given to the game or accounted for,
\* although the game reads only when its socket is readable and the kernel's
\* buffer is empty while datagrams are held: the wake thread must see to it.
EventuallySettled ==
  \A n \in 1 .. MaxArrivals : (arrived >= n) ~> (n \in GivenIds \cup LostIds)

\* "Held up to the peer's adaptive window before being released regardless"
\* (dsound_proxy.cpp:1591): what is buffered is released to the game and not
\* destroyed while its socket is open.
HeldIsReleased == \A l \in lost : l.how # "purged"

\* An empty datagram reaches the game, which would have received it without the
\* proxy.  The code's drain destroys it (dsound_proxy.cpp:1641).
EmptyIsDelivered == \A l \in lost : l.how # "empty"
=============================================================================
