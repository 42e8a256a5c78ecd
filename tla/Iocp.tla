-------------------------------- MODULE Iocp --------------------------------
(***************************************************************************)
(* The overlapped receive path of the Windows proxy: the game posts        *)
(* receives, the kernel queues their completions on the game's completion  *)
(* port, and several game threads take them through                        *)
(* Hooked_GetQueuedCompletionStatus, which may keep one back until its     *)
(* predecessor has been handed over.  Line numbers are of                  *)
(* Microslop/winmm_proxy/src/netcode_hooks.cpp.                            *)
(*                                                                         *)
(* A step is what a thread does between taking and leaving the two locks   *)
(* (IocpLock), or one return of the real call.  Time is kept as ages, let  *)
(* no further than any comparison distinguishes.                           *)
(*                                                                         *)
(* Of the reorder table only the cursor matters here: completions are not  *)
(* put in the rings, and reorder_adapt_on_arrival, called only for what is *)
(* ahead of a gap, never moves the window, so it stays what a new entry    *)
(* has (reorder_get_peer).  Contention of the table is RecvPath's subject. *)
(***************************************************************************)
EXTENDS SeqNum, Sequences, FiniteSets

CONSTANTS
  Threads,     \* game threads that wait on the port
  MaxAborted,  \* bound: receives outstanding when the socket is closed
  Froms,       \* source addresses and ports
  Numbers,     \* sequences the peers send
  Timeouts,    \* timeouts the game passes
  Infinite,    \* INFINITE
  Window,      \* win_ms of an entry: win_min_ms, or win_max_ms without adapt
  WinMax,      \* win_max_ms
  MaxHold,     \* max_hold_ms, 0 = the window only
  HoldCap,     \* kIocpHoldCap
  WatchdogX,   \* kIocpWatchdogX
  MaxArrivals, \* bound: receives that complete
  MaxCloses    \* bound: closes of the socket

ASSUME IocpAssumption ==
  /\ Numbers \subseteq Seqs
  /\ Timeouts \subseteq Nat /\ Infinite \in Nat
  /\ Window \in Nat /\ WinMax \in Nat /\ MaxHold \in Nat
  /\ HoldCap \in Nat \ {0} /\ WatchdogX \in Nat \ {0}
  /\ MaxArrivals \in Nat /\ MaxCloses \in Nat
  /\ IsFiniteSet(Threads)

VARIABLES
  port,      \* the completion port's queue
  thread,    \* the game's threads inside the hook
  held,      \* g_iocp_held
  cursor,    \* per source, seq_init and last_seq of its entry
  disabled,  \* g_iocp_disabled
  closing,   \* closesocket is between the real call and reorder_reset
  closes,    \* closes so far
  arrived,   \* receives completed so far
  handed,    \* history: the completions the game was handed
  front      \* history: per source, the furthest sequence it was handed

vars == << port, thread, held, cursor, disabled,
           closing, closes, arrived, handed, front >>

-----------------------------------------------------------------------------
Min2(a, b) == IF a < b THEN a ELSE b

\* reorder_hold_window.
Hold == IF MaxHold # 0 THEN Min2(Window, MaxHold) ELSE Window

\* The share of the caller's timeout a call may spend on holding.
Budget(to) == Min2(to, WinMax)

\* A completion: "data" is of a receive in g_iocp_recvs and carries a sequence,
\* "failed" is of one that ended in an error.  What succeeds but carries none (a
\* send, a short datagram, a receive that found no slot in g_iocp_recvs) goes the
\* way of a failed one and is not told apart.  All leave g_iocp_recvs when they
\* are classified (IocpFindRecv).
Kinds == {"data", "failed"}
Completions ==
  [n : 1 .. MaxArrivals, kind : Kinds, from : Froms, seq : Seqs]
NoCompletion == [n |-> 0]

Outside == [pc |-> "outside", timeout |-> 0, spent |-> 0, c |-> NoCompletion]
MaxSpent == WinMax * WatchdogX + 1

NoCursor == [init |-> FALSE, last |-> 0]

\* The cursor after a delivery: it only ever advances (reorder_note_delivery).
Advanced(cur, seq) ==
  IF ~cur.init \/ SeqCmp(seq, cur.last) > 0 THEN [init |-> TRUE, last |-> seq] ELSE cur

Successor(cur, seq) == cur.init /\ seq = SeqNext(cur.last)

-----------------------------------------------------------------------------
InPort    == {port[i].n : i \in DOMAIN port}
InHands   == {thread[t].c.n : t \in Threads} \ {0}
InHold    == {h.c.n : h \in held}

TypeOK ==
  /\ port \in Seq(Completions)
  /\ thread \in [Threads -> [pc : {"outside", "look", "wait", "expired", "sort", "stock"},
                             timeout : Timeouts \cup {0, Infinite}, spent : 0 .. MaxSpent,
                             c : Completions \cup {NoCompletion}]]
  /\ held \subseteq [c : Completions, age : 0 .. Hold]
  /\ Cardinality(held) <= HoldCap
  /\ cursor \in [Froms -> [init : BOOLEAN, last : Seqs]]
  /\ disabled \in BOOLEAN /\ closing \in BOOLEAN
  /\ closes \in 0 .. MaxCloses /\ arrived \in 0 .. MaxArrivals
  /\ handed \subseteq 1 .. MaxArrivals
  /\ front \in [Froms -> [init : BOOLEAN, last : Seqs]]

Init ==
  /\ port = << >>
  /\ thread = [t \in Threads |-> Outside]
  /\ held = {}
  /\ cursor = [k \in Froms |-> NoCursor]
  /\ disabled = FALSE
  /\ closing = FALSE /\ closes = 0
  /\ arrived = 0
  /\ handed = {}
  /\ front = [k \in Froms |-> NoCursor]

-----------------------------------------------------------------------------
(* The game's receives *)

\* A receive the game posted some time ago completes.  Hooked_WSARecvFrom passes an
\* overlapped call on, but remembers it first (IocpTrackRecv), so that its
\* completion, however early, finds it.
Complete(k, q) ==
  /\ arrived < MaxArrivals
  /\ arrived' = arrived + 1
  /\ port' = Append(port, [n |-> arrived + 1, kind |-> "data", from |-> k, seq |-> q])
  /\ UNCHANGED << thread, held, cursor, disabled, closing, closes, handed, front >>

-----------------------------------------------------------------------------
(* Hooked_GetQueuedCompletionStatus *)

\* A thread asks for a completion.  Once disabled the hook forwards the call.
Enter(t, to) ==
  /\ thread[t].pc = "outside"
  /\ thread' = [thread EXCEPT ![t] =
       [@ EXCEPT !.pc = IF disabled THEN "stock" ELSE "look", !.timeout = to]]
  /\ UNCHANGED << port, held, cursor, disabled, closing,
                  closes, arrived, handed, front >>

\* The call returns a completion to the game.
Return(t, c) ==
  /\ thread' = [thread EXCEPT ![t] = Outside]
  /\ handed' = handed \cup {c.n}
  /\ front' = IF c.kind = "data" /\ ~disabled THEN [front EXCEPT ![c.from] = Advanced(@, c.seq)]
                                 ELSE front

\* IocpPickReady: the successor of its source's cursor first, else the oldest
\* that has waited its hold out.
Successors == {h \in held : Successor(cursor[h.c.from], h.c.seq)}
Ready ==
  IF Successors # {} THEN Successors
  ELSE {h \in held : h.age >= Hold /\ \A g \in held : g.age <= h.age}

\* IocpPickOldest.
Oldest == {h \in held : \A g \in held : g.age <= h.age}

\* Mutant of Release: the slot is cleared, but the call reports its timeout.
ReleaseDrops(t, h) ==
  /\ held' = held \ {h}
  /\ cursor' = [cursor EXCEPT ![h.c.from] = Advanced(@, h.c.seq)]
  /\ thread' = [thread EXCEPT ![t] = Outside]
  /\ UNCHANGED << port, disabled, closing, closes, arrived, handed, front >>

\* IocpRelease: a held completion is handed over and the cursor told.
Release(t, h) ==
  /\ held' = held \ {h}
  /\ cursor' = [cursor EXCEPT ![h.c.from] = Advanced(@, h.c.seq)]
  /\ Return(t, h.c)
  /\ UNCHANGED << port, disabled, closing, closes, arrived >>

\* 1. Anything held that is ready to go out is returned at once ...
LookReady(t) ==
  /\ thread[t].pc = "look"
  /\ \E h \in Ready : Release(t, h)

\* ... the clock is read before the locks are taken, though (742): what another thread
\* keeps back in between is later than that, and now - ts wraps to a long hold.
Wrapped(t) == {h \in held : h.age = 0 /\ Threads # {t}}

LookEarly(t) ==
  /\ thread[t].pc = "look"
  /\ Ready = {}
  /\ \E h \in Wrapped(t) : Release(t, h)

Goto(t, pc) == thread' = [thread EXCEPT ![t].pc = pc]

\* ... otherwise the thread waits on the real port.
LookNone(t) ==
  /\ thread[t].pc = "look"
  /\ Ready = {}
  /\ Goto(t, "wait")
  /\ UNCHANGED << port, held, cursor, disabled, closing,
                  closes, arrived, handed, front >>

\* 2. The real call returns a completion, which is not classified yet ...
Dequeue(t) ==
  /\ thread[t].pc = "wait"
  /\ port # << >>
  /\ port' = Tail(port)
  /\ thread' = [thread EXCEPT ![t].pc = "sort", ![t].c = Head(port)]
  /\ UNCHANGED << held, cursor, disabled, closing, closes,
                  arrived, handed, front >>

\* ... or its budget is spent.
Expire(t) ==
  /\ thread[t].pc = "wait"
  /\ port = << >>
  /\ thread[t].spent >= Budget(thread[t].timeout)
  /\ Goto(t, "expired")
  /\ UNCHANGED << port, held, cursor, disabled, closing,
                  closes, arrived, handed, front >>

\* The oldest held completion rather than the timeout, whatever its window ...
ReleaseOldest(t) ==
  /\ thread[t].pc = "expired"
  /\ \E h \in Oldest : Release(t, h)

\* ... and the timeout only when nothing is held.
ReturnTimeout(t) ==
  /\ thread[t].pc = "expired"
  /\ held = {}
  /\ thread' = [thread EXCEPT ![t] = Outside]
  /\ UNCHANGED << port, held, cursor, disabled, closing,
                  closes, arrived, handed, front >>

-----------------------------------------------------------------------------
(* The classification of a completion, under both locks *)

Sorting(t) ==
  /\ thread[t].pc = "sort"
  /\ UNCHANGED << port, closing, closes, arrived >>

Ours(c) == c.kind = "data"

\* Not a receive of ours with a sequence: unchanged to the game.
SortOther(t) ==
  /\ Sorting(t)
  /\ ~Ours(thread[t].c)
  /\ Return(t, thread[t].c)
  /\ UNCHANGED << held, cursor, disabled >>

\* Mutant of SortInOrder: the cursor is not told.
SortInOrderSilent(t) ==
  LET c == thread[t].c
  IN  /\ Sorting(t)
      /\ Ours(c)
      /\ ~cursor[c.from].init \/ Successor(cursor[c.from], c.seq)
      /\ Return(t, c)
      /\ UNCHANGED << held, cursor, disabled >>

\* In order, or the first of its source: to the game, and the cursor moves.
SortInOrder(t) ==
  LET c == thread[t].c
  IN  /\ Sorting(t)
      /\ Ours(c)
      /\ ~cursor[c.from].init \/ Successor(cursor[c.from], c.seq)
      /\ cursor' = [cursor EXCEPT ![c.from] = Advanced(@, c.seq)]
      /\ Return(t, c)
      /\ UNCHANGED << held, disabled >>

\* Not ahead of the cursor: ordinary payload, and the cursor stays.
SortLate(t) ==
  LET c == thread[t].c
  IN  /\ Sorting(t)
      /\ Ours(c)
      /\ cursor[c.from].init /\ SeqCmp(c.seq, cursor[c.from].last) <= 0
      /\ Return(t, c)
      /\ UNCHANGED << held, cursor, disabled >>

AheadOfGap(c) ==
  /\ Ours(c)
  /\ cursor[c.from].init
  /\ SeqCmp(c.seq, cursor[c.from].last) > 0
  /\ ~Successor(cursor[c.from], c.seq)

\* Ahead of a gap and no slot free: to the game after all.
SortForced(t) ==
  LET c == thread[t].c
  IN  /\ Sorting(t)
      /\ AheadOfGap(c)
      /\ Cardinality(held) >= HoldCap
      /\ cursor' = [cursor EXCEPT ![c.from] = Advanced(@, c.seq)]
      /\ Return(t, c)
      /\ UNCHANGED << held, disabled >>

OutOfTime(t) == thread[t].spent > Budget(thread[t].timeout) * WatchdogX

KeepBack(t) ==
  /\ held' = held \cup {[c |-> thread[t].c, age |-> 0]}
  /\ UNCHANGED << cursor, handed, front >>

\* Mutants of SortHold, below: kept back and handed over; no look at the cursor
\* or for a slot.
SortHoldTwice(t) ==
  /\ Sorting(t)
  /\ AheadOfGap(thread[t].c)
  /\ held' = held \cup {[c |-> thread[t].c, age |-> 0]}
  /\ Return(t, thread[t].c)
  /\ UNCHANGED << cursor, disabled >>

SortHoldAll(t) ==
  /\ Sorting(t)
  /\ Ours(thread[t].c)
  /\ KeepBack(t)
  /\ thread' = [thread EXCEPT ![t].pc = "look", ![t].c = NoCompletion]
  /\ UNCHANGED disabled

\* Ahead of a gap: kept back, and the thread goes on to look again ...
SortHold(t) ==
  /\ Sorting(t)
  /\ AheadOfGap(thread[t].c)
  /\ Cardinality(held) < HoldCap
  /\ ~OutOfTime(t)
  /\ KeepBack(t)
  /\ thread' = [thread EXCEPT ![t].pc = "look", ![t].c = NoCompletion]
  /\ UNCHANGED disabled

\* ... unless the watchdog finds that it has been here too long: the hook is
\* disabled for good (IocpDisable) and the real port polled without waiting.
SortHoldTrip(t) ==
  /\ Sorting(t)
  /\ AheadOfGap(thread[t].c)
  /\ Cardinality(held) < HoldCap
  /\ OutOfTime(t)
  /\ KeepBack(t)
  /\ thread' = [thread EXCEPT ![t].pc = "stock", ![t].timeout = 0, ![t].c = NoCompletion]
  /\ disabled' = TRUE

\* The real call, forwarded.
StockDequeue(t) ==
  /\ thread[t].pc = "stock"
  /\ port # << >>
  /\ port' = Tail(port)
  /\ Return(t, Head(port))
  /\ UNCHANGED << held, cursor, disabled, closing, closes,
                  arrived >>

StockTimeout(t) ==
  /\ thread[t].pc = "stock"
  /\ port = << >>
  /\ thread[t].timeout < Infinite
  /\ thread' = [thread EXCEPT ![t] = Outside]
  /\ UNCHANGED << port, held, cursor, disabled, closing,
                  closes, arrived, handed, front >>

-----------------------------------------------------------------------------
(* Hooked_closesocket, and the clock *)

\* The real close aborts the receives that are outstanding ...
CloseReal ==
  /\ ~closing
  /\ closes < MaxCloses
  /\ closing' = TRUE
  /\ closes' = closes + 1
  /\ \E posted \in 0 .. MaxAborted, k \in Froms :
       /\ arrived + posted <= MaxArrivals
       /\ arrived' = arrived + posted
       /\ port' = port \o [i \in 1 .. posted |->
                    [n |-> arrived + i, kind |-> "failed", from |-> k, seq |-> 0]]
  /\ UNCHANGED << thread, held, cursor, disabled, handed, front >>

\* ... and reorder_reset forgets the cursors; what is held back stays held.
CloseReset ==
  /\ closing
  /\ closing' = FALSE
  /\ cursor' = [k \in Froms |-> NoCursor]
  /\ front' = [k \in Froms |-> NoCursor]
  /\ UNCHANGED << port, thread, held, disabled, closes,
                  arrived, handed >>

Timed == {"look", "wait", "expired", "sort"}

Tick ==
  /\ thread' = [t \in Threads |->
       IF thread[t].pc \in Timed
         THEN [thread[t] EXCEPT !.spent =
                 Min2(@ + 1, Budget(thread[t].timeout) * WatchdogX + 1)]
         ELSE thread[t]]
  /\ held' = {[h EXCEPT !.age = Min2(@ + 1, Hold)] : h \in held}
  /\ UNCHANGED << port, cursor, disabled, closing, closes,
                  arrived, handed, front >>

Inside(t) ==
  \/ LookReady(t) \/ LookEarly(t) \/ LookNone(t) \/ Dequeue(t) \/ Expire(t)
  \/ ReleaseOldest(t) \/ ReturnTimeout(t)
  \/ SortOther(t) \/ SortInOrder(t) \/ SortLate(t) \/ SortForced(t) \/ SortHold(t)
  \/ SortHoldTrip(t) \/ StockDequeue(t) \/ StockTimeout(t)

Next ==
  \/ \E k \in Froms, q \in Numbers : Complete(k, q)
  \/ \E t \in Threads : Inside(t) \/ \E to \in Timeouts : Enter(t, to)
  \/ CloseReal \/ CloseReset
  \/ Tick

\* The game's threads keep asking, every call goes on, the clock advances.  The
\* kernel and the peers owe nothing.
Fairness ==
  /\ \A t \in Threads : WF_vars(Inside(t) \/ \E to \in Timeouts : Enter(t, to))
  /\ WF_vars(Tick)

Safety == Init /\ [][Next]_vars
Spec   == Safety /\ Fairness

-----------------------------------------------------------------------------
(* Properties *)

\* No completion is lost or handed over twice on its way through several
\* threads and the held table: each is on the port, in a thread's hands, held
\* back or with the game, and in one of them only.
EachInOnePlace ==
  /\ InPort \cup InHands \cup InHold \cup handed = 1 .. arrived
  /\ Len(port) + Cardinality({t \in Threads : thread[t].c # NoCompletion})
       + Cardinality(held) + Cardinality(handed) = arrived

\* The cursor, by which completions are judged in or out of order, is the
\* furthest sequence the game really has, whichever thread handed it over and
\* on whichever path.  (Once disabled nothing is judged any more.)
CursorIsFrontier == ~disabled => cursor = front

\* The hook implements a completion port that is first-in first-out but for
\* what is held back or in another thread's hands: a completion overtakes at most
\* as many as the two together can be ("at most kIocpHoldCap completions are ever
\* held", line 524), close, forced release and watchdog trip included.
Port == INSTANCE CompletionPort
  WITH queued <- arrived, handed <- handed,
       Slack <- HoldCap + Cardinality(Threads) - 1

OvertakesFew == Port!Safety

\* As long as the watchdog has not tripped, every completion comes to the game,
\* the ones held back for a predecessor that never arrives included.
EventuallyHanded == []<>(disabled \/ handed = 1 .. arrived)
=============================================================================
