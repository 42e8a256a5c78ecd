------------------------------ MODULE SendPath ------------------------------
(***************************************************************************)
(* The send side of the proxy: hooked_sendto / hooked_WSASendTo and        *)
(* hooked_closesocket on the game's network thread, the pacer thread and   *)
(* the duplicate thread, over one table of socket handles.  The Linux and  *)
(* the Windows hooks are line for line the same here; line numbers are of  *)
(* Linux/proton_dsound_proxy/src/dsound_proxy.cpp.                         *)
(*                                                                         *)
(* A critical section that makes no system call is one step.  g_pace_cs is *)
(* held across sends on purpose, so it is a variable and every send under  *)
(* it is a step.  A handle is a small integer that the system reuses, so a *)
(* datagram remembers the incarnation (gen) of the handle it was sent on.  *)
(*                                                                         *)
(* Only datagrams long enough to carry a sequence number are numbered and  *)
(* logged; shorter ones are number 0 and pass straight through.            *)
(***************************************************************************)
EXTENDS SendPace, FiniteSets

CONSTANTS
  Handles,        \* socket handle values
  Lens,           \* datagram lengths the game uses
  Routes,         \* "plain": a call the pacer may own; "direct": flags or overlapped
  SendDup,        \* g_send_dup: duplicate every sequenced datagram
  DupDelay,       \* g_dup_delay_ms
  DupSlots,       \* kDupQueueSlots
  DupMaxPps,      \* g_dup_max_pps, 0 = no cap
  ConcurrentOpen, \* other code of the process may open a socket at any time
  MaxSends,       \* bound: sequenced datagrams the game sends
  MaxGen,         \* bound: incarnations of a handle
  SendUntil,      \* bound: the game sends no later than this
  MaxTime         \* bound: the clock stops here

ASSUME SendPathAssumption ==
  /\ Handles # {}
  /\ Lens \subseteq Nat \ {0}
  /\ Routes \subseteq {"plain", "direct"}
  /\ SendDup \in BOOLEAN
  /\ DupDelay \in Nat
  /\ DupSlots \in Nat
  /\ DupMaxPps \in Nat
  /\ ConcurrentOpen \in BOOLEAN
  /\ MaxSends \in Nat /\ MaxGen \in Nat \ {0}
  /\ SendUntil \in Nat /\ MaxTime \in Nat
  /\ SendUntil + MaxDelay <= MaxTime

VARIABLES
  now,        \* GetTickCount64
  bucket,     \* g_tx.tokens and g_tx.last_fill_ms
  queue,      \* g_tx.q, oldest first
  paceCs,     \* who holds g_pace_cs: "free", "game" or "pacer"
  dupQ,       \* g_dup_q: the ring's order is the order of the numbers
  dupBucket,  \* g_dup_bucket_start_ms and g_dup_bucket_sent
  game,       \* the game's network thread inside a hook
  pacer,      \* send_pace_thread
  dupper,     \* dup_pacer_thread and its local copy of an entry
  sock,       \* per handle: its owner and incarnation
  sends,      \* sequenced datagrams handed to the hooks so far
  wire,       \* history: originals given to the real send, in order
  copies      \* history: duplicates given to the real send

netVars  == << wire, copies >>
dupVars  == << dupQ, dupBucket, dupper >>
paceVars == << bucket, queue, paceCs, pacer >>
vars == << now, bucket, queue, paceCs, dupQ, dupBucket, game, pacer, dupper,
           sock, sends, wire, copies >>

-----------------------------------------------------------------------------
(* Types *)

GamePcs   == {"idle", "take", "flush", "send", "dup",
              "closed", "closeWait", "closeFlush"}
Datagram  == [id : Nat, sock : Handles, gen : Nat, due : Nat]
Outcome   == {"own", "closed", "foreign"}

TypeOK ==
  /\ now \in Nat
  /\ bucket \in [tokens : Int, last : Nat]
  /\ queue \in Seq(Datagram)
  /\ paceCs \in {"free", "game", "pacer"}
  /\ dupQ \subseteq Datagram
  /\ dupBucket \in [start : Nat, sent : Nat]
  /\ game \in [pc : GamePcs, id : Nat, len : Nat, sock : Handles, t : Nat]
  /\ pacer \in [pc : {"sleep", "wait", "drain"}, t : Nat]
  /\ dupper \in [pc : {"idle", "send"}, e : Datagram]
  /\ sock \in [Handles -> [owner : {"game", "none", "other"}, gen : Nat]]
  /\ sends \in Nat
  /\ wire \in Seq([id : Nat, on : Outcome])
  /\ copies \subseteq [id : Nat, on : Outcome]

-----------------------------------------------------------------------------
(* What becomes of a datagram given to the real send: it leaves on its own *)
(* socket, fails on a closed handle, or leaves on somebody else's socket.  *)
Fate(e) ==
  IF sock[e.sock].owner = "none" THEN "closed"
  ELSE IF sock[e.sock].gen = e.gen THEN "own" ELSE "foreign"

\* The datagram in the game thread's hands, as it would be queued.
InHand(due) ==
  [id |-> game.id, sock |-> game.sock, gen |-> sock[game.sock].gen, due |-> due]

\* The game thread outside every hook; the locals of a hook are gone.
Outside(h) == [pc |-> "idle", id |-> 0, len |-> 0, sock |-> h, t |-> 0]

\* The real send of an original.
Transmit(e) ==
  wire' = IF e.id = 0 THEN wire ELSE Append(wire, [id |-> e.id, on |-> Fate(e)])

-----------------------------------------------------------------------------
Init ==
  /\ now = 0
  /\ bucket = PaceInit(0)
  /\ queue = << >>
  /\ paceCs = "free"
  /\ dupQ = {}
  /\ dupBucket = [start |-> 0, sent |-> 0]
  /\ sock = [h \in Handles |-> [owner |-> "game", gen |-> 1]]
  /\ \E h \in Handles :
       /\ game = Outside(h)
       /\ dupper = [pc |-> "idle", e |-> [id |-> 0, sock |-> h, gen |-> 0, due |-> 0]]
  /\ pacer = [pc |-> "sleep", t |-> 0]
  /\ sends = 0
  /\ wire = << >>
  /\ copies = {}

-----------------------------------------------------------------------------
(* The game's network thread: sending *)

\* Entry of a send hook.  pace_take refuses what it cannot store, and the
\* hooks do not offer it calls with flags or an OVERLAPPED; the others read
\* the clock here, before g_pace_cs is taken.
Call(h, len, route) ==
  LET numbered == len >= SeqMinPay
  IN  /\ game.pc = "idle"
      /\ sock[h].owner = "game"
      /\ now <= SendUntil
      /\ numbered => sends < MaxSends
      /\ sends' = IF numbered THEN sends + 1 ELSE sends
      /\ game' = [pc   |-> IF route = "plain" /\ len <= MaxPktBytes
                             THEN "take" ELSE "send",
                  id   |-> IF numbered THEN sends + 1 ELSE 0,
                  len  |-> len, sock |-> h, t |-> now]
      /\ UNCHANGED << now, paceVars, dupVars, sock, netVars >>

\* Mutant of Take: a datagram the pacer took goes on to the duplicate.
TakeDuplicates ==
  LET a == PaceAdmit(bucket, Len(queue), game.len, game.t)
  IN  /\ game.pc = "take"
      /\ paceCs = "free"
      /\ bucket' = a.bucket
      /\ queue' = IF a.what = "Queued" THEN Append(queue, InHand(a.due)) ELSE queue
      /\ paceCs' = IF a.what = "FlushThenSend" THEN "game" ELSE "free"
      /\ game' = [game EXCEPT !.pc = CASE a.what = "Queued" -> "dup"
                                       [] a.what = "SendNow" -> "send"
                                       [] OTHER -> "flush"]
      /\ UNCHANGED << now, pacer, dupVars, sock, sends, netVars >>

\* pace_take under g_pace_cs.  A queued datagram is reported as sent and is
\* never duplicated; a flush keeps the lock for the sends that follow.
Take ==
  LET a == PaceAdmit(bucket, Len(queue), game.len, game.t)
  IN  /\ game.pc = "take"
      /\ paceCs = "free"
      /\ bucket' = a.bucket
      /\ \/ /\ a.what = "Queued"
            /\ queue' = Append(queue, InHand(a.due))
            /\ game' = Outside(game.sock)
            /\ UNCHANGED paceCs
         \/ /\ a.what = "SendNow"
            /\ game' = [game EXCEPT !.pc = "send"]
            /\ UNCHANGED << queue, paceCs >>
         \/ /\ a.what = "FlushThenSend"
            /\ game' = [game EXCEPT !.pc = "flush"]
            /\ paceCs' = "game"
            /\ UNCHANGED queue
      /\ UNCHANGED << now, pacer, dupVars, sock, sends, netVars >>

\* One turn of pace_flush_locked: pop the head whatever its due time.
FlushOne ==
  /\ game.pc \in {"flush", "closeFlush"}
  /\ queue # << >>
  /\ Transmit(Head(queue))
  /\ queue' = Tail(queue)
  /\ UNCHANGED << now, bucket, paceCs, pacer, dupVars, game, sock, sends, copies >>

\* Mutant of FlushDone: the hook returns without the send it flushed for.
FlushDoneReturns ==
  /\ game.pc = "flush"
  /\ queue = << >>
  /\ paceCs' = "free"
  /\ game' = Outside(game.sock)
  /\ UNCHANGED << now, bucket, queue, pacer, dupVars, sock, sends, netVars >>

\* The flush of pace_take is over: leave g_pace_cs, then send.
FlushDone ==
  /\ game.pc = "flush"
  /\ queue = << >>
  /\ paceCs' = "free"
  /\ game' = [game EXCEPT !.pc = "send"]
  /\ UNCHANGED << now, bucket, queue, pacer, dupVars, sock, sends, netVars >>

\* The real send on the caller's thread, after the lock was released.
Send ==
  /\ game.pc = "send"
  /\ Transmit(InHand(0))
  /\ game' = IF SendDup /\ game.len >= SeqMinPay
               THEN [game EXCEPT !.pc = "dup"] ELSE Outside(game.sock)
  /\ UNCHANGED << now, paceVars, dupVars, sock, sends, copies >>

-----------------------------------------------------------------------------
(* The duplicate of a datagram that has just left *)

\* The one-second budget of dup_enqueue, restarted when a second is over.
DupBudget ==
  IF now - dupBucket.start >= Second THEN [start |-> now, sent |-> 0] ELSE dupBucket

\* dup_enqueue: the duplicate is given up when over budget or out of slots.
DupEnqueue ==
  LET full == \/ DupMaxPps # 0 /\ DupBudget.sent >= DupMaxPps
              \/ Cardinality(dupQ) >= DupSlots
  IN  IF game.len > MaxPktBytes THEN UNCHANGED << dupQ, dupBucket >>
      ELSE IF full THEN dupBucket' = DupBudget /\ UNCHANGED dupQ
      ELSE /\ dupBucket' = [start |-> DupBudget.start, sent |-> DupBudget.sent + 1]
           /\ dupQ' = dupQ \cup {InHand(now + DupDelay)}

\* The tail of a send hook when the original was not taken by the pacer.
Duplicate ==
  /\ game.pc = "dup"
  /\ game' = Outside(game.sock)
  /\ \/ /\ DupDelay = 0
        /\ copies' = copies \cup {[id |-> game.id, on |-> Fate(InHand(0))]}
        /\ UNCHANGED << dupQ, dupBucket >>
     \/ /\ DupDelay > 0
        /\ DupEnqueue
        /\ UNCHANGED copies
  /\ UNCHANGED << now, paceVars, dupper, sock, sends, wire >>

\* dup_pacer_thread takes the oldest entry, if due, to a local copy under
\* g_dup_cs ...
DupPop ==
  /\ dupper.pc = "idle"
  /\ \E e \in dupQ :
       /\ \A f \in dupQ : e.id <= f.id
       /\ e.due <= now
       /\ dupQ' = dupQ \ {e}
       /\ dupper' = [pc |-> "send", e |-> e]
  /\ UNCHANGED << now, paceVars, dupBucket, game, sock, sends, netVars >>

\* ... and sends it after leaving the lock.
DupSend ==
  /\ dupper.pc = "send"
  /\ copies' = copies \cup {[id |-> dupper.e.id, on |-> Fate(dupper.e)]}
  /\ dupper' = [dupper EXCEPT !.pc = "idle"]
  /\ UNCHANGED << now, paceVars, dupQ, dupBucket, game, sock, sends, wire >>

-----------------------------------------------------------------------------
(* send_pace_thread *)

\* Sleep is over: read the clock, then wait for the lock.
PacerWake ==
  /\ pacer.pc = "sleep"
  /\ pacer' = [pc |-> "wait", t |-> now]
  /\ UNCHANGED << now, bucket, queue, paceCs, dupVars, game, sock, sends, netVars >>

PacerLock ==
  /\ pacer.pc = "wait"
  /\ paceCs = "free"
  /\ paceCs' = "pacer"
  /\ pacer' = [pacer EXCEPT !.pc = "drain"]
  /\ UNCHANGED << now, bucket, queue, dupVars, game, sock, sends, netVars >>

\* pace_pop_due and the send that follows it, under the lock.
PacerSend ==
  /\ pacer.pc = "drain"
  /\ HeadDue(queue, pacer.t)
  /\ Transmit(Head(queue))
  /\ queue' = Tail(queue)
  /\ UNCHANGED << now, bucket, paceCs, pacer, dupVars, game, sock, sends, copies >>

PacerDone ==
  /\ pacer.pc = "drain"
  /\ ~HeadDue(queue, pacer.t)
  /\ paceCs' = "free"
  /\ pacer' = [pc |-> "sleep", t |-> 0]
  /\ UNCHANGED << now, bucket, queue, dupVars, game, sock, sends, netVars >>

-----------------------------------------------------------------------------
(* The game's network thread: closing and opening sockets *)

\* hooked_closesocket closes the real handle before anything else: from
\* here on the system may give the value to a new socket.
Close(h) ==
  /\ game.pc = "idle"
  /\ sock[h].owner = "game"
  /\ sock' = [sock EXCEPT ![h].owner = "none"]
  /\ game' = [Outside(h) EXCEPT !.pc = "closed"]
  /\ UNCHANGED << now, paceVars, dupVars, sends, netVars >>

\* Mutant of ClosePurgeDups: the duplicates of the handle are kept.
CloseKeepsDups ==
  /\ game.pc = "closed"
  /\ game' = [game EXCEPT !.pc = "closeWait"]
  /\ UNCHANGED << now, paceVars, dupVars, sock, sends, netVars >>

\* dup_purge_socket.
ClosePurgeDups ==
  /\ game.pc = "closed"
  /\ dupQ' = {e \in dupQ : e.sock # game.sock}
  /\ game' = [game EXCEPT !.pc = "closeWait"]
  /\ UNCHANGED << now, paceVars, dupBucket, dupper, sock, sends, netVars >>

CloseLock ==
  /\ game.pc = "closeWait"
  /\ paceCs = "free"
  /\ paceCs' = "game"
  /\ game' = [game EXCEPT !.pc = "closeFlush"]
  /\ UNCHANGED << now, bucket, queue, pacer, dupVars, sock, sends, netVars >>

\* Mutant of CloseDone: purge without the flush.
CloseDoneNoFlush ==
  /\ game.pc = "closeFlush"
  /\ queue' = PurgeSocket(queue, game.sock)
  /\ paceCs' = "free"
  /\ game' = Outside(game.sock)
  /\ UNCHANGED << now, bucket, pacer, dupVars, sock, sends, netVars >>

\* The flush is over: purge what is queued for the handle and return.
CloseDone ==
  /\ game.pc = "closeFlush"
  /\ queue = << >>
  /\ queue' = PurgeSocket(queue, game.sock)
  /\ paceCs' = "free"
  /\ game' = Outside(game.sock)
  /\ UNCHANGED << now, bucket, pacer, dupVars, sock, sends, netVars >>

\* A free handle value goes to a new socket: of the game, which is not in a
\* hook then, or of any other code of the process.
Open(h, who) ==
  /\ sock[h].owner = "none"
  /\ sock[h].gen < MaxGen
  /\ IF who = "game" THEN game.pc = "idle" ELSE ConcurrentOpen
  /\ sock' = [sock EXCEPT ![h] = [owner |-> who, gen |-> @.gen + 1]]
  /\ UNCHANGED << now, paceVars, dupVars, game, sends, netVars >>

Tick ==
  /\ now < MaxTime
  /\ now' = now + 1
  /\ UNCHANGED << paceVars, dupVars, game, sock, sends, netVars >>

-----------------------------------------------------------------------------
Next ==
  \/ \E h \in Handles, len \in Lens, route \in Routes : Call(h, len, route)
  \/ Take \/ FlushOne \/ FlushDone \/ Send \/ Duplicate
  \/ DupPop \/ DupSend
  \/ PacerWake \/ PacerLock \/ PacerSend \/ PacerDone
  \/ \E h \in Handles : Close(h)
  \/ ClosePurgeDups \/ CloseLock \/ CloseDone
  \/ \E h \in Handles, who \in {"game", "other"} : Open(h, who)
  \/ Tick

\* A hook that was entered returns, the two threads are scheduled and the
\* clock runs; the game owes nobody a call.  g_pace_cs goes round: the pacer
\* sleeps kPaceTickMs between two acquisitions and the game thread returns to
\* the game between two hooks, so neither keeps the other out for ever.
Fairness ==
  /\ SF_vars(Take) /\ SF_vars(CloseLock) /\ SF_vars(PacerLock)
  /\ WF_vars(FlushOne) /\ WF_vars(FlushDone) /\ WF_vars(CloseDone)
  /\ WF_vars(Send) /\ WF_vars(Duplicate) /\ WF_vars(ClosePurgeDups)
  /\ WF_vars(PacerWake) /\ WF_vars(PacerSend) /\ WF_vars(PacerDone)
  /\ WF_vars(DupPop) /\ WF_vars(DupSend)
  /\ WF_vars(Tick)

Safety == Init /\ [][Next]_vars
Spec   == Safety /\ Fairness

-----------------------------------------------------------------------------
(* Properties *)

\* The send hooks implement the ordered wire: the originals of the sequenced
\* datagrams reach the real send in the order of the game's calls, each once,
\* whatever the pacer delays, flushes or lets pass ("once anything is queued,
\* everything sequenced queues behind it", send_pace.h:180).  It needs every
\* call to be one the pacer may own.
PlainOnly == Routes = {"plain"} /\ \A len \in Lens : len <= MaxPktBytes
OW == INSTANCE OrderedWire WITH
        accepted  <- sends,
        delivered <- [i \in DOMAIN wire |-> wire[i].id]
InOrderOnce == OW!Safety

\* "Nothing is ever dropped" (send_pace.h:25): every sequenced datagram the
\* game handed over was given to the real send, waits in the queue, or is in
\* the hands of the game thread, through every flush, close and purge.
GameHolds == game.id # 0 /\ game.pc \in {"take", "flush", "send"}
NothingDropped ==
  sends = Len(wire) + Len(queue) + (IF GameHolds THEN 1 ELSE 0)

\* The queue is sorted by due time although each due time is computed from a
\* rounded, capped bucket that is reset on the way, so looking at the head
\* only (pace_pop_due) never holds a due datagram behind one that is not.
DueSorted ==
  \A i, j \in DOMAIN queue : i < j => queue[i].due <= queue[j].due

\* When the pacer thread goes back to sleep, nothing that was due when it woke
\* is left in the queue: no datagram misses its turn.
DrainLeavesNothingDue ==
  [][PacerDone => \A i \in DOMAIN queue : queue[i].due > pacer.t]_vars

\* Every sequenced datagram handed over reaches the real send, although its
\* release depends on the pacer thread getting the lock after its due time.
EventuallyOnWire ==
  \A n \in 1 .. MaxSends : (sends >= n) ~> (Len(wire) >= n)

\* A duplicate never reaches the wire before its original: "a copy sent now
\* would arrive first and be seen as a reorder" (dsound_proxy.cpp:1883).
DupAfterOriginal ==
  \A c \in copies : \E i \in DOMAIN wire : wire[i].id = c.id

\* Once a close has returned, neither queue holds a datagram of the closed
\* incarnation (dup_purge_socket, pace_purge_socket).
ClosedSocketForgotten ==
  game.pc \notin {"closed", "closeWait", "closeFlush"} =>
    \A e \in dupQ \cup {queue[i] : i \in DOMAIN queue} : Fate(e) = "own"

\* "Do not strand the game's tail" (dsound_proxy.cpp:1165), and "a stale
\* datagram on a fresh socket would corrupt its state" (send_pace.h:264): every
\* original leaves on the socket the game sent it on.
TailLeavesOnItsSocket ==
  \A i \in DOMAIN wire : wire[i].on = "own"

\* "The handle may be reused, and a stale duplicate on a fresh socket would
\* corrupt state" (dsound_proxy.cpp:439): a duplicate never does.
NoDuplicateOnReusedHandle ==
  \A c \in copies : c.on # "foreign"

-----------------------------------------------------------------------------
(* Inductive invariants behind the first three properties *)

\* g_pace_cs is held by whoever is in a loop of sends.
Locking ==
  /\ game.pc \in {"flush", "closeFlush"} <=> paceCs = "game"
  /\ pacer.pc = "drain" <=> paceCs = "pacer"

\* The numbers of the wire, the queue and the game thread follow each other
\* without a gap, and nothing sequenced is sent past a queue.
Order ==
  /\ \A i \in DOMAIN wire : wire[i].id = i
  /\ \A i \in DOMAIN queue : queue[i].id = Len(wire) + i
  /\ NothingDropped
  /\ GameHolds => game.id = sends
  /\ GameHolds /\ game.pc = "send" => queue = << >>
  /\ game.pc = "take" => (game.id = 0 <=> game.len < SeqMinPay)
  /\ game.pc = "flush" => GameHolds

\* What is queued is due by the time the bucket's debt is worked off.
DueWithinDebt ==
  \A i \in DOMAIN queue : queue[i].due <= bucket.last + Debt(bucket.tokens)

Timing ==
  /\ bucket.last <= now
  /\ bucket.tokens <= Burst
  /\ game.pc = "take" => bucket.last <= game.t /\ game.t <= now
  /\ DueSorted
  /\ game.pc # "flush" => DueWithinDebt
=============================================================================
