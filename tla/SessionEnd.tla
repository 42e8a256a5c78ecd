------------------------------ MODULE SessionEnd ------------------------------
(***************************************************************************)
(* What a session leaves behind: the "session end:" counter lines and the  *)
(* capture ring with its socket ids, from the hooks of the game's threads, *)
(* through hooked_closesocket, to DLL_PROCESS_DETACH.  Both proxies        *)
(* (dsound_proxy.cpp, netcode_hooks.cpp); where they differ, proxy says    *)
(* which one it is.                                                        *)
(*                                                                         *)
(* A socket is known by its number, in the order of opening, which no code *)
(* sees; the code sees its handle, which the kernel gives out again after  *)
(* a close.                                                                *)
(***************************************************************************)
EXTENDS Integers, Sequences, FiniteSets, SequencesExt

CONSTANTS
  Threads,     \* threads of the game
  Handles,     \* values of SOCKET
  Peers,       \* addresses datagrams come from
  Invalid,     \* a token of BZ_BUFFER_LOG_PEER that is no address
  Spec_,       \* BZ_BUFFER_LOG_PEER: its tokens
  FilterCap,   \* kPeerFilterCap
  TrackCap,    \* kSocketTrackCap
  RingRecords, \* g_buffer_ring_records
  RttOn,       \* g_rtt.enabled
  Proxies,     \* which of "winmm" and "dsound" are looked at
  MaxSockets,  \* bounds: sockets opened,
  MaxEvents,   \* events recorded,
  MaxSends,    \* datagrams of the game sent, and received,
  MaxOrphans   \* and locks orphaned at exit

ASSUME SessionAssumption ==
  /\ Invalid \notin Peers
  /\ Spec_ \in Seq(Peers \cup {Invalid})
  /\ FilterCap \in Nat \ {0} /\ TrackCap \in Nat \ {0} /\ RingRecords \in Nat \ {0}
  /\ RttOn \in BOOLEAN
  /\ Proxies \subseteq {"winmm", "dsound"}
  /\ MaxSockets \in Nat /\ MaxEvents \in Nat /\ MaxSends \in Nat
  /\ MaxOrphans \in Nat

VARIABLES
  proxy,    \* which proxy this process has
  socket,   \* the kernel: per handle the number of its socket, 0 for none
  opened,   \* sockets opened so far
  track,    \* g_socket_tracks: the ids of the handles in it
  nextId,   \* g_next_socket_id
  raced,    \* history: ids a race gave to two sockets, see SidNamesOneSocket
  op,       \* what each thread is doing
  ring,     \* g_buffer_ring: per slot the record, Blank before the first
  head,     \* g_buffer_head
  held,     \* g_buffer_count
  hist,     \* history: the records made, total events = its length
  count,    \* per line, what it would report (only ever grows)
  last,     \* g_last_pace_line, g_last_dampen_line
  flag,     \* g_X_stats_logged
  written,  \* per line, what the log last said, Unsaid before
  p2p,      \* g_reorder_sock, a handle or 0
  phase,    \* "running", then "flush" and "done", or "stuck" for ever
  orphaned, \* locks whose owner was terminated at exit
  clean,    \* history: the exit found nothing left to report
  file,     \* the capture file
  wrapped   \* wrapped= of its meta file

vars == << proxy, socket, opened, track, nextId, raced, op, ring, head, held, hist, count,
           last, flag, written, p2p, phase, orphaned, clean, file, wrapped >>
kernel == << socket, opened >>
ids == << track, nextId, raced >>
capture == << ring, head, held, hist >>
stats == << count, last, flag, written, p2p >>
exiting == << phase, orphaned, clean, file, wrapped >>

Lines == {"reorder", "send", "dampen", "rtt"}
Locks == {"reorder", "pace", "rtt", "buffer", "log"}
LockOf(l) == IF l \in {"send", "dampen"} THEN "pace" ELSE l
Unsaid == -1
Blank == [seq |-> -1, n |-> 0, sid |-> 0]

Idle == [at |-> "idle"]

Records == [seq : Nat \cup {-1}, n : Nat, sid : Nat]

\* What a thread may be doing; a close goes on after its lines are said.
Nexts == {Idle} \cup [at : {"pace"}, h : Handles]
Ops ==
  {Idle}
  \cup [at : {"name"}, h : Handles, n : Nat \ {0}]
  \cup [at : {"lookup", "record"}, h : Handles, n : Nat \ {0}, sid : Nat]
  \cup [at : {"forget", "reorder", "pace"}, h : Handles]
  \cup [at : {"say"}, h : Handles, lines : Seq(Lines \X Nat) \ {<< >>}, next : Nexts]

TypeOK ==
  /\ proxy \in {"winmm", "dsound"}
  /\ socket \in [Handles -> Nat] /\ opened \in Nat
  /\ track \in [DOMAIN track -> 1 .. nextId - 1] /\ DOMAIN track \subseteq Handles
  /\ Cardinality(DOMAIN track) <= TrackCap
  /\ nextId \in Nat \ {0} /\ raced \subseteq Nat
  /\ op \in [Threads -> Ops]
  /\ ring \in [0 .. RingRecords - 1 -> Records] /\ hist \in Seq(Records)
  /\ head \in 0 .. RingRecords - 1 /\ held \in 0 .. RingRecords
  /\ count \in [Lines -> Nat] /\ flag \in [Lines -> BOOLEAN]
  /\ last \in [Lines -> Nat \cup {Unsaid}] /\ written \in [Lines -> Nat \cup {Unsaid}]
  /\ p2p \in Handles \cup {0}
  /\ phase \in {"running", "flush", "done", "stuck"} /\ orphaned \subseteq Locks
  /\ clean \in BOOLEAN
  /\ file \in Seq(Records) /\ wrapped \in BOOLEAN

Init ==
  /\ proxy \in Proxies
  /\ socket = [h \in Handles |-> 0] /\ opened = 0
  /\ track = << >> /\ nextId = 1 /\ raced = {}
  /\ op = [t \in Threads |-> Idle]
  /\ ring = [i \in 0 .. RingRecords - 1 |-> Blank] /\ head = 0 /\ held = 0 /\ hist = << >>
  /\ count = [l \in Lines |-> 0]
  /\ last = [l \in Lines |-> Unsaid]
  /\ flag = [l \in Lines |-> FALSE]
  /\ written = [l \in Lines |-> Unsaid]
  /\ p2p = 0
  /\ phase = "running" /\ orphaned = {} /\ clean = FALSE /\ file = << >> /\ wrapped = FALSE

-----------------------------------------------------------------------------
(* The peer filter and the socket ids *)

\* peer_filter_parse: the first FilterCap addresses of the list.
Filter ==
  LET valid == SelectSeq(Spec_, LAMBDA a : a # Invalid)
  IN  ToSet(SubSeq(valid, 1, IF Len(valid) < FilterCap THEN Len(valid) ELSE FilterCap))

\* No list, or no address in it, and everything is recorded; so are events without
\* a peer, address 0.
Accepts(peer) == Filter = {} \/ peer = 0 \/ peer \in Filter

\* get_socket_id(h, create): what the table then holds ...
Tracked(h) ==
  IF h \in DOMAIN track \/ Cardinality(DOMAIN track) >= TrackCap THEN track
  ELSE [g \in DOMAIN track \cup {h} |-> IF g = h THEN nextId ELSE track[g]]

\* ... and the id, 0 for the code's -1 when there is no room.
IdOf(h) == IF h \in DOMAIN Tracked(h) THEN Tracked(h)[h] ELSE 0

\* A look-up by a call that was made on socket n and finds another one, or none,
\* under the handle leaves an id behind that may name two.
GetSocketId(h, n) ==
  /\ track' = Tracked(h)
  /\ nextId' = IF Tracked(h) = track THEN nextId ELSE nextId + 1
  /\ raced' = IF socket[h] = n THEN raced ELSE raced \cup {IdOf(h)}

-----------------------------------------------------------------------------
(* Sockets open, datagrams go and come *)

Running == phase = "running"

\* hooked_socket, hooked_WSASocketW: Linux names the new socket.  The kernel is free
\* to give out a handle that is still being forgotten.
Open(t, h) ==
  /\ Running /\ op[t] = Idle
  /\ socket[h] = 0 /\ opened < MaxSockets
  /\ socket' = [socket EXCEPT ![h] = opened + 1]
  /\ opened' = opened + 1
  /\ raced' = IF h \in DOMAIN track /\ \E u \in Threads : op[u].at = "forget" /\ op[u].h = h
                THEN raced \cup {track[h]} ELSE raced
  /\ op' = [op EXCEPT ![t] =
       IF proxy = "dsound" THEN [at |-> "name", h |-> h, n |-> opened + 1] ELSE Idle]
  /\ UNCHANGED << proxy, track, nextId, capture, stats, exiting >>

Name(t) ==
  /\ Running /\ op[t].at = "name"
  /\ GetSocketId(op[t].h, op[t].n)
  /\ op' = [op EXCEPT ![t] = Idle]
  /\ UNCHANGED << proxy, kernel, capture, stats, exiting >>

\* A datagram leaves: the pacer, the damper and the sampler count it.
Send(h) ==
  /\ Running /\ socket[h] # 0 /\ count["send"] < MaxSends
  /\ count' = [l \in Lines |-> IF l = "reorder" THEN count[l] ELSE count[l] + 1]
  /\ UNCHANGED << proxy, kernel, ids, op, capture, last, flag, written, p2p, exiting >>

\* A receive call is over, with a datagram of the game (seq: the reorder buffer counts
\* it and keeps the socket in mind) or anything else; an event is logged next.
Receive(t, h, peer, seq) ==
  /\ Running /\ op[t] = Idle
  /\ socket[h] # 0 /\ Len(hist) < MaxEvents
  /\ seq => peer # 0 /\ count["reorder"] < MaxSends
  /\ count' = [count EXCEPT !["reorder"] = @ + IF seq THEN 1 ELSE 0]
  /\ p2p' = IF seq THEN h ELSE p2p
  /\ op' = [op EXCEPT ![t] = IF Accepts(peer)
                               THEN [at |-> IF proxy = "dsound" THEN "lookup" ELSE "record",
                                     h |-> h, n |-> socket[h], sid |-> 0]
                               ELSE Idle]
  /\ UNCHANGED << proxy, kernel, ids, capture, last, flag, written, exiting >>

\* buffer_log_event: Linux looks the id up before it takes g_buffer_lock ...
LookUp(t) ==
  /\ Running /\ op[t].at = "lookup"
  /\ GetSocketId(op[t].h, op[t].n)
  /\ op' = [op EXCEPT ![t] = [@ EXCEPT !.at = "record", !.sid = IdOf(op[t].h)]]
  /\ UNCHANGED << proxy, kernel, capture, stats, exiting >>

\* ... and Windows under it; then the record goes over the oldest one.
Record(t) ==
  /\ Running /\ op[t].at = "record" /\ Len(hist) < MaxEvents
  /\ IF proxy = "dsound" THEN UNCHANGED ids ELSE GetSocketId(op[t].h, op[t].n)
  /\ LET rec == [seq |-> Len(hist), n |-> op[t].n,
                 sid |-> IF proxy = "dsound" THEN op[t].sid ELSE IdOf(op[t].h)]
     IN  /\ ring' = [ring EXCEPT ![head] = rec]
         /\ hist' = Append(hist, rec)
  /\ head' = (head + 1) % RingRecords
  /\ held' = IF held < RingRecords THEN held + 1 ELSE held
  /\ op' = [op EXCEPT ![t] = Idle]
  /\ UNCHANGED << proxy, kernel, stats, exiting >>

-----------------------------------------------------------------------------
(* hooked_closesocket, lock by lock *)

CloseReal(t, h) ==
  /\ Running /\ op[t] = Idle
  /\ socket[h] # 0
  /\ socket' = [socket EXCEPT ![h] = 0]
  /\ op' = [op EXCEPT ![t] = [at |-> "forget", h |-> h]]
  /\ UNCHANGED << proxy, opened, ids, capture, stats, exiting >>

\* Mutant of Forget: the id stays.
ForgetNothing(t) ==
  /\ Running /\ op[t].at = "forget"
  /\ op' = [op EXCEPT ![t] = [@ EXCEPT !.at = "reorder"]]
  /\ UNCHANGED << proxy, kernel, ids, capture, stats, exiting >>

\* forget_socket_id.
Forget(t) ==
  /\ Running /\ op[t].at = "forget"
  /\ track' = [g \in DOMAIN track \ {op[t].h} |-> track[g]]
  /\ op' = [op EXCEPT ![t] = [@ EXCEPT !.at = "reorder"]]
  /\ UNCHANGED << proxy, kernel, nextId, raced, capture, stats, exiting >>

\* Lines formatted under a lock are said after it; then comes next.
Saying(h, lines, next) ==
  IF lines = << >> THEN next ELSE [at |-> "say", h |-> h, lines |-> lines, next |-> next]

\* g_reorder_cs: the counters of the tracked socket, which is forgotten.
CloseReorder(t) ==
  /\ Running /\ op[t].at = "reorder"
  /\ op' = [op EXCEPT ![t] =
       Saying(@.h, IF @.h = p2p THEN << << "reorder", count["reorder"] >> >> ELSE << >>,
              [at |-> "pace", h |-> @.h])]
  /\ p2p' = IF op[t].h = p2p THEN 0 ELSE p2p
  /\ UNCHANGED << proxy, kernel, ids, capture, count, last, flag, written, exiting >>

Unrepeated(l) == IF count[l] # last[l] THEN << << l, count[l] >> >> ELSE << >>

\* Mutant of ClosePace: the lines count as logged once they are formatted.
ClosePaceLogged(t) ==
  /\ Running /\ op[t].at = "pace"
  /\ op' = [op EXCEPT ![t] = Saying(@.h, Unrepeated("send") \o Unrepeated("dampen"), Idle)]
  /\ last' = [l \in Lines |-> IF l \in {"send", "dampen"} THEN count[l] ELSE last[l]]
  /\ flag' = [l \in Lines |-> l \in {"send", "dampen"} \/ flag[l]]
  /\ UNCHANGED << proxy, kernel, ids, capture, count, written, p2p, exiting >>

\* g_pace_cs: the counters of the pacer and the damper, whichever socket it is, unless
\* they are what the log already says.
ClosePace(t) ==
  /\ Running /\ op[t].at = "pace"
  /\ op' = [op EXCEPT ![t] = Saying(@.h, Unrepeated("send") \o Unrepeated("dampen"), Idle)]
  /\ last' = [l \in Lines |-> IF l \in {"send", "dampen"} THEN count[l] ELSE last[l]]
  /\ UNCHANGED << proxy, kernel, ids, capture, count, flag, written, p2p, exiting >>

\* One line goes to the log, and its flag goes up.
Say(t) ==
  /\ Running /\ op[t].at = "say"
  /\ LET line == Head(op[t].lines)
     IN  /\ written' = [written EXCEPT ![line[1]] = line[2]]
         /\ flag' = [flag EXCEPT ![line[1]] = TRUE]
  /\ op' = [op EXCEPT ![t] = Saying(@.h, Tail(@.lines), @.next)]
  /\ UNCHANGED << proxy, kernel, ids, capture, count, last, p2p, exiting >>

-----------------------------------------------------------------------------
(* DLL_PROCESS_DETACH *)

\* "clean shutdown already did it"; Windows does not ask for the line of the sampler,
\* which no close ever says.
AlreadyLogged ==
  /\ flag["reorder"] /\ flag["send"] /\ flag["dampen"]
  /\ proxy = "dsound" => flag["rtt"] \/ ~RttOn

\* emit_session_stats_at_exit: the lines to say, or to report as lost with their lock.
Due == {l \in Lines : ~AlreadyLogged /\ ~flag[l] /\ (l = "rtt" => RttOn)}

\* Whatever it says enters the lock of the log, and waits for it.
HeldUp(orphans) == "log" \in orphans /\ Due # {}

\* Of the lines to say, those whose lock is free.
Emitted(orphans) == {l \in Due : LockOf(l) \notin orphans /\ ~HeldUp(orphans)}

\* Every other thread is terminated where it is, and some of them held a lock; then the
\* counters are reported.
Exit ==
  /\ Running
  /\ \E t \in Threads : op[t] = Idle
  /\ \E orphans \in SUBSET Locks :
       /\ Cardinality(orphans) <= MaxOrphans
       /\ orphaned' = orphans
       /\ written' = [l \in Lines |-> IF l \in Emitted(orphans) THEN count[l] ELSE written[l]]
       /\ flag' = [l \in Lines |-> l \in Emitted(orphans) \/ flag[l]]
       /\ phase' = IF HeldUp(orphans) THEN "stuck" ELSE "flush"
  /\ clean' = AlreadyLogged
  /\ UNCHANGED << proxy, kernel, ids, op, capture, count, last, p2p, file, wrapped >>

\* Mutant of Flush: the file begins with the slot that is written next.
FlushFromHead ==
  /\ phase = "flush" /\ "buffer" \notin orphaned
  /\ file' = [i \in 1 .. held |-> ring[(head + i - 1) % RingRecords]]
  /\ wrapped' = (Len(hist) > held)
  /\ phase' = "done"
  /\ UNCHANGED << proxy, kernel, ids, op, capture, stats, orphaned, clean >>

\* flush_buffer_log_files, for which g_buffer_lock must come free: the oldest record
\* first.  The line that follows may wait for the log, when the file is complete.
Flush ==
  /\ phase = "flush" /\ "buffer" \notin orphaned
  /\ LET start == (head + RingRecords - held) % RingRecords
     IN  file' = [i \in 1 .. held |-> ring[(start + i - 1) % RingRecords]]
  /\ wrapped' = (Len(hist) > held)
  /\ phase' = "done"
  /\ UNCHANGED << proxy, kernel, ids, op, capture, stats, orphaned, clean >>

Next ==
  \/ \E t \in Threads :
       \/ \E h \in Handles : Open(t, h) \/ CloseReal(t, h)
       \/ \E h \in Handles, peer \in Peers \cup {0}, seq \in BOOLEAN : Receive(t, h, peer, seq)
       \/ Name(t) \/ LookUp(t) \/ Record(t)
       \/ Forget(t) \/ CloseReorder(t) \/ ClosePace(t) \/ Say(t)
  \/ \E h \in Handles : Send(h)
  \/ Exit \/ Flush

Spec == Init /\ [][Next]_vars
-----------------------------------------------------------------------------
(* Properties *)

\* Two records of one capture with the same socket id are of one socket, even when the
\* kernel gives its handle out again ("a stale entry would then mislabel a new
\* socket's buffer-log records", netcode_hooks.cpp:1653), but for two races that are
\* counted in raced: a handle given out again between closesocket and forget_socket_id,
\* and an event logged after its socket was closed.
SidNamesOneSocket ==
  \A i, j \in DOMAIN hist :
    hist[i].sid = hist[j].sid /\ hist[i].sid \notin raced \cup {0} => hist[i].n = hist[j].n

\* The file holds the last events recorded, in their order and without a gap, and its
\* meta file says so when older ones are missing ("the capture is the session TAIL",
\* netcode_hooks.cpp:1176), in spite of threads terminated half way through an event.
FileIsTail ==
  phase = "done" =>
    /\ file = SubSeq(hist, Len(hist) - Len(file) + 1, Len(hist))
    /\ Len(file) = RingRecords \/ file = hist
    /\ wrapped <=> Len(file) < Len(hist)

\* No counter goes unreported ("this is the last place they can be recovered",
\* netcode_hooks.cpp:3265), wherever the exit catches the threads in a close, unless the
\* lock of the counter was orphaned, or that of the log while there was a line to say, or
\* it is the sampler's in Windows after every other line was said by a close.
NothingUnreported ==
  phase # "running" =>
    \A l \in Lines : \/ written[l] # Unsaid
                     \/ LockOf(l) \in orphaned
                     \/ phase = "stuck" /\ "log" \in orphaned
                     \/ l = "rtt" /\ (RttOn => proxy = "winmm" /\ clean)

\* A session with the sampler on leaves its summary in the log (a BZ_RTT_TRACE_MS of 0
\* "leaves only the session-end summary", winmm_proxy/README.md:192) when no lock was
\* orphaned.
RttIsSummarised ==
  phase # "running" /\ RttOn /\ orphaned = {} => written["rtt"] # Unsaid

\* The exit waits for no lock a terminated thread held ("EnterCriticalSection would hang
\* the exit", dsound_proxy.cpp:1256) before the counters are reported.
ExitIsNotHeldUp == phase # "stuck"

\* What the log says last of a counter is its value at exit ("the counters are accurate
\* as of process exit", winmm_proxy/README.md), unless its lock or that of the log was
\* orphaned.
LastLineIsFinal ==
  phase # "running" =>
    \A l \in {"reorder", "send", "dampen"} :
      written[l] = count[l] \/ LockOf(l) \in orphaned \/ "log" \in orphaned
=============================================================================
