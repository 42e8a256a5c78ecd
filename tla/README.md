# Battlezone netcode patch: formal models

The repository builds a proxy DLL (`dsound.dll` under Proton, `winmm.dll` on
Windows) that Battlezone 98 Redux loads in place of the real one.  The DLL hooks
the game's Winsock calls and adds four things to its UDP traffic: a send pacer
with delayed duplicates, a damper for retransmissions with an RTT sampler, a
reorder buffer on the receive side, and a thread that corrects the game's send
rate in memory.  Each has a platform-independent core in `src/shared/*.h`, free
of clocks and locks; the hooks and threads around the cores are in
`src/Linux/proton_dsound_proxy/src/dsound_proxy.cpp` and
`src/Microslop/winmm_proxy/src/netcode_hooks.cpp`.

The models follow that split: one module of operators per header, one state
machine per group of hooks and threads.  `dsound_proxy.cpp` below is the Linux
file; where nothing else is said the Windows file does the same.

## 1. Inventory

### Actors

| Actor | Runs | Touches |
|---|---|---|
| the game's network thread | `hooked_sendto`, `hooked_WSASendTo`, `hooked_recvfrom`, `hooked_WSARecvFrom`, `hooked_socket`, `hooked_closesocket` | everything |
| pacer thread | `send_pace_thread`, every `kPaceTickMs` | the pacer's queue, under `g_pace_cs` |
| duplicate thread | `dup_pacer_thread` | the duplicate queue, under `g_dup_cs`, and an entry it has copied out |
| wake thread | `reorder_wake_thread` | the reorder table and `g_reorder_sock`, under `g_reorder_cs`; sends a wake datagram to the game's own port |
| governor thread | `governor_patch_thread` | the game's send rate in memory; copies smoothed RTTs from `g_rtt` to `g_dampen` |
| network globals thread | `net_patch_thread`, `NetPatchThread` | the `[Net]` globals in the game's memory |
| a game thread that receives (`dsound_proxy.cpp:269`) | `hooked_recvfrom`, `hooked_WSARecvFrom` | the RTT sampler, after the datagram has left the socket; the network thread may close it in between |
| several game threads (Windows) | `Hooked_GetQueuedCompletionStatus` | completions held back, under `g_iocp_cs`, and the reorder table's cursors, under `g_reorder_cs` |
| hook thread | `hook_worker_thread`, `HookThread` | import tables of the loaded modules, the originals `g_real_*`, once the tables of all others |
| the thread that exits | `DllMain(DLL_PROCESS_DETACH)` | counters and capture, when all other threads have been terminated |
| the wrapper | `bz_wrap.sh` (`bz_wrap.ps1`) around a launch of the game | log files, snapshots, bundles, the outbox on disk |
| the host's drain | `bz_wrap.sh --retry`, by a path unit and a timer, where the game runs in the Steam snap | the outbox |
| the game | the rest of the process | its sockets, its retry timers, its send rate |
| the network and the kernel | | loss, delay, reordering, duplication, receive buffers |

### Components

| Component | State | Operations | What is hard | What makes it correct |
|---|---|---|---|---|
| Send pacer and send hooks (`send_pace.h`) | token bucket, queue of 256 datagrams, duplicate queue and its budget | admit, queue, flush, release by thread, duplicate, purge and flush at close | three threads; two rounding divisions; the clock is read before the lock; handles are reused | nothing lost, repeated or overtaken; nothing misses its turn; nothing leaves on another socket |
| Damper and RTT sampler (`send_dampen.h`, `net_rtt.h`) | per peer: ring of sequences with windows; ring of outstanding sequences, smoothed RTT | admit or suppress a send; sample an ack; feed RTT; forget at the close of the session's socket | sequences restart between sessions; retries, lost, late and repeated acks; feed races the close | a first transmission always goes; suppression is bounded; every sample is true; a session leaves nothing behind |
| Reorder buffer (`reorder_core.h`) and buffered receive | table of peers, each with a cursor, a ring of 32 held datagrams and an adaptive hold; the remembered socket | drain, buffer, release in order or by time, decay, reclaim, wake, reset at close | rings and table at their limit; wrap of the counter; repeated sequences as payload; a game that reads only readable sockets | nothing lost unaccounted or given twice; the cursor only advances; an empty answer owes nothing; all held comes out |
| Governor patch and trace (`gov_trace.h`) | last reading, previous value and how long it was held, pending verdict, cooldowns | read, classify, poke, verdict | a sentinel with two meanings; the game writes between read and store; sampled values | starts and collapses told apart; one true verdict per bump; the sentinel does not stay |
| IOCP receive buffer (Windows only) | receives posted, completions held back, watchdog | track, dequeue, classify, hold, release by successor, age or expiry, disable | several threads on one port, two locks, a completion in a thread's hands between them | every completion is returned once, in port order but for what is held; all come out |
| Network globals (`net_globals.h`) | table of targets, first reading, veto, last write | choose, wait for the build, poll, gate, write, verify | the game rewrites them at match start and between read and store | only what was asked for is written, and only where it looked right; it wins in the end |
| Session counters at close and exit | a flag per line | log at close, log at detach | the exit terminates threads inside a close, and orphans locks, the log's too | every counter is reported |
| Buffer logger (`buffer_filter.h`), socket ids | ring of records, table of ids | record, wrap, flush at detach; register, look up, forget | the ring wraps; a thread dies half way; handles are reused | the file is the session's tail; an id names one socket |
| Hook installation | import slots, originals | passes, retries, look-ups by name | modules load late or cannot be listed; an overlay hooked first; a pass runs again; the pacer is set up behind its own hooks | a hook always has a real function behind it; nothing that could be hooked is missed; late set-up loses nothing |
| Log outbox (`bz_wrap.sh`, `bz_wrap.ps1`) | snapshots, bundles and parts in two directories | snapshot, bundle, post, park, flush | the game truncates its log, saved or not; kills between any two steps; lost answers; two processes on one outbox | no session's log that could be saved is destroyed; a bundle goes twice only because of a fault; what is parked gets out |
| Installers, diagnostics, analysis tools | files | sequential I/O | none of the above | not modelled, see section 7 |

The components meet in three places: the send hooks run damper, sampler, pacer
and duplicate in this order; `hooked_closesocket` ends all of them, each under
its own lock and some before and some after the real close; and the governor
thread carries the sampler's RTT into the damper.  Hook installation comes before
all of them and sets up their tables, those of the pacer and, in Windows, three
locks only after the hooks are in place; the exit comes after all of them and
reports what they counted.

As the release is configured, sampler and governor patch run, while the damper
and the reorder buffer are off and the pacer only measures.  The models cover
the options switched on, since that is where the decisions are.

## 2. Modules

| Module | Models | State and actions |
|---|---|---|
| `SeqNum` | the wrapping sequence space of `reorder_core.h` | `SeqCmp`, `SeqNext`, over `SeqSpace` |
| `SendPace` | `send_pace.h` | operators: bucket, `PaceAdmit`, `HeadDue`, `PurgeSocket` |
| `OrderedWire` | abstract: what the send side promises | datagrams accepted 1, 2, ... are delivered in that order, each once |
| `SendPath` | send hooks, pacer and duplicate thread, close | a critical section without a system call is one step; `g_pace_cs`, held across sends, is the variable `paceCs`; `sock` has the handle table with incarnations, since a handle value is reused |
| `SendPath_proofs` | theorems | see section 5 |
| `SendDampen`, `NetRtt` | `send_dampen.h`, `net_rtt.h` | operators on a table from address to record; `Claim` evicts the least recently used |
| `PeerSession` | damper and sampler under sends, acks, the governor thread's feed, close and reconnect | `GovCopy` and `GovFeed` are the two critical sections of the feed; `Receive` takes a datagram from the socket and `RttOnRecv` notes it later, on a thread of its own |
| `ReorderCore` | `reorder_core.h` | operators on a table entry: insert, pick, note the delivery, adapt, decay |
| `RecvPath` | `hooked_WSARecvFrom`, the wake thread, close | one step per turn of the drain loop, as the kernel receives in between; time stamps are ages, so the clock needs no bound |
| `GovTrace` | `gov_trace.h` | `GovStep` is `gov_trace_step`; time stamps are ages, counters that are only printed are flags |
| `GovPatch` | `governor_patch_thread` and the game's send rate | `Poll` reads and decides, `Poke` stores in a step of its own; `StartMatch`, `EndMatch`, `Overwrite`, `Adjust` are the game |
| `PeerSession_proofs`, `GovPatch_proofs`, `RecvPath_proofs`, `Iocp_proofs` | theorems | see section 5 |
| `CompletionPort` | abstract: a completion port | completions 1, 2, ... are handed over once each, past at most `Slack` earlier ones |
| `Iocp` | the Windows completion hook and the close | a step is what a thread does between taking and leaving the two locks, or one return of the real call; `pc` of a thread names where in the hook it is; `LookEarly` is the look whose clock was read before the locks and wraps |
| `NetGlobals` | `net_patch_thread` over `net_globals.h` | `Read` decides and `Store` writes in a step of its own; `Parse`, `MatchStarts`, `Shutdown` are the game |
| `HookInstall_proofs`, `Outbox_proofs`, `SessionEnd_proofs` | theorems | see section 5; those about `NetGlobals` are in `GovPatch_proofs` |
| `HookInstall` | the passes of both proxies over import tables | `proxy` says which; a module's slot for a function holds the export, the overlay's function or the hook; `LookUp` is the hooked `GetProcAddress`; `Unlisted` is a pass without a module list; `WinLocks`, `PaceInit`, `PaceThread` are the set-up behind the hooks, `Send` a hooked send that meets it |
| `SessionEnd` | counters, capture and socket ids in two threads, and the exit | one step per lock held; `Exit` terminates both threads wherever they are, says the lines and waits for ever (`stuck`) if one is to be said and the log's lock is among those `orphaned`; `Flush` follows |
| `Outbox` | the wrapper around a launch and the host's drain, over files on disk | one step per post, per removal and per park, since a kill may come between; `Accepted`, `Failed` and `AnswerLost` are the outcomes of a post; `Kill` ends a process and leaves the disk; `Launch` may find no directory, a wrong one, or fail to copy; a file is named by its session and part |
| `MCSendPath`, `MCPeerSession`, `MCRecvPath`, `MCGovPatch`, `MCIocp`, `MCNetGlobals`, `MCHookInstall`, `MCSessionEnd`, `MCOutbox` | instances for TLC | the values a `.cfg` cannot write |

An operator whose comment begins with "Mutant of" is the code with a plausible
bug.  No specification uses one; each shows that a property would notice.
`PROJECT.json` pairs every property with one of them.

Abstractions common to all modules: a datagram is its number, sequence and
socket, its bytes are left out; statistics, log lines and their formatting are
left out; time is in ticks, and all durations are scaled down together.

## 3. Runs

| Run | What it asks | Answer |
|---|---|---|
| `send_pace` (`SendPath_pace.cfg`) | with every call one the pacer may own: order, no loss, sorted queue, nothing misses its turn, everything gets out | holds |
| `send_dup` (`SendPath_dup.cfg`) | two handles, oversized and overlapped calls, delayed duplicates, other code opening sockets: a duplicate follows its original, a close leaves nothing queued | holds |
| `send_tail` | does every original leave on the socket it was sent on? | **no**, finding 1 |
| `session_on` (`PeerSession_on.cfg`) | damper on, one datagram per message: first transmissions, bounded suppression, resets, true samples while nothing is evicted, the end of a session | holds |
| `recv_hold` (`RecvPath_hold.cfg`) | account of every datagram, cursor, eviction, empty answers | holds |
| `recv_live` (`RecvPath_live.cfg`) | does all that is held come out? | holds |
| `gov_patch` (`GovPatch.cfg`) | start or collapse, one true verdict per bump, the sentinel does not stay | holds |
| `iocp` (`Iocp.cfg`) | two threads on one port, a slot to hold in, a close, the watchdog: none lost or given twice, a true cursor, few overtaken, all come out | holds |
| `net_globals` (`NetGlobals.cfg`) | is only what was asked for written, and does it win? | holds |
| `hook_install` (`HookInstall.cfg`) | with the essential imports present: does every hook reach a function, does the overlay stay in the chain, is all hooked that could be in a pass that could list the modules, are tables set up in time, does the late set-up of the pacer lose nothing? | holds |
| `session_end` (`SessionEnd.cfg`) | are ids, capture and counters right, wherever the exit catches the threads? | holds |
| `outbox` (`Outbox.cfg`) | two launches, the host's drain, kills, a lost answer, a launch that saves nothing: is every log that could be saved kept, nothing sent twice without a fault, and does all that is parked get out? | holds |

Type invariants: those of `SendPath`, `GovPatch`, `HookInstall`, `PeerSession`, `RecvPath`,
`Iocp` and `SessionEnd` are proved, so no run lists them.

### Bounds, and why they are enough

* `SendPath`: four datagrams of 1, 2 and 3 bytes at 3 bytes per second of 2
  ticks with a burst of 3 bytes.  Both divisions round, the bucket is full, in
  debt and over budget, the queue of two fills and is flushed, and a handle is
  closed and reused once.  `SendUntil + MaxDelay <= MaxTime` keeps the bounded
  clock from ending before the last due time.
* `PeerSession`: three messages and two sessions of one peer over three ticks, with
  windows of 1 and 2 ticks: a window opens, doubles, is capped and runs out, and
  every counter restarts.  Both rings hold two, so the third message evicts the first
  in each; the game may send the last two again (`Flight`), which is what the damper's
  ring must hold.  One received datagram is in hand at a time, and may stay there
  through a close and a new session.  `McView` leaves out the times of last use, which only
  choose whom a full table gives up; one peer fills none.
* `RecvPath`: sequences 7, 1, 2 of a counter of eight: a gap across the wrap
  and a direct successor.  Two sources and one table entry, so that the entry is
  contended and reclaimed; a ring of two and a drain of three, so that the ring
  would overflow within a drain if the guard allowed it.  Three datagrams of any
  kind, one of length 0 among them, arrive (two in the run for liveness, over two sockets, so that the wake
  thread's target changes while something is held), and one close.
* `GovPatch`: rates 1 to 8 in steps of one, a descent band of two steps, a
  verify window of three polls, a hold limit of four.  The number of matches,
  bumps and verdicts has no bound: every time stamp is an age capped at the
  largest value a comparison tells apart.

* `Iocp`: sequences 7, 0, 2 of a counter of eight, so a successor across the
  wrap and a gap behind it; four completions, two threads, one slot to hold in
  (the hold, the forced release and the release for a successor all happen), one
  close with a receive outstanding.  One tick is the window, the ceiling and the
  budget, so every comparison has both outcomes, and the watchdog trips.
* `NetGlobals`: one global with a tuning preset and one with an auto-kick
  preset, every combination of presets and overrides (unset, 0, inside the
  bounds, outside), a game that writes values inside and outside, two matches.
* `HookInstall`: the executable and one module that may load at any moment,
  three functions in two groups of the pass (the essential pair, and `WSASendTo`
  whose hook offers to the pacer), an overlay that hooked two of them, a page that may
  stay locked, three passes of either proxy: a module comes before, between and within
  passes, a look-up before and after each hook, and a send before and after each step
  of the pacer's set-up.
* `SessionEnd`: two threads, two handles for two sockets each time reused, a ring
  of two records and three events, two peers of which the filter keeps one: the
  ring wraps, the filter is full, an id is dropped and given out again.  One lock
  may be orphaned, the log's included.  A line at detach needs two, its counter's, which
  is tried, and the log's, which is waited for; with both orphaned the line is lost and the
  exit held up as with the log's alone.  The theorems have no such bound.
* `Outbox`: two launches, so that the second truncates the log of the first; a
  bundle whole or in two parts; one lost answer and two kills, so both processes
  may die, or one twice; with and without something to post with, and with the
  menu option either way; one launch that saves no log, for any of the three reasons.

### Fairness, and why the code justifies it

* Threads of the proxy loop for ever and sleep a bounded time, so their steps
  are weakly fair; a hook that was entered returns; the clock runs.
* The acquisitions of a contended critical section (`Take`, `CloseLock`,
  `PacerLock`, `WakeLook`) are strongly fair: each contender leaves the lock and
  sleeps, or returns to the game, before it takes it again.
* In `recv_live` the game reads a socket that is readable (strong fairness of
  `PollReadable`, since a readable socket stays so until it is read) and owes
  nothing else; the network owes nothing.
* In `gov_patch` the game owes nothing at all.
* In `iocp` the game's threads keep asking, as a completion loop does, and every
  call goes on; peers and kernel owe nothing.  In `net_globals` only the proxy's
  thread is fair.  `HookInstall` states weak fairness of the passes, which no
  property needs.  `SessionEnd` has none: the exit comes or does not.
* In `outbox` the timer fires, a post ends (`--max-time 300`) and the server is
  reached now and again (strong fairness of the host's `Accepted`).  The player
  owes no launch, so nothing is promised where only the next launch retries.

### What is assumed of the game

The game is not part of the repository, so what the models let it do is stated
in the source's comments or chosen wide.

* `PeerSession`: a reconnect on an open socket takes longer than the damper's
  longest window, and the lobby socket is used only before the session's first
  datagram (`PeerSession_lobby.cfg` drops the second).  Sends and closes run on one thread
  and receives on another, as the comment at `dsound_proxy.cpp:269-270` has it.  The game
  gives a message up when `Flight` newer ones have been sent.
* `GovPatch`: a lobby lasts longer than `descent_ms` (its "known limit",
  `gov_trace.h:62`), the governor changes the rate in small steps at intervals,
  and the last step onto the floor comes sooner than `descent_ms`.  The last one
  matters: a rate that stays just above the floor for longer than `descent_ms`
  and then steps onto it is counted as a match start.  The header does not
  mention that case.  Also assumed: the governor needs longer than the verify
  window from the target down to the stock floor.
* `HookInstall`: `Healthy`, for `hook_install` and the proofs: the executable
  imports the essential functions and their slots can be written.
  `HookInstall_twice.cfg` drops the first half.
* `NetGlobals`: the game writes only values from a set, and the addresses are
  what the table says once the build's signature has been found.
* `SessionEnd`: the other threads are terminated before `DLL_PROCESS_DETACH`, as
  Windows does at `ExitProcess`; the DLL is never unloaded before.
* `Outbox`: one wrapper at a time, like the game, and no `--retry` by hand while
  another drain runs (the two would post the same file); a `cp` of the snapshot either
  saves the log or fails (a file it leaves half written in `$WORK` counts for nothing), and
  later copies do not fail; the process id in a snapshot's name is not one an earlier,
  killed wrapper left a snapshot under.
* The governor thread polls on every tick; the model has no slower thread.

## 4. Findings

Shown by a run:

1. `send_tail`: `hooked_closesocket` flushes the pacer's queue after the real
   close; the tail it must not strand goes to a dead or a reused handle.

### Known disagreements

These, too, have a configuration beside the modules that reproduces them (each ends in
a violation of the property named) and are not part of the list of runs.  Where a
configuration names several properties, each of them is violated; TLC stops at the first,
so leave one at a time to see them all.

* `HookInstall_twice.cfg`, `HookReaches`: `dllmain.cpp:131-132` says that `PatchIAT`
  skips an entry that already points at the hook; it does not
  (`netcode_hooks.cpp:2279`).  When the executable imports only some of the
  essential functions, the Windows proxy passes again and saves the hook as the
  function to call.  A pass also sets up the tables of all other components
  again, without their locks.
* `HookInstall_late.cfg`, `PaceInitBeforeTraffic`: the send hooks are in place (3114)
  before `pace_init(&g_tx)` (3204), which takes no lock although `g_pace_cs_ready` has let
  the hooks in since 3168; `g_rtt_cs` and `g_iocp_cs` too are initialised after the hooks
  (3170-3178).  On Linux the order is the same (3222 and 3264), with the lock ready from
  the start.  What saves the queue is that the rate is 0 until `pace_init`, and that it
  runs once: `PaceInitKeepsQueue` holds.
* `HookInstall_twice.cfg`, `PaceInitKeepsQueue`: where a Windows pass does not complete
  and the pacer's thread cannot be created, a datagram
  queued between `pace_init` and the failure stays, pacing is off, and `pace_init` of the
  next pass clears it.
* `HookInstall_late.cfg`, `SuccessMeansCovered`: when `CreateToolhelp32Snapshot` fails,
  `patch_all_loaded_modules_ws2_iat` patches nothing (`dsound_proxy.cpp:2248-2259`) and
  `hook_setsockopt_iat` returns true (2494-2495), so that `DllMain` and the worker do not
  report a failed attempt.  `CoveredAfterPass` is about passes that had the list.
* `Outbox_unsaved.cfg`, `EveryLogSurvives`: a wrapper that cannot work out the game
  directory (`bz_wrap.sh:665-669`), guesses a wrong one (336-376), or fails to copy the log
  (699; `bz_wrap.ps1:536-555`, whose `catch` does the same) launches the game, which
  truncates the last session's log unsaved, against "game 1's log survives game 2 starting"
  (`bz_wrap.sh:19`) and "Nothing is lost" (`upload/README.md:134`).  "Never let a wrapper
  failure stop someone playing" is the choice; `LogSurvives` excuses such launches.
* `Outbox_stuck.cfg`, `EventuallySent`: a file the server refuses for good (too
  large, say) stays at the head, a flush ends at its first failure
  (`bz_wrap.sh:512`), and nothing behind it is ever tried, against "retried on the
  next wrapped launch. Nothing is lost" (`upload/README.md:133-134`).
* `SendPath_dupreuse.cfg`, `NoDuplicateOnReusedHandle`: the duplicate thread's
  local copy survives the purge and may leave on the handle's next socket,
  against `dsound_proxy.cpp:439`.
* `PeerSession_parts.cfg`, `FirstTransmissionGoes`: the damper keys on the
  sequence alone and suppresses the second datagram of a message on its first
  transmission, against `send_dampen.h:11`.
* `PeerSession_flight.cfg`, `EverySampleIsTrue`: with more messages in flight than the RTT
  ring holds, a retry of an evicted sequence takes a fresh slot that is not marked
  ambiguous, and an ack of the first copy is counted against the retry, against
  "never a wrong number" (`net_rtt.h:68`) and Karn's rule of lines 40-47.
* `PeerSession_flight.cfg`, `ResetMeansRestart`: a retry of a message the damper's ring has
  evicted is below its oldest sequence and clears the ring, against "a live duplicate
  is necessarily inside the retained set and never triggers the reset"
  (`send_dampen.h:207`); lines 44-50 and 89-97 admit it, and made the ring larger.
* `PeerSession_flight.cfg`, `NothingSurvives`: the receive hooks take the datagram from the
  socket (`dsound_proxy.cpp:1483`, 1550) and note it later (1521, 1576); a close in
  between purges both tables (1164-1210), and the note claims a record again
  (`net_rtt.h:234`) that carries the ended session's last ack, against 1186.  While it is
  ahead, acks of the new session are taken for old ones and give no sample.  A note that
  comes later still, after sends of the new session, may also sample one of them: that ack
  is not of a copy on the open socket, and `SampleIsTrue` does not speak of it.
* `PeerSession_lobby.cfg`, `UnrelatedCloseKeepsRing`: any datagram on any socket
  makes that socket the remembered one; its close purges the ring in the middle
  of a match, against `dsound_proxy.cpp:1173`.
* `PeerSession_off.cfg`, `SessionEndForgets`: the RTT table is purged only for
  peers the damper knows, and the damper is off by default, against
  `dsound_proxy.cpp:1186`.
* `RecvPath_lost.cfg`, `HeldIsReleased`: a release over a gap destroys a younger
  held datagram, which `dsound_proxy.cpp:1589` says is released regardless.
* `RecvPath_lost.cfg`, `EmptyIsDelivered`: a datagram of length 0 ends the drain
  (`dsound_proxy.cpp:1641-1643`, `netcode_hooks.cpp:1542-1544`).  It has left the kernel and
  is neither delivered nor counted, and what is behind it waits for the next call, as the
  comment above it (1626-1628) says must not happen to datagrams behind an oversized one.
  In `EachInOnePlace` it is among those destroyed.
* `SessionEnd_exit.cfg`, `ExitIsNotHeldUp`: at detach the counters' locks are only tried,
  as "EnterCriticalSection would hang the exit" (`dsound_proxy.cpp:1256`), but every line
  then enters `g_log_cs` (972; `dllmain.cpp:112`) and waits; a thread terminated while it
  logged holds it.  Windows may end the process where it would wait, and the effect is
  the same: no counter and no capture.  `NothingUnreported` and `LastLineIsFinal` excuse it.
* `SessionEnd_exit.cfg`, `LastLineIsFinal`: the close of any socket logs the pacer's
  and the damper's counters and sets flags that are never reset (lines
  1235-1242); what is counted after that is not reported at exit, against "the
  counters are accurate as of process exit" (`proton_dsound_proxy/README.md:98`).
* `SessionEnd_exit.cfg`, `RttIsSummarised`: in Windows the report at exit returns early
  when a close has said the reorder, send and damper lines (`netcode_hooks.cpp:1797`),
  without looking at the sampler's flag as the Linux twin does (`dsound_proxy.cpp:1268-1276`,
  with a comment on why).  The `rtt` summary, which only this report writes (1845-1876), is
  never written after a clean close, against `winmm_proxy/README.md:192`.  A close writes
  lines per peer instead only with the damper on, which it is not by default.

Read in the code while modelling, with no property of their own:

* Overlapped, flagged and oversized sends bypass the pacer's queue, while the
  proxy's README says the pacer never reorders (`InOrderOnce` is stated for the
  other calls).
* A call of `Hooked_GetQueuedCompletionStatus` with a timeout of 0 has a budget
  of 0, so the first millisecond spent in it trips the watchdog when a completion
  is held.  A tripped watchdog strands what is held, while lines 520-522 of
  `netcode_hooks.cpp` promise a delay at worst; `EventuallyHanded` therefore
  excuses it.  Held completions also outlive the `reorder_reset` of a close.
* `flush_buffer_log_files` enters `g_buffer_lock` at detach without trying it
  first, against the rule stated at `dsound_proxy.cpp:1252-1256`; if a terminated
  thread held it, the flush never returns and the capture is lost.  In the model
  `Flush` is then disabled.  The trailer of the Windows log (`dllmain.cpp:199`) enters
  `g_log_cs` as well, but comes after the capture is written.
* The hook of `GetQueuedCompletionStatus` is in place before its original is stored
  (`netcode_hooks.cpp:3182-3192`), and none was looked up before: a call in between returns
  FALSE (714) without a completion.  It is not one of winsock's functions, and not in
  `HookInstall`.
* `Hooked_GetQueuedCompletionStatus` reads the clock (742) before it takes the locks; a
  completion another thread holds back in between is later than that, `now - ts` (679)
  wraps, and the hold is over at once.  `LookEarly` is this, for what was held in the same
  tick; `OvertakesFew` and the rest hold with it.
* Two sockets can share an id in the capture in two races, which `raced` counts:
  the handle is given out again between the real close and `forget_socket_id`, or
  an event is logged after its socket was closed.
* A global that holds an implausible value at first contact is vetoed for good,
  also when the value was transient.  A store overwrites what the game wrote
  since the read.
* `park` moves the bundle before it writes the `.msg` file beside it, and the path
  unit watches the directory: a drain that starts in between sends the bundle
  with the fallback text, and the `.msg` file stays behind without a bundle.
* Bundles and snapshots a killed wrapper leaves in `$WORK` are kept, as
  `LogSurvives` counts, but nothing sends them: a flush looks at `$OUTBOX` only.
* With `BZ_UPLOAD_MENU=0` a menu-only session removes the bundle directory with
  the previous session's snapshot in it, and then the snapshot: if the previous
  wrapper was killed, the log of a played session goes unsent.  `discarded` has
  these, and `LogSurvives` excuses them.

## 5. Proofs

TLAPS checks these for every value of the constants that satisfies the named
assumptions of the modules.

| Theorem | Statement |
|---|---|
| `SendPath_proofs!TypeCorrect` | `Safety => []TypeOK` |
| `SendPath_proofs!QueueStaysSorted` | `Safety => []DueSorted` |
| `SendPath_proofs!NothingMissesItsTurn` | `Safety => DrainLeavesNothingDue` |
| `SendPath_proofs!PacerDropsNothing` | `[]NothingDropped`, from `PlainOnly` |
| `SendPath_proofs!SendPathImplementsOrderedWire` | `InOrderOnce`, from `PlainOnly` |
| `HookInstall_proofs!TypeCorrect` | `[]TypeOK`, from `Healthy` |
| `HookInstall_proofs!EveryHookReaches` | `[]HookReaches`, from `Healthy` |
| `HookInstall_proofs!TablesBeforeHooks` | `InitBeforeTraffic`, from `Healthy` |
| `HookInstall_proofs!NoQueueCleared` | `PaceInitKeepsQueue`, from `Healthy` |
| `GovPatch_proofs!OnlyWhatIsAsked` | `NetSpec => []WritesOnlyWhatIsAsked` |
| `Outbox_proofs!LogsSurvive` | `Spec => []LogSurvives` |
| `GovPatch_proofs!TypeCorrect` | `Spec => []TypeOK` |
| `GovPatch_proofs!BumpsAreAccounted` | `Spec => []OneVerdictPerBump` |
| `GovPatch_proofs!StartsAreNotRescued` | `Spec => RescueIsNoStart`, from `TargetAboveBand`, `WindowWithinLobby` |
| `GovPatch_proofs!CollapsesAreNotStarts` | `Spec => BumpIsNoCollapse`, from `TargetAboveBand`, `StepsApart` |
| `GovPatch_proofs!ClampsAreOverwrites` | `Spec => ClampIsOverwrite`, from `WalkIsSlow` |
| `SendPath_proofs!CopiesComeSecond` | `Safety => []DupAfterOriginal` |
| `SendPath_proofs!CloseForgets` | `Safety => []ClosedSocketForgotten` |
| `HookInstall_proofs!OverlayStaysInChain` | `[]UpstreamKept`, from `Healthy` |
| `HookInstall_proofs!PassCovers` | `[]CoveredAfterPass`, from `Healthy` |
| `Outbox_proofs!SentOnce` | `Spec => []TwiceOnlyByFault` |
| `Iocp_proofs!TypeCorrect` | `Spec => []TypeOK` |
| `Iocp_proofs!CursorIsTrue` | `Spec => []CursorIsFrontier` |
| `Iocp_proofs!NothingLost` | `Spec => []EachInOnePlace` |
| `Iocp_proofs!ImplementsPort` | `Spec => OvertakesFew` |
| `RecvPath_proofs!TypeCorrect` | `Safety => []TypeOK` |
| `RecvPath_proofs!NothingLost` | `Safety => []EachInOnePlace` |
| `RecvPath_proofs!DrainLeavesRoom` | `Safety => []NothingEvicted` |
| `RecvPath_proofs!InOrder` | `Safety => ReleasesInOrder` |
| `RecvPath_proofs!EmptyIsEmpty` | `Safety => EmptyOwesNothing` |
| `PeerSession_proofs!TypeCorrect` | `Safety => []TypeOK` |
| `PeerSession_proofs!SuppressionIsCovered` | `[]SuppressedIsCovered`, from `LobbyIsIdle` |
| `PeerSession_proofs!FirstGoes` | `[]FirstTransmissionGoes`, from `LobbyIsIdle` and one datagram per message |
| `PeerSession_proofs!LiveIsNoRestart` | `[]ResetMeansRestart`, from `LobbyIsIdle`, `DamperKnowsAll`, `DamperRingFits`, `CounterIsWide` |
| `PeerSession_proofs!SamplesAreTrue` | `[]SampleIsTrue`, from `LobbyIsIdle`, `SamplerKnowsAll`, `CounterIsWide` |
| `PeerSession_proofs!SessionForgotten` | `[]SessionEndForgets`, from `DampenOn`, `LobbyIsIdle`, `DamperKnowsAll` |
| `PeerSession_proofs!LobbyCloseKeepsRing` | `UnrelatedCloseKeepsRing`, from `LobbyIsIdle` |
| `SessionEnd_proofs!TypeCorrect` | `Spec => []TypeOK` |
| `SessionEnd_proofs!CountersReported` | `Spec => []NothingUnreported` |
| `SessionEnd_proofs!CaptureIsTail` | `Spec => []FileIsTail` |
| `SessionEnd_proofs!IdsNameOneSocket` | `Spec => []SidNamesOneSocket` |

The argument for the pacer.  The queue is sorted because of a stronger fact,
`DueWithinDebt`: every entry is due no later than the time at which the bucket's
debt is worked off.  `DebtPaid` shows that a refill, with both divisions rounding
down, never moves that time into the past of a queued entry, so the entry
appended next, due exactly then, goes last.  It needs `Timing`: the clock
values on the way (the bucket's, the one the game thread read before the lock,
the present) are in order; and `Locking`, which says who may be in a loop of
sends.  The flush is the exception: it resets the debt while entries are
queued, and `DueWithinDebt` holds again only when the queue is empty.

Nothing is lost or overtaken because of `Order`: the numbers on the wire, in the
queue and in the hands of the game thread follow each other without a gap, and a
datagram that goes past the queue finds it empty.  The refinement then maps each
real send of a numbered datagram to a delivery of `OrderedWire` and everything
else to an acceptance or a stutter.

A copy follows its original (`CopiesFollow`): an entry of the duplicates' queue was
put there after its datagram was on the wire, and nothing leaves the wire.  A
closed socket is forgotten because an entry of either queue belongs to an open
incarnation or to one that a close in progress will purge (`QueuesLive`).

The argument for the governor.  `GovStepAccounts` shows of `gov_trace_step` that
only a bump arms the machine, only when it is not armed, and that only a verdict
disarms it, only when it is.  The invariant is `TypeOK` and `OneVerdictPerBump`
together: the count of bumps without a verdict stays 0 or 1 because of the
arming, and a verdict can be subtracted because one was owed.

The three other theorems say that the thread, which sees a sample of the values,
names their causes correctly.  `PollFields` reduces a poll to what it does to the
reading, the pokes and the event; each theorem then has an invariant that
relates what the thread remembers to what the game did.  A clamp is an overwrite because
the way the governor has walked from the target, in ticks, is at most the age of
the bump (`WalkBounded`), and no verdict is awaited longer than the window.  A
match start is not rescued because the thread has watched the lobby's value for
all but one tick of the lobby (`LobbySeen`), so a value just above the sentinel is older
than a descent allows; and where a match ends in the middle of a collapse, cooldown
and pending verdict run out before the lobby does, so that the sentinel is
left (`LobbyRescues`).  A collapse is not bumped because the governor steps only from a
value the thread has seen, and onto the sentinel only from one seen for less than a
descent (`StepsSeen`, `StepWritten`).  The hypotheses are relations between the
header's settings and the game's pace, and hold of the defaults
(`gov_trace.h:167-179`) and of `GovPatch.cfg`: the target is above
sentinel and band (40000 against 4000 and 2000), the verify window is shorter than a
descent (10 s against 30 s), a step lasts longer than a poll and is within the band, and
the walk from the target to the clamp floor, or out of `down_slack`, takes longer than the
window.  Without the last the governor walks there before the verdict, and a poke that
held is called clamped.

The argument for hook installation, one invariant per proxy.  On Linux an original
is winsock's export as soon as it is known, and all are known before the first
import is patched (`LinuxInv`), so neither a pass nor a look-up can save a hook.
On Windows the originals are saved from the slots, so nothing may be hooked when
a pass begins: with `Healthy` the first pass that reaches the executable
completes, and until then no slot holds a hook (`WindowsInv`); within the pass the
functions hooked are just those already done, and what was saved of them is never
the hook (`WindowsPatching`).  `Healthy` cannot be dropped, as `HookInstall_twice.cfg` shows.
`TypeCorrect` needs it only because the invariant is proved as a whole.
The pacer is untouched until `pace_init` (`PacerInv`): its rate is 0, so no hook queues
anything, although the hooks are there; and `pace_init` runs once, on Linux after the first
pass, on Windows in the one pass that completes.  A step of `pace_init` is atomic in the
model: a `pace_admit` it races with, without a lock, finds the old rate or the new one.

The argument for the network globals.  A target is 0, the entry's variable or a
preset (`NetTargetIsAsked`); an entry is asserted only if it looked right at first
contact (`AppliedWasPlausible`) in a build that is known (`KnownBuild`); the store
comes after that decision and the game's parser cannot undo it (`StoreIsGated`);
so what the game did not write is a target (`OursIsGated`).  The theorem is in
`GovPatch_proofs`, which is about the two threads that write the game's memory.

The argument for the outbox.  The log a start of the game truncates is in a
snapshot, or its session is one the launch could not save (`LogIsSaved`); a snapshot is removed only by the wrapper that took it,
when its session's bundle has it (`SnapshotIsBundled`); a session makes one bundle,
under a name of its own (`BundleIsNew`); and of a bundle a file is moved, or
removed when the server has it (`PostedIsReceived`).  The loops of both
processes keep these facts for one reason, stated once in `LoopOK`: they destroy
nothing.  Type correctness is part of the invariant as far as it is needed.

`SentOnce` adds to it that a file that is still there to be posted was not received,
unless a fault is charged to it; the charge is made in the step that loses the
answer or kills the process between post and removal.

The argument for the receive path.  A datagram is in the kernel's buffer, in a ring,
with the game or in the account of what was destroyed.  `Places` says of every
number that it is at one of the four if and only if it has arrived, and at no
two; and of each place that it has no number twice.  Each place changes in one of
a few ways (`Pushed`, `Popped`, `Cleared`, `Refilled`, `HandedOver`, `Destroyed`), a
lemma says what each does to the numbers there, and a step is a combination of
them.  The sizes add up because the four sets are disjoint.  Beneath it are the
lemmas about `reorder_core.h` (`ClaimedOK`, `AdaptOK`, `InsertOK`, `NoteDeliveryOK`,
`DecayOK`, `TakeOutOK`, `AgedOK`): each keeps a ring well formed, the window between
its floor and its ceiling, and the cursor where it was or ahead of it.  That
nothing is evicted is `InsertOK` and the drain's test for a full ring.  Releases are
in order by `TakeOutOK`.  An empty answer owes nothing: if something were ahead of the cursor
and overdue there would be a nearest such datagram, since the distances are
naturals, and it would be behind all others (`NearerIsBehind`, where the
circle of the counter is at most half used), so `Pick` would not be empty.  Least
elements come from the well-foundedness of `<` (`WFMin`), which the prover can use
because it is stated of a set and not of an operator.

The argument for damper and sampler.  An entry of a ring that may still suppress
stands for a copy the network was given in this session (`EntriesCovered`).  This
survives a reconnect because that takes longer than the longest window, and a
close because the remembered socket is the one with the traffic (`SocketTrue`).  A
restart is a sequence below the ring's first entry.  A ring is a run of sequences
without a gap (`RingRuns`) up to the newest message, whole or at its full length
(`RingHolds`), so with at most as many messages in flight as it has slots, each of them
is in it and none is below its first entry, whatever has been evicted (`RingsHold`).

For the sampler, say that a message
counts while its ack would still advance the record.  The messages that count have
their slots in the order of their sequences and without a gap (`SlotsOrdered`), so
an ack that retires the slots up to its own retires none that still counts; every
copy that counts has a slot, and one that may be sampled has the time of the only
copy there is (`SlotsTrue`).  A reconnect restarts the channel below the highest ack;
its messages do not count until they have passed it, and by then they find the slots
of the earlier session and mark them.  The same holds of a record the note of an ended
session's datagram made.  The invariant is claimed until the sampler counts an eviction
(`SlotsInv`).

The end of a session leaves the damper's table empty because the remembered socket is
the one with the traffic; of the sampler's it leaves a record only where the damper had
none, and that is a peer whose datagram was in hand at a close (`TablesAgree`, `late`).

The hypotheses are those of the code or limits a run shows to be real.  `LobbyIsIdle`
is dropped in `PeerSession_lobby.cfg`, one datagram per message in
`PeerSession_parts.cfg`, `DamperRingFits` in `PeerSession_flight.cfg`, the damper's switch
in `PeerSession_off.cfg`: each violates the property it is needed for (section 4).
`DamperKnowsAll` and `SamplerKnowsAll` say that there are at most as many peers as
records, 16 in both tables as there are players (`net_rtt.h:60`).  `DamperRingFits` says
that what is in flight fits the damper's ring of 512, which is what the ring was made so
large for (`send_dampen.h:44-53`), and limits the session not at all.  `CounterIsWide`
says that a session has no more messages than half the counter, so that any two
can be compared.  Of the sampler's ring nothing is assumed: the property itself ends with the
first eviction, which the code counts and prints (`slots_evicted`), and
`PeerSession_flight.cfg` shows why.  `SuppressionIsCovered` and `FirstGoes` need none of this and hold
with evictions.

The argument for the completion hook has the same shape with other places: the port,
the threads' hands, the hold and the game.  The port is first-in first-out
(`PortIsTail`), so what has been taken is an interval.  The cursor is the furthest
sequence given (`CursorIsFrontier`) because it moves in the step that hands a
completion over.  For the refinement, a completion overtakes only what
is held or in other threads' hands, and there are at most as many of those as slots and
threads (`FewElsewhere`).

The argument for the session's end, one per property.  A line whose flag is up has
been said (`FlagMeansSaid`), because flag and line change in one step and nothing
unsays a line; so the report at exit, which skips only what has its flag, leaves
nothing out but what the property excuses.

The ring is the tail of the records because of `RingIsTail`: the slots below `head`
are the newest `head` records, and those from `head` on, once the ring is full, the
ones before them.  It says so with differences of record numbers instead of a
remainder, and holds for any number of wraps; the only remainders left are those of
the code, of numbers below twice the ring's size (`Wrap`).  A record goes over the
oldest one (`RecordedTail`), and `Flush` starts at slot 0 or at `head`
(`FlushedTail`).  A thread terminated at exit does not matter, since the slot, the
head and the count change under one lock, and where that lock is orphaned there is
no file.

A socket id names one socket because of three facts about who uses an id, be it a
record or a thread with one on its way there (`Uses`).  An id that is used was given
out before (`Known`), so a new one has no users.  Users of an id that no race has
spoiled are of one socket (`OneSocket`).  And as long as the table has an id for a
handle, its users are of the socket that is open under the handle, or, if there is
none, the thread that closed it is about to forget the entry (`Current`).
The last is what makes reuse of handles safe: a handle given out again finds an entry
only while such a thread exists, and that is one of the two races in `raced`; a look-up
by a call whose socket is gone is the other.  `LookUpKeepsIds` covers the three places
where an id is looked up, `FewerKeep` all steps that only drop users.

Only model-checked: liveness (`EventuallyOnWire`, `EventuallySettled`,
`EventuallyHanded`, `EventuallySent`, `OursWins`, `BumpGetsVerdict`, `SentinelIsRaised`) and everything
that rests on fairness, which the prover cannot do.  Every invariant and every action
property a passing run checks is also a theorem.

## 6. Plan

Done: all components but what section 7 lists, and the proofs of every invariant,
action property and refinement the passing runs check, in all nine models.

Left: liveness, for want of a prover (fairness and `ENABLED` are out of its reach);
and the properties of section 4 that the code does not have, should it change.

## 7. Not modelled

* The forwarding of exports to the real DLL, and the `setsockopt` calls of the
  socket hooks: best effort, with no state that anything else reads.
* The signature scans: they read memory once and log.
* Installers, diagnostic scripts, log analysis: one-shot or offline.
* In modelled parts: statistics beyond one counter per line, periodic and per
  peer lines, trace lines; torn or unsynchronised reads of the switches that are
  set once at start; allocation failure.  Two sockets with sequenced
  traffic are in `recv_live` only.
  In `Iocp`, contention of the reorder table (it is in `RecvPath`), and
  completions that succeed without a sequence, which go the way of failed ones.
  In `NetGlobals`, the table set up again by a further Windows pass, which only
  happens in the case of `HookInstall_twice.cfg`.  In `Outbox`, `.msg` files, the
  text of messages, set-up, status, names and crash detection.

## 8. Running

    tlc -config SendPath_pace.cfg MCSendPath.tla
    tlc -config PeerSession_on.cfg MCPeerSession.tla
    tlc -config RecvPath_hold.cfg MCRecvPath.tla
    tlc -config GovPatch.cfg MCGovPatch.tla
    tlc -config Iocp.cfg MCIocp.tla
    tlc -config NetGlobals.cfg MCNetGlobals.tla
    tlc -config HookInstall.cfg MCHookInstall.tla
    tlc -config SessionEnd.cfg MCSessionEnd.tla
    tlc -config Outbox.cfg MCOutbox.tla
    tlapm SendPath_proofs.tla
    tlapm PeerSession_proofs.tla
    tlapm RecvPath_proofs.tla
    tlapm GovPatch_proofs.tla
    tlapm Iocp_proofs.tla
    tlapm HookInstall_proofs.tla
    tlapm Outbox_proofs.tla
    tlapm SessionEnd_proofs.tla

`PeerSession`, `NetGlobals`, `SessionEnd` and `Outbox` end in states with nothing left to do
(the bounded clock has stopped and the socket is closed; the process is ending
and the thread has gone; the process has ended), `Outbox` when the last launch is
over, so their configurations switch
the deadlock check off; all others keep it.
