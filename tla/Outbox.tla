-------------------------------- MODULE Outbox --------------------------------
(***************************************************************************)
(* The wrapper around a game launch (upload/bz_wrap.sh; bz_wrap.ps1 does   *)
(* the same): it saves the previous session's BZLogger.txt before the game *)
(* truncates it, bundles the logs when the game has ended, posts the       *)
(* bundle, and parks in an outbox on disk what could not be posted.  The   *)
(* outbox is flushed by the next wrapped launch and, where the wrapper's   *)
(* own environment has nothing to post with (the Steam snap), by a service *)
(* on the host that runs bz_wrap.sh --retry.                               *)
(*                                                                         *)
(* Either process may be killed between any two steps: the files stay.     *)
(* What a message says is left out, and so is the .msg file beside a       *)
(* parked bundle.  The wrapper runs once at a time, like the game.         *)
(***************************************************************************)
EXTENDS Naturals, FiniteSets

CONSTANTS
  MaxParts,    \* bound: parts an oversized bundle is split into
  Refused,     \* files the server never accepts
  MaxSessions, \* bound: wrapped launches that reach the game
  MaxUnsaved,  \* bound: launches that save nothing, see Launch
  MaxLost,     \* bound: posts whose answer does not come back
  MaxKills     \* bound: kills

ASSUME OutboxAssumption ==
  /\ MaxParts \in Nat /\ MaxSessions \in Nat
  /\ MaxUnsaved \in Nat /\ MaxLost \in Nat /\ MaxKills \in Nat

Procs == {"wrapper", "host"}
Sessions == 1 .. MaxSessions

\* A bundle, or part k > 0 of an oversized one, named by its session.
Files == Sessions \X (0 .. MaxParts)

VARIABLES
  env,       \* "native": the wrapper has curl or python3; "snap": only the host has
  menuSkips, \* BZ_UPLOAD_MENU=0
  session,   \* the game's sessions so far
  gameLog,   \* the session BZLogger.txt in the game's directory is of, 0 = none
  dir,       \* the running wrapper's $game_dir: the "right" one, a "wrong" one or "none"
  mine,      \* the session of its $snapshot, 0 = none
  snaps,     \* sessions with a snapshot in $WORK
  bundle,    \* per session, whose logs its bundle has and the files it was made into
  work,      \* bundle files in $WORK
  outbox,    \* bundle files in $OUTBOX
  pc,        \* what a process is doing
  todo,      \* the files its loop still has to do
  posted,    \* the loop's post_file has succeeded, rm is next
  received,  \* history: how often the server has accepted a file
  faults,    \* history: lost answers and kills that left it unremoved
  discarded, \* history: sessions whose snapshot a menu-only session took with it
  unsaved,   \* history: sessions whose log the last launch did not save
  misses, lost, kills

disk    == << gameLog, snaps, bundle, work, outbox >>
history == << received, faults, discarded, unsaved, misses, lost, kills >>
vars == << env, menuSkips, session, dir, mine, disk, pc, todo, posted, history >>

Init ==
  /\ env \in {"native", "snap"} /\ menuSkips \in BOOLEAN
  /\ session = 0 /\ gameLog = 0 /\ dir = "none" /\ mine = 0
  /\ snaps = {} /\ work = {} /\ outbox = {}
  /\ bundle = [s \in Sessions |-> [logs |-> {}, files |-> {}]]
  /\ pc = [p \in Procs |-> "off"]
  /\ todo = [p \in Procs |-> {}]
  /\ posted = [p \in Procs |-> FALSE]
  /\ received = [f \in Files |-> 0] /\ faults = [f \in Files |-> 0]
  /\ discarded = {} /\ unsaved = {} /\ misses = 0 /\ lost = 0 /\ kills = 0

-----------------------------------------------------------------------------
(* A launch, up to the game *)

\* Mutant of Glob: the loop does not know of parts.
GlobWhole == {f \in outbox : f[2] = 0}

\* The files a flush goes through, by the patterns of its loop: those there are when
\* it begins ...
Glob == outbox

\* ... whole bundles before parts, each by name.
Before(f, g) ==
  \/ f[2] = 0 /\ g[2] # 0
  \/ (f[2] = 0 <=> g[2] = 0) /\ (f[1] < g[1] \/ (f[1] = g[1] /\ f[2] < g[2]))
File(p) == CHOOSE f \in todo[p] : \A g \in todo[p] \ {f} : Before(f, g)

\* Mutant of Launch: nothing is saved.
LaunchBare ==
  /\ pc["wrapper"] = "off"
  /\ session < MaxSessions
  /\ dir' = "right"
  /\ todo' = [todo EXCEPT !["wrapper"] = Glob]
  /\ pc' = [pc EXCEPT !["wrapper"] = "flush"]
  /\ UNCHANGED << env, menuSkips, session, mine, disk, posted, history >>

\* The previous session's log is saved, and a flush begins.  Both go on without a
\* snapshot: when the directory is not found, or a wrong one is guessed, where there is
\* no log of the game, and when the cp fails.
Launch ==
  /\ pc["wrapper"] = "off"
  /\ session < MaxSessions
  /\ dir' \in {"right", "wrong", "none"}
  /\ mine' \in IF dir' = "right" THEN {0, gameLog} ELSE {0}
  /\ snaps' = snaps \cup ({mine'} \ {0})
  /\ \/ /\ dir' = "right" /\ mine' = gameLog
        /\ unsaved' = unsaved \ {gameLog} /\ misses' = misses
     \/ /\ ~(dir' = "right" /\ mine' = gameLog) /\ misses < MaxUnsaved
        /\ unsaved' = unsaved \cup ({gameLog} \ {0}) /\ misses' = misses + 1
  /\ todo' = [todo EXCEPT !["wrapper"] = Glob]
  /\ pc' = [pc EXCEPT !["wrapper"] = "flush"]
  /\ UNCHANGED << env, menuSkips, session, gameLog, bundle, work, outbox, posted,
                  received, faults, discarded, lost, kills >>

\* The host's path unit or timer runs the flush, one at a time.
HostStart ==
  /\ env = "snap"
  /\ pc["host"] = "off"
  /\ outbox # {}
  /\ todo' = [todo EXCEPT !["host"] = Glob]
  /\ pc' = [pc EXCEPT !["host"] = "flush"]
  /\ UNCHANGED << env, menuSkips, session, dir, mine, disk, posted, history >>

FlushEnd(p) ==
  /\ pc[p] = "flush"
  /\ todo[p] = {}
  /\ pc' = [pc EXCEPT ![p] = IF p = "host" THEN "off" ELSE "launch"]
  /\ UNCHANGED << env, menuSkips, session, dir, mine, disk, todo, posted, history >>

\* The game truncates its log.
GameStarts ==
  /\ pc["wrapper"] = "launch"
  /\ session' = session + 1
  /\ gameLog' = session'
  /\ pc' = [pc EXCEPT !["wrapper"] = "game"]
  /\ UNCHANGED << env, menuSkips, dir, mine, snaps, bundle, work, outbox, todo, posted, history >>

-----------------------------------------------------------------------------
(* The bundle (collect_and_upload) *)

\* One file, or parts; from a wrong directory it has no log of this session.
Bundle ==
  /\ pc["wrapper"] = "game"
  /\ dir # "none"
  /\ \E parts \in {{0}} \cup {1 .. n : n \in 2 .. MaxParts} :
       LET files == {session} \X parts
       IN  /\ work' = work \cup files
           /\ todo' = [todo EXCEPT !["wrapper"] = files]
           /\ bundle' = [bundle EXCEPT ![session] =
                           [logs |-> {IF dir = "right" THEN session ELSE 0, mine} \ {0},
                            files |-> files]]
  /\ pc' = [pc EXCEPT !["wrapper"] = "send"]
  /\ UNCHANGED << env, menuSkips, session, dir, mine, gameLog, snaps, outbox, posted, history >>

\* A menu-only session is not sent when the user says so.
BundleSkipped ==
  /\ pc["wrapper"] = "game"
  /\ dir # "none"
  /\ menuSkips
  /\ discarded' = discarded \cup ({mine} \ {0})
  /\ pc' = [pc EXCEPT !["wrapper"] = "send"]
  /\ UNCHANGED << env, menuSkips, session, dir, mine, disk, todo, posted,
                  received, faults, unsaved, misses, lost, kills >>

\* "no bundle will be collected".
NoBundle ==
  /\ pc["wrapper"] = "game"
  /\ dir = "none"
  /\ pc' = [pc EXCEPT !["wrapper"] = "send"]
  /\ UNCHANGED << env, menuSkips, session, dir, mine, disk, todo, posted, history >>

SendEnd ==
  /\ pc["wrapper"] = "send"
  /\ todo["wrapper"] = {}
  /\ snaps' = snaps \ {mine}
  /\ mine' = 0 /\ dir' = "none"
  /\ pc' = [pc EXCEPT !["wrapper"] = "off"]
  /\ UNCHANGED << env, menuSkips, session, gameLog, bundle, work, outbox, todo, posted, history >>

-----------------------------------------------------------------------------
(* post_file, in the loop over the outbox ("flush") or over the new files ("send") *)

Posting(p) ==
  /\ pc[p] \in {"flush", "send"}
  /\ todo[p] # {}
  /\ ~posted[p]
  /\ pc[p] = "flush" => File(p) \in outbox
  /\ UNCHANGED << env, menuSkips, session, dir, mine, gameLog, snaps, bundle, pc,
                  discarded, unsaved, misses, kills >>

\* A file another process has sent meanwhile is passed over.
Skip(p) ==
  /\ pc[p] = "flush"
  /\ todo[p] # {}
  /\ ~posted[p]
  /\ File(p) \notin outbox
  /\ todo' = [todo EXCEPT ![p] = @ \ {File(p)}]
  /\ UNCHANGED << env, menuSkips, session, dir, mine, disk, pc, posted, history >>

CanPost(p) == p = "host" \/ env = "native"
Accepts(p) == /\ CanPost(p)
              /\ File(p) \notin Refused
              /\ received' = [received EXCEPT ![File(p)] = @ + 1]

Accepted(p) ==
  /\ Posting(p)
  /\ Accepts(p)
  /\ posted' = [posted EXCEPT ![p] = TRUE]
  /\ UNCHANGED << work, outbox, todo, faults, lost >>

\* A failure ends a flush, and parks a new file; the loop over those goes on.
GiveUp(p) ==
  IF pc[p] = "flush"
    THEN /\ todo' = [todo EXCEPT ![p] = {}]
         /\ UNCHANGED << work, outbox >>
    ELSE /\ todo' = [todo EXCEPT ![p] = @ \ {File(p)}]
         /\ work' = work \ {File(p)}
         /\ outbox' = outbox \cup {File(p)}

\* Offline, refused, or nothing to post with.
Failed(p) ==
  /\ Posting(p)
  /\ GiveUp(p)
  /\ UNCHANGED << posted, received, faults, lost >>

\* The server has accepted it, but the answer is lost or too late.
AnswerLost(p) ==
  /\ lost < MaxLost
  /\ Posting(p)
  /\ Accepts(p)
  /\ GiveUp(p)
  /\ faults' = [faults EXCEPT ![File(p)] = @ + 1]
  /\ lost' = lost + 1
  /\ UNCHANGED posted

\* Mutant of Remove: what has just been bundled is parked after all.
RemoveParks(p) ==
  /\ posted[p]
  /\ posted' = [posted EXCEPT ![p] = FALSE]
  /\ todo' = [todo EXCEPT ![p] = @ \ {File(p)}]
  /\ work' = work \ {File(p)}
  /\ outbox' = IF pc[p] = "flush" THEN outbox \ {File(p)} ELSE outbox \cup {File(p)}
  /\ UNCHANGED << env, menuSkips, session, dir, mine, gameLog, snaps, bundle, pc, history >>

\* After a success the file is removed, wherever it was.
Remove(p) ==
  /\ posted[p]
  /\ posted' = [posted EXCEPT ![p] = FALSE]
  /\ todo' = [todo EXCEPT ![p] = @ \ {File(p)}]
  /\ work' = IF pc[p] = "send" THEN work \ {File(p)} ELSE work
  /\ outbox' = IF pc[p] = "flush" THEN outbox \ {File(p)} ELSE outbox
  /\ UNCHANGED << env, menuSkips, session, dir, mine, gameLog, snaps, bundle, pc, history >>

-----------------------------------------------------------------------------
\* The process, or the machine, dies; the disk stays.
Kill(p) ==
  /\ pc[p] # "off"
  /\ kills < MaxKills
  /\ kills' = kills + 1
  /\ faults' = IF posted[p] THEN [faults EXCEPT ![File(p)] = @ + 1] ELSE faults
  /\ pc' = [pc EXCEPT ![p] = "off"]
  /\ todo' = [todo EXCEPT ![p] = {}]
  /\ posted' = [posted EXCEPT ![p] = FALSE]
  /\ mine' = IF p = "wrapper" THEN 0 ELSE mine
  /\ dir' = IF p = "wrapper" THEN "none" ELSE dir
  /\ UNCHANGED << env, menuSkips, session, disk, received, discarded, unsaved, misses, lost >>

Step(p) ==
  \/ Skip(p) \/ Accepted(p) \/ AnswerLost(p) \/ Failed(p) \/ Remove(p) \/ FlushEnd(p)

Next ==
  \/ Launch \/ GameStarts \/ Bundle \/ BundleSkipped \/ NoBundle \/ SendEnd \/ HostStart
  \/ \E p \in Procs : Step(p) \/ Kill(p)

\* A post ends (--max-time), the timer fires, the server is reached now and again.  The
\* player owes no launch.
Fairness ==
  /\ WF_vars(HostStart)
  /\ WF_vars(Step("host"))
  /\ SF_vars(Accepted("host"))

Spec == Init /\ [][Next]_vars /\ Fairness

-----------------------------------------------------------------------------
(* Properties *)

\* Where the log of a session is: in place, in a snapshot, or in a bundle all of whose
\* files are on disk or with the server.
Kept(f) == f \in work \cup outbox \/ received[f] > 0
Survives(s) ==
  \/ s \in {gameLog} \cup snaps
  \/ \E b \in Sessions :
       /\ s \in bundle[b].logs
       /\ \A f \in bundle[b].files : Kept(f)

\* The log of every session is still there or was sent, although the game truncates it
\* at every start and the wrapper may be killed anywhere ("game 1's log survives game 2
\* starting", bz_wrap.sh:19).  Two are excused: a menu-only session the user does not want
\* sent takes its snapshot with it, and a launch that cannot save the log goes on anyway.
LogSurvives == \A s \in 1 .. session : Survives(s) \/ s \in discarded \cup unsaved

\* Without the second excuse ("Nothing is lost", upload/README.md:134).
EveryLogSurvives == \A s \in 1 .. session : Survives(s) \/ s \in discarded

\* The server gets a file again only when an answer was lost or a process was killed
\* between the post and the rm, however flush, park and retry come together.
TwiceOnlyByFault == \A f \in Files : received[f] <= 1 + faults[f]

\* What is parked where the host's units run reaches the server in the end ("the
\* bundle is parked in an outbox and retried", upload/README.md:133).
EventuallySent ==
  \A f \in Files : env = "snap" /\ f \in outbox \ Refused ~> received[f] > 0
=============================================================================
