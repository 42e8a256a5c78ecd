----------------------------- MODULE Outbox_proofs -----------------------------
(***************************************************************************)
(* No session's log is destroyed, and none is sent twice without a fault,  *)
(* for any number of sessions, parts, lost answers and kills, and whatever *)
(* the server refuses.                                                     *)
(***************************************************************************)
EXTENDS Outbox, TLAPS

Stages == {"off", "flush", "launch", "game", "send"}

TypeInv ==
  /\ session \in Nat /\ gameLog \in Nat /\ mine \in Nat
  /\ bundle \in [Sessions -> [logs : SUBSET Nat, files : SUBSET Files]]
  /\ pc \in [Procs -> Stages]
  /\ todo = [p \in Procs |-> todo[p]]
  /\ posted \in [Procs -> BOOLEAN]
  /\ received \in [Files -> Nat]

\* What rm takes away, the server has.
PostedIsReceived ==
  \A p \in Procs : posted[p] /\ File(p) \in Files => received[File(p)] > 0

\* rm comes within a loop.
PostedIsBusy == \A p \in Procs : posted[p] => pc[p] \in {"flush", "send"} /\ todo[p] # {}

\* Until the game truncates its log, a snapshot has it, or none was to be had.
LogIsSaved ==
  pc["wrapper"] \in {"flush", "launch"} =>
    /\ session < MaxSessions
    /\ gameLog \in snaps \cup unsaved \cup {0}

\* A wrapper that has found no directory has no snapshot.
NoneSaved == dir = "none" => mine = 0

\* A session makes one bundle, which takes nobody's place.
BundleIsNew ==
  /\ session \in 0 .. MaxSessions
  /\ \A b \in Sessions : b > session => bundle[b].logs = {}
  /\ pc["wrapper"] = "game" => session > 0 /\ gameLog = session /\ bundle[session].logs = {}

\* The log of s is in a bundle that is kept.
InBundle(s) ==
  \E b \in Sessions : s \in bundle[b].logs /\ \A f \in bundle[b].files : Kept(f)

\* When the snapshot goes, its log is elsewhere.
SnapshotIsBundled ==
  pc["wrapper"] = "send" => mine \in {0} \cup discarded \/ InBundle(mine)

IInv ==
  /\ TypeInv /\ PostedIsReceived /\ PostedIsBusy /\ LogIsSaved /\ NoneSaved /\ BundleIsNew
  /\ SnapshotIsBundled /\ LogSurvives

USE OutboxAssumption

-----------------------------------------------------------------------------
LEMMA InitOK == Init => IInv
<1> SUFFICES ASSUME Init PROVE IInv
  OBVIOUS
<1>1. TypeInv
  <2>1. bundle \in [Sessions -> [logs : SUBSET Nat, files : SUBSET Files]]
    BY DEF Init
  <2> QED
    BY <2>1 DEF Init, TypeInv, Stages
<1>2. PostedIsReceived /\ PostedIsBusy /\ LogIsSaved /\ NoneSaved /\ SnapshotIsBundled
  BY DEF Init, PostedIsReceived, PostedIsBusy, LogIsSaved, NoneSaved, SnapshotIsBundled, Procs
<1>3. BundleIsNew /\ LogSurvives
  BY DEF Init, BundleIsNew, LogSurvives, Survives, Procs, Sessions
<1> QED
  BY <1>1, <1>2, <1>3 DEF IInv

\* What was kept in a bundle stays so while no file is destroyed.
LEMMA BundleStays ==
  ASSUME TypeInv, UNCHANGED bundle, \A f \in Files : Kept(f) => Kept(f)',
         NEW s, InBundle(s)
  PROVE  InBundle(s)'
BY DEF TypeInv, InBundle

\* Steps of the loops neither start nor end anything, and destroy nothing.
LEMMA LoopOK ==
  ASSUME IInv, NEW p \in Procs,
         UNCHANGED << session, gameLog, mine, snaps, bundle, discarded, unsaved, dir >>,
         \/ pc' = pc
         \/ pc[p] = "flush" /\ pc' = [pc EXCEPT ![p] = IF p = "host" THEN "off" ELSE "launch"],
         \A f \in Files : Kept(f) => Kept(f)',
         TypeInv', PostedIsReceived', PostedIsBusy'
  PROVE  IInv'
<1> USE DEF IInv
<1>1. "wrapper" \in Procs
  BY DEF Procs
<1>2. pc'["wrapper"] = pc["wrapper"]
        \/ (pc["wrapper"] = "flush" /\ pc'["wrapper"] = "launch")
  BY <1>1 DEF TypeInv, Procs
<1>3. LogIsSaved' /\ NoneSaved'
  BY <1>2 DEF LogIsSaved, NoneSaved
<1>4. BundleIsNew'
  BY <1>2 DEF BundleIsNew
<1>5. SnapshotIsBundled'
  <2> SUFFICES ASSUME pc'["wrapper"] = "send", mine \notin {0} \cup discarded
               PROVE  InBundle(mine)'
    BY DEF SnapshotIsBundled, InBundle
  <2>1. InBundle(mine)
    BY <1>2 DEF SnapshotIsBundled
  <2> QED
    BY <2>1, BundleStays
<1>6. LogSurvives'
  <2> SUFFICES ASSUME NEW s \in 1 .. session, s \notin {gameLog} \cup snaps \cup discarded \cup unsaved
               PROVE  InBundle(s)'
    BY DEF LogSurvives, Survives, InBundle
  <2>1. InBundle(s)
    BY DEF LogSurvives, Survives, InBundle
  <2> QED
    BY <2>1, BundleStays
<1> QED
  BY <1>3, <1>4, <1>5, <1>6

LEMMA SkipOK == ASSUME IInv, NEW p \in Procs, Skip(p) PROVE IInv'
<1> USE DEF IInv
<1>1. UNCHANGED << session, gameLog, mine, snaps, bundle, work, outbox, pc,
                   posted, received, discarded, unsaved, dir >>
  BY DEF Skip, disk, history
<1>2. TypeInv'
  BY <1>1 DEF Skip, TypeInv
<1>3. ~posted[p]
  BY DEF Skip
<1>4. \A q \in Procs : posted[q] => File(q)' = File(q) /\ todo'[q] = todo[q]
  BY <1>3 DEF Skip, File, TypeInv
<1>5. PostedIsReceived' /\ PostedIsBusy'
  BY <1>1, <1>4 DEF PostedIsReceived, PostedIsBusy
<1>6. \A f \in Files : Kept(f) => Kept(f)'
  BY <1>1 DEF Kept
<1> QED
  BY <1>1, <1>2, <1>5, <1>6, LoopOK

\* An accepted file is with the server.
LEMMA AcceptedOK == ASSUME IInv, NEW p \in Procs, Accepted(p) PROVE IInv'
<1> USE DEF IInv
<1>1. UNCHANGED << session, gameLog, mine, snaps, bundle, work, outbox, pc, todo, discarded, unsaved, dir >>
  BY DEF Accepted, Posting
<1>2. /\ received' = [received EXCEPT ![File(p)] = @ + 1]
      /\ posted' = [posted EXCEPT ![p] = TRUE]
  BY DEF Accepted, Accepts
<1>3. \A f \in Files : received'[f] \in Nat /\ received'[f] >= received[f]
                        /\ (f = File(p) => received'[f] > 0)
  BY <1>2 DEF TypeInv
<1>4. TypeInv'
  BY <1>1, <1>2, <1>3 DEF TypeInv
<1>5. PostedIsReceived'
  <2> SUFFICES ASSUME NEW q \in Procs, posted'[q]
               PROVE  File(q) \in Files => received'[File(q)] > 0
    BY <1>1 DEF PostedIsReceived, File
  <2>1. CASE q = p
    BY <1>3, <2>1
  <2>2. CASE q # p
    <3>1. posted[q]
      BY <1>2, <2>2 DEF TypeInv
    <3> QED
      BY <1>3, <3>1 DEF PostedIsReceived, TypeInv
  <2> QED
    BY <2>1, <2>2
<1>6. PostedIsBusy'
  BY <1>1, <1>2 DEF PostedIsBusy, TypeInv, Accepted, Posting
<1>7. \A f \in Files : Kept(f) => Kept(f)'
  BY <1>1, <1>3 DEF Kept, TypeInv
<1> QED
  BY <1>1, <1>4, <1>5, <1>6, <1>7, LoopOK

\* A failure at most moves a file from $WORK to the outbox.
LEMMA FailureOK ==
  ASSUME IInv, NEW p \in Procs, Failed(p) \/ AnswerLost(p) PROVE IInv'
<1> USE DEF IInv
<1>1. UNCHANGED << session, gameLog, mine, snaps, bundle, pc, posted, discarded, unsaved, dir >>
  BY DEF Failed, AnswerLost, Posting
<1>2. ~posted[p] /\ GiveUp(p)
  BY DEF Failed, AnswerLost, Posting
<1>3. /\ received' \in [Files -> Nat]
      /\ \A f \in Files : received'[f] >= received[f]
  BY DEF Failed, AnswerLost, Accepts, TypeInv
<1>4. /\ todo' = [q \in Procs |-> todo'[q]]
      /\ \A q \in Procs : q # p => todo'[q] = todo[q]
  BY <1>2 DEF GiveUp, TypeInv
<1>5. TypeInv'
  BY <1>1, <1>3, <1>4 DEF TypeInv
<1>6. PostedIsReceived'
  <2> SUFFICES ASSUME NEW q \in Procs, posted[q]
               PROVE  File(q)' \in Files => received'[File(q)'] > 0
    BY <1>1 DEF PostedIsReceived
  <2>1. File(q)' = File(q)
    BY <1>2, <1>4 DEF File
  <2> QED
    BY <1>3, <2>1 DEF PostedIsReceived, TypeInv
<1>7. work \cup outbox \subseteq work' \cup outbox'
  BY <1>2 DEF GiveUp
<1>8. \A f \in Files : Kept(f) => Kept(f)'
  BY <1>3, <1>7 DEF Kept, TypeInv
<1>9. PostedIsBusy'
  BY <1>1, <1>2, <1>4 DEF PostedIsBusy
<1> QED
  BY <1>1, <1>5, <1>6, <1>8, <1>9, LoopOK

\* What is removed has been received.
LEMMA RemoveOK == ASSUME IInv, NEW p \in Procs, Remove(p) PROVE IInv'
<1> USE DEF IInv
<1>1. UNCHANGED << session, gameLog, mine, snaps, bundle, pc, received, discarded, unsaved, dir >>
  BY DEF Remove, history
<1>2. /\ posted[p] /\ posted' = [posted EXCEPT ![p] = FALSE]
      /\ todo' = [todo EXCEPT ![p] = @ \ {File(p)}]
  BY DEF Remove
<1>3. TypeInv'
  BY <1>1, <1>2 DEF TypeInv
<1>4. \A q \in Procs : posted'[q] => posted[q] /\ File(q)' = File(q) /\ todo'[q] = todo[q]
  BY <1>2 DEF File, TypeInv
<1>5. PostedIsReceived' /\ PostedIsBusy'
  BY <1>1, <1>4 DEF PostedIsReceived, PostedIsBusy
<1>6. \A f \in Files : Kept(f) => Kept(f)'
  <2> SUFFICES ASSUME NEW f \in Files, Kept(f) PROVE Kept(f)'
    OBVIOUS
  <2>1. CASE f = File(p)
    BY <1>1, <1>2, <2>1 DEF Kept, PostedIsReceived
  <2>2. CASE f # File(p)
    BY <1>1, <2>2 DEF Kept, Remove
  <2> QED
    BY <2>1, <2>2
<1> QED
  BY <1>1, <1>3, <1>5, <1>6, LoopOK

LEMMA FlushEndOK == ASSUME IInv, NEW p \in Procs, FlushEnd(p) PROVE IInv'
<1> USE DEF IInv
<1>1. UNCHANGED << session, gameLog, mine, snaps, bundle, work, outbox, todo,
                   posted, received, discarded, unsaved, dir >>
  BY DEF FlushEnd, disk, history
<1>2. pc[p] = "flush" /\ pc' = [pc EXCEPT ![p] = IF p = "host" THEN "off" ELSE "launch"]
  BY DEF FlushEnd
<1>3. TypeInv'
  BY <1>1, <1>2 DEF TypeInv, Stages
<1>4. PostedIsReceived' /\ PostedIsBusy'
  <2>1. \A q \in Procs : posted[q] => pc'[q] = pc[q]
    BY <1>2 DEF FlushEnd, PostedIsBusy, TypeInv
  <2>2. \A q \in Procs : File(q)' = File(q)
    BY <1>1 DEF File
  <2> QED
    BY <1>1, <2>1, <2>2 DEF PostedIsReceived, PostedIsBusy
<1>5. \A f \in Files : Kept(f) => Kept(f)'
  BY <1>1 DEF Kept
<1> QED
  BY <1>1, <1>2, <1>3, <1>4, <1>5, LoopOK

-----------------------------------------------------------------------------
\* The steps that touch snapshots, the log or bundles.

LEMMA LaunchOK == ASSUME IInv, Launch PROVE IInv'
<1> USE DEF IInv
<1>1. /\ session < MaxSessions /\ snaps' = snaps \cup ({mine'} \ {0})
      /\ mine' \in {0, gameLog} /\ (dir' = "none" => mine' = 0)
      /\ \/ mine' = gameLog /\ unsaved' = unsaved \ {gameLog}
         \/ unsaved' = unsaved \cup ({gameLog} \ {0})
      /\ todo' = [todo EXCEPT !["wrapper"] = Glob] /\ pc' = [pc EXCEPT !["wrapper"] = "flush"]
      /\ UNCHANGED << session, gameLog, bundle, work, outbox, posted, received, discarded >>
  BY DEF Launch, history
<1>2. "wrapper" \in Procs /\ pc'["wrapper"] = "flush"
  BY <1>1 DEF Procs, TypeInv
<1>3. TypeInv'
  <2>1. mine' \in Nat
    BY <1>1 DEF TypeInv
  <2>2. pc' \in [Procs -> Stages] /\ todo' = [q \in Procs |-> todo'[q]]
    BY <1>1 DEF TypeInv, Stages
  <2> QED
    BY <1>1, <2>1, <2>2 DEF TypeInv
<1>4. PostedIsReceived' /\ PostedIsBusy'
  <2>1. ~posted["wrapper"]
    BY <1>2 DEF Launch, PostedIsBusy
  <2>2. \A q \in Procs : posted[q] => pc'[q] = pc[q] /\ todo'[q] = todo[q] /\ File(q)' = File(q)
    BY <1>1, <2>1 DEF File, TypeInv
  <2> QED
    BY <1>1, <2>2 DEF PostedIsReceived, PostedIsBusy
<1>5. LogIsSaved' /\ NoneSaved' /\ BundleIsNew' /\ SnapshotIsBundled'
  BY <1>1, <1>2 DEF LogIsSaved, NoneSaved, BundleIsNew, SnapshotIsBundled
<1>6. LogSurvives'
  BY <1>1 DEF LogSurvives, Survives, Kept
<1> QED
  BY <1>3, <1>4, <1>5, <1>6

LEMMA HostStartOK == ASSUME IInv, HostStart PROVE IInv'
<1> USE DEF IInv
<1>1. /\ todo' = [todo EXCEPT !["host"] = Glob] /\ pc' = [pc EXCEPT !["host"] = "flush"]
      /\ UNCHANGED << session, gameLog, mine, snaps, bundle, work, outbox, posted,
                      received, discarded, unsaved, dir >>
  BY DEF HostStart, disk, history
<1>2. pc'["wrapper"] = pc["wrapper"]
  BY <1>1 DEF Procs, TypeInv
<1>3. TypeInv'
  BY <1>1 DEF TypeInv, Stages
<1>4. PostedIsReceived' /\ PostedIsBusy'
  <2>1. ~posted["host"]
    BY DEF HostStart, PostedIsBusy, Procs
  <2>2. \A q \in Procs : posted[q] => pc'[q] = pc[q] /\ todo'[q] = todo[q] /\ File(q)' = File(q)
    BY <1>1, <2>1 DEF File, TypeInv
  <2> QED
    BY <1>1, <2>2 DEF PostedIsReceived, PostedIsBusy
<1>5. LogIsSaved' /\ NoneSaved' /\ BundleIsNew' /\ SnapshotIsBundled' /\ LogSurvives'
  BY <1>1, <1>2 DEF LogIsSaved, NoneSaved, BundleIsNew, SnapshotIsBundled, LogSurvives, Survives, InBundle, Kept
<1> QED
  BY <1>3, <1>4, <1>5

\* Before the game truncates its log the snapshot has it.
LEMMA GameStartsOK == ASSUME IInv, GameStarts PROVE IInv'
<1> USE DEF IInv
<1>1. /\ pc["wrapper"] = "launch" /\ pc' = [pc EXCEPT !["wrapper"] = "game"]
      /\ session' = session + 1 /\ gameLog' = session + 1
      /\ UNCHANGED << mine, snaps, bundle, work, outbox, todo, posted, received, discarded, unsaved, dir >>
  BY DEF GameStarts, history
<1>2. "wrapper" \in Procs /\ pc'["wrapper"] = "game"
  BY <1>1 DEF Procs, TypeInv
<1>3. TypeInv'
  <2>1. session' \in Nat /\ gameLog' \in Nat
    BY <1>1 DEF TypeInv
  <2>2. pc' \in [Procs -> Stages]
    BY <1>1 DEF TypeInv, Stages
  <2> QED
    BY <1>1, <2>1, <2>2 DEF TypeInv
<1>4. PostedIsReceived' /\ PostedIsBusy'
  <2>1. \A q \in Procs : posted[q] => pc'[q] = pc[q]
    BY <1>1 DEF PostedIsBusy, TypeInv
  <2>2. \A q \in Procs : File(q)' = File(q)
    BY <1>1 DEF File
  <2> QED
    BY <1>1, <2>1, <2>2 DEF PostedIsReceived, PostedIsBusy
<1>5. LogIsSaved' /\ NoneSaved' /\ SnapshotIsBundled'
  BY <1>1, <1>2 DEF LogIsSaved, NoneSaved, SnapshotIsBundled
<1>6. BundleIsNew'
  <2>1. session < MaxSessions
    BY <1>1 DEF LogIsSaved
  <2>2. session' \in Sessions /\ session' > session /\ session' \in 0 .. MaxSessions
    BY <1>1, <2>1 DEF BundleIsNew, TypeInv, Sessions
  <2>3. \A b \in Sessions : b > session => bundle'[b].logs = {}
    BY <1>1 DEF BundleIsNew
  <2>4. \A b \in Sessions : b > session' => bundle'[b].logs = {}
    BY <1>1, <2>3, SMTT(30) DEF TypeInv, Sessions
  <2> QED
    BY <1>1, <2>2, <2>3, <2>4 DEF BundleIsNew, TypeInv
<1>7. LogSurvives'
  <2> SUFFICES ASSUME NEW s \in 1 .. session + 1, s # session + 1,
                      s \notin snaps \cup discarded \cup unsaved
               PROVE  InBundle(s)'
    BY <1>1 DEF LogSurvives, Survives, InBundle
  <2>1. s \in 1 .. session /\ s # gameLog
    BY <1>1 DEF LogIsSaved, TypeInv
  <2>2. InBundle(s)
    BY <2>1 DEF LogSurvives, Survives, InBundle
  <2> QED
    BY <1>1, <2>2 DEF InBundle, Kept
<1> QED
  BY <1>3, <1>4, <1>5, <1>6, <1>7

\* The bundle has both logs, and all its files.
LEMMA BundleOK == ASSUME IInv, Bundle PROVE IInv'
<1> USE DEF IInv
<1>1. PICK parts \in {{0}} \cup {1 .. n : n \in 2 .. MaxParts} :
        /\ work' = work \cup ({session} \X parts)
        /\ todo' = [todo EXCEPT !["wrapper"] = {session} \X parts]
        /\ bundle' = [bundle EXCEPT ![session] =
                        [logs |-> {IF dir = "right" THEN session ELSE 0, mine} \ {0},
                         files |-> {session} \X parts]]
  BY DEF Bundle
<1>2. /\ pc["wrapper"] = "game" /\ pc' = [pc EXCEPT !["wrapper"] = "send"]
      /\ UNCHANGED << session, gameLog, mine, snaps, outbox, posted, received, discarded, unsaved, dir >>
  BY DEF Bundle, history
<1>3. "wrapper" \in Procs /\ pc'["wrapper"] = "send"
  BY <1>2 DEF Procs, TypeInv
<1>4. session \in Sessions /\ gameLog = session /\ bundle[session].logs = {}
  BY <1>2 DEF BundleIsNew, Sessions
<1>5. {session} \X parts \subseteq Files
  BY <1>4 DEF Files
<1>6. TypeInv'
  BY <1>1, <1>2, <1>4, <1>5 DEF TypeInv, Stages
<1>7. PostedIsReceived' /\ PostedIsBusy'
  <2>1. ~posted["wrapper"]
    BY <1>2, <1>3 DEF PostedIsBusy
  <2>2. \A q \in Procs : posted[q] => pc'[q] = pc[q] /\ todo'[q] = todo[q] /\ File(q)' = File(q)
    BY <1>1, <1>2, <2>1 DEF File, TypeInv
  <2> QED
    BY <1>2, <2>2 DEF PostedIsReceived, PostedIsBusy
<1>8. /\ bundle'[session] = [logs |-> {IF dir = "right" THEN session ELSE 0, mine} \ {0},
                             files |-> {session} \X parts]
      /\ \A b \in Sessions : b # session => bundle'[b] = bundle[b]
  BY <1>1, <1>4 DEF TypeInv
<1>9. mine # 0 => InBundle(mine)'
  <2>1. mine' = mine
    BY <1>2
  <2>2. mine # 0 => mine \in bundle'[session].logs
    BY <1>8
  <2>3. \A f \in bundle'[session].files : Kept(f)'
    BY <1>1, <1>8 DEF Kept
  <2> QED
    BY <1>4, <2>1, <2>2, <2>3 DEF InBundle
<1>10. \A s : InBundle(s) => InBundle(s)'
  BY <1>1, <1>2, <1>4, <1>8 DEF InBundle, Kept
<1>11. LogIsSaved' /\ NoneSaved' /\ SnapshotIsBundled'
  BY <1>2, <1>3, <1>9 DEF LogIsSaved, NoneSaved, SnapshotIsBundled, InBundle
<1>12. BundleIsNew'
  BY <1>2, <1>3, <1>4, <1>8 DEF BundleIsNew, Sessions
<1>13. LogSurvives'
  <2> SUFFICES ASSUME NEW s \in 1 .. session, s \notin {gameLog} \cup snaps \cup discarded \cup unsaved
               PROVE  InBundle(s)'
    BY <1>2 DEF LogSurvives, Survives, InBundle
  <2>1. InBundle(s)
    BY DEF LogSurvives, Survives, InBundle
  <2> QED
    BY <1>10, <2>1
<1> QED
  BY <1>6, <1>7, <1>11, <1>12, <1>13

\* A bundle that is not made leaves the snapshot to be discarded.
LEMMA BundleSkippedOK == ASSUME IInv, BundleSkipped PROVE IInv'
<1> USE DEF IInv
<1>1. /\ pc["wrapper"] = "game" /\ pc' = [pc EXCEPT !["wrapper"] = "send"]
      /\ discarded' = discarded \cup ({mine} \ {0})
      /\ UNCHANGED << session, gameLog, mine, snaps, bundle, work, outbox, todo, posted, received,
                      unsaved, dir >>
  BY DEF BundleSkipped, disk
<1>2. "wrapper" \in Procs /\ pc'["wrapper"] = "send"
  BY <1>1 DEF Procs, TypeInv
<1>3. TypeInv'
  <2>1. pc' \in [Procs -> Stages]
    BY <1>1 DEF TypeInv, Stages
  <2> QED
    BY <1>1, <2>1 DEF TypeInv
<1>4. PostedIsReceived' /\ PostedIsBusy'
  <2>1. \A q \in Procs : posted[q] => pc'[q] = pc[q]
    BY <1>1 DEF PostedIsBusy, TypeInv
  <2>2. \A q \in Procs : File(q)' = File(q)
    BY <1>1 DEF File
  <2> QED
    BY <1>1, <2>1, <2>2 DEF PostedIsReceived, PostedIsBusy
<1>5. LogIsSaved' /\ NoneSaved' /\ BundleIsNew' /\ SnapshotIsBundled'
  BY <1>1, <1>2 DEF LogIsSaved, NoneSaved, BundleIsNew, SnapshotIsBundled
<1>6. LogSurvives'
  <2>1. \A f : Kept(f)' = Kept(f)
    BY <1>1 DEF Kept
  <2> QED
    BY <1>1, <2>1 DEF LogSurvives, Survives
<1> QED
  BY <1>3, <1>4, <1>5, <1>6

\* Without a directory there is nothing to bundle and no snapshot to lose.
LEMMA NoBundleOK == ASSUME IInv, NoBundle PROVE IInv'
<1> USE DEF IInv
<1>1. /\ pc["wrapper"] = "game" /\ pc' = [pc EXCEPT !["wrapper"] = "send"] /\ mine = 0
      /\ UNCHANGED << session, gameLog, mine, snaps, bundle, work, outbox, todo, posted, received,
                      discarded, unsaved, dir >>
  BY DEF NoBundle, NoneSaved, disk, history
<1>2. "wrapper" \in Procs /\ pc'["wrapper"] = "send"
  BY <1>1 DEF Procs, TypeInv
<1>3. TypeInv'
  <2>1. pc' \in [Procs -> Stages]
    BY <1>1 DEF TypeInv, Stages
  <2> QED
    BY <1>1, <2>1 DEF TypeInv
<1>4. PostedIsReceived' /\ PostedIsBusy'
  <2>1. \A q \in Procs : posted[q] => pc'[q] = pc[q]
    BY <1>1 DEF PostedIsBusy, TypeInv
  <2>2. \A q \in Procs : File(q)' = File(q)
    BY <1>1 DEF File
  <2> QED
    BY <1>1, <2>1, <2>2 DEF PostedIsReceived, PostedIsBusy
<1>5. LogIsSaved' /\ NoneSaved' /\ BundleIsNew' /\ SnapshotIsBundled'
  BY <1>1, <1>2 DEF LogIsSaved, NoneSaved, BundleIsNew, SnapshotIsBundled
<1>6. LogSurvives'
  <2>1. \A f : Kept(f)' = Kept(f)
    BY <1>1 DEF Kept
  <2> QED
    BY <1>1, <2>1 DEF LogSurvives, Survives
<1> QED
  BY <1>3, <1>4, <1>5, <1>6

\* The snapshot goes when its log is in the bundle.
LEMMA SendEndOK == ASSUME IInv, SendEnd PROVE IInv'
<1> USE DEF IInv
<1>1. /\ pc["wrapper"] = "send" /\ pc' = [pc EXCEPT !["wrapper"] = "off"]
      /\ todo["wrapper"] = {} /\ snaps' = snaps \ {mine} /\ mine' = 0
      /\ UNCHANGED << session, gameLog, bundle, work, outbox, todo, posted, received, discarded, unsaved >>
  BY DEF SendEnd, history
<1>2. "wrapper" \in Procs /\ pc'["wrapper"] = "off"
  BY <1>1 DEF Procs, TypeInv
<1>3. TypeInv'
  <2>1. pc' \in [Procs -> Stages]
    BY <1>1 DEF TypeInv, Stages
  <2> QED
    BY <1>1, <2>1 DEF TypeInv
<1>4. PostedIsReceived' /\ PostedIsBusy'
  <2>1. \A q \in Procs : posted[q] => pc'[q] = pc[q]
    BY <1>1 DEF PostedIsBusy, TypeInv
  <2>2. \A q \in Procs : File(q)' = File(q)
    BY <1>1 DEF File
  <2> QED
    BY <1>1, <2>1, <2>2 DEF PostedIsReceived, PostedIsBusy
<1>5. LogIsSaved' /\ NoneSaved' /\ BundleIsNew' /\ SnapshotIsBundled'
  BY <1>1, <1>2 DEF LogIsSaved, NoneSaved, BundleIsNew, SnapshotIsBundled
<1>6. \A s : InBundle(s) <=> InBundle(s)'
  BY <1>1 DEF InBundle, Kept
<1>7. LogSurvives'
  <2> SUFFICES ASSUME NEW s \in 1 .. session,
                      s \notin {gameLog} \cup (snaps \ {mine}) \cup discarded \cup unsaved
               PROVE  InBundle(s)'
    BY <1>1 DEF LogSurvives, Survives, InBundle
  <2>1. InBundle(s)
    BY <1>1 DEF LogSurvives, Survives, SnapshotIsBundled, InBundle
  <2> QED
    BY <1>6, <2>1
<1> QED
  BY <1>3, <1>4, <1>5, <1>7

\* Whatever dies, the disk stays.
LEMMA KillOK == ASSUME IInv, NEW p \in Procs, Kill(p) PROVE IInv'
<1> USE DEF IInv
<1>1. /\ pc' = [pc EXCEPT ![p] = "off"] /\ todo' = [todo EXCEPT ![p] = {}]
      /\ posted' = [posted EXCEPT ![p] = FALSE]
      /\ mine' = IF p = "wrapper" THEN 0 ELSE mine
      /\ dir' = IF p = "wrapper" THEN "none" ELSE dir
      /\ UNCHANGED << session, gameLog, snaps, bundle, work, outbox, received, discarded, unsaved >>
  BY DEF Kill, disk
<1>2. "wrapper" \in Procs
  BY DEF Procs
<1>3. \/ pc'["wrapper"] = "off" /\ mine' = 0
      \/ pc'["wrapper"] = pc["wrapper"] /\ mine' = mine
  BY <1>1, <1>2 DEF TypeInv
<1>4. TypeInv'
  <2>1. pc' \in [Procs -> Stages] /\ posted' \in [Procs -> BOOLEAN] /\ mine' \in Nat
    BY <1>1 DEF TypeInv, Stages
  <2>2. todo' = [q \in Procs |-> todo'[q]]
    BY <1>1 DEF TypeInv
  <2> QED
    BY <1>1, <2>1, <2>2 DEF TypeInv
<1>5. PostedIsReceived' /\ PostedIsBusy'
  <2>1. \A q \in Procs : posted'[q] =>
          posted[q] /\ pc'[q] = pc[q] /\ todo'[q] = todo[q] /\ File(q)' = File(q)
    BY <1>1 DEF File, TypeInv
  <2> QED
    BY <1>1, <2>1 DEF PostedIsReceived, PostedIsBusy
<1>6. \A s : InBundle(s) <=> InBundle(s)'
  BY <1>1 DEF InBundle, Kept
<1>7. LogIsSaved' /\ NoneSaved' /\ BundleIsNew'
  BY <1>1, <1>2, <1>3 DEF LogIsSaved, NoneSaved, BundleIsNew
<1>8. SnapshotIsBundled'
  <2>1. mine \in {0} \cup discarded \/ InBundle(mine) \/ pc'["wrapper"] # "send"
    BY <1>3 DEF SnapshotIsBundled
  <2> QED
    BY <1>1, <1>3, <1>6, <2>1 DEF SnapshotIsBundled, InBundle, Kept
<1>9. LogSurvives'
  <2>1. \A f : Kept(f)' = Kept(f)
    BY <1>1 DEF Kept
  <2> QED
    BY <1>1, <2>1 DEF LogSurvives, Survives
<1> QED
  BY <1>4, <1>5, <1>7, <1>8, <1>9

LEMMA StutterOK == IInv /\ UNCHANGED vars => IInv'
<1> SUFFICES ASSUME IInv, UNCHANGED vars PROVE IInv'
  OBVIOUS
<1> USE DEF IInv, vars, disk, history
<1>1. TypeInv' /\ PostedIsBusy' /\ LogIsSaved' /\ NoneSaved' /\ BundleIsNew'
  BY DEF TypeInv, PostedIsBusy, LogIsSaved, NoneSaved, BundleIsNew
<1>2. PostedIsReceived'
  BY DEF PostedIsReceived, File
<1>3. \A s : InBundle(s) <=> InBundle(s)'
  BY DEF InBundle, Kept
<1>4. \A f : Kept(f)' = Kept(f)
  BY DEF Kept
<1>5. SnapshotIsBundled'
  BY <1>4 DEF SnapshotIsBundled, InBundle
<1>6. LogSurvives'
  BY <1>4 DEF LogSurvives, Survives
<1> QED
  BY <1>1, <1>2, <1>5, <1>6

-----------------------------------------------------------------------------
LEMMA StepOK == IInv /\ [Next]_vars => IInv'
<1> SUFFICES ASSUME IInv, [Next]_vars PROVE IInv'
  OBVIOUS
<1>1. CASE Launch
  BY <1>1, LaunchOK
<1>2. CASE GameStarts
  BY <1>2, GameStartsOK
<1>3. CASE Bundle
  BY <1>3, BundleOK
<1>4. CASE BundleSkipped \/ NoBundle
  BY <1>4, BundleSkippedOK, NoBundleOK
<1>5. CASE SendEnd
  BY <1>5, SendEndOK
<1>6. CASE HostStart
  BY <1>6, HostStartOK
<1>7. ASSUME NEW p \in Procs, Step(p) PROVE IInv'
  <2> USE <1>7
  <2>1. CASE Skip(p)
    BY <2>1, SkipOK
  <2>2. CASE Accepted(p)
    BY <2>2, AcceptedOK
  <2>3. CASE Failed(p) \/ AnswerLost(p)
    BY <2>3, FailureOK
  <2>4. CASE Remove(p)
    BY <2>4, RemoveOK
  <2>5. CASE FlushEnd(p)
    BY <2>5, FlushEndOK
  <2> QED
    BY <2>1, <2>2, <2>3, <2>4, <2>5 DEF Step
<1>8. ASSUME NEW p \in Procs, Kill(p) PROVE IInv'
  BY <1>8, KillOK
<1>9. CASE UNCHANGED vars
  BY <1>9, StutterOK
<1> QED
  BY <1>1, <1>2, <1>3, <1>4, <1>5, <1>6, <1>7, <1>8, <1>9 DEF Next

\* The log of a session is in place, in a snapshot or in a bundle that is kept, whatever
\* is launched, killed, lost or refused ("game 1's log survives game 2 starting",
\* bz_wrap.sh:19), for the host's drain and the wrapper together, but for the logs of
\* menu-only sessions the user discards and those the last launch could not save.
THEOREM LogsSurvive == Spec => []LogSurvives
<1>1. Init => IInv
  BY InitOK
<1>2. IInv /\ [Next]_vars => IInv'
  BY StepOK
<1>3. IInv => LogSurvives
  BY DEF IInv
<1> QED
  BY <1>1, <1>2, <1>3, PTL DEF Spec

-----------------------------------------------------------------------------
(* Sent twice only by a fault *)

\* Only the process that has something to post with posts: one of the two.
Poster == IF env = "snap" THEN "host" ELSE "wrapper"
SolePoster == \A p \in Procs : posted[p] => p = Poster
HostFlushes == pc["host"] = "off" \/ (pc["host"] = "flush" /\ env = "snap")

\* What the loop over the outbox has posted stays there until it is removed.
PostedIsParked == \A p \in Procs : posted[p] /\ pc[p] = "flush" => File(p) \in outbox

\* What the wrapper has still to send: a bundle, or the last of its parts.
IsRun(files) ==
  \E k, n \in 0 .. MaxParts :
    k <= n /\ (k = 0 => n = 0) /\ files = {session} \X (k .. n)
SendingIsRun ==
  pc["wrapper"] = "send" /\ todo["wrapper"] # {} => session \in Sessions /\ IsRun(todo["wrapper"])
IdleIsEmpty == pc["wrapper"] \in {"off", "launch", "game"} => todo["wrapper"] = {}

\* What is parked is of a session that has been bundled, and is not being sent as new.
ParkedIsOld ==
  /\ outbox \subseteq Files
  /\ \A f \in outbox : f[1] <= session /\ (pc["wrapper"] = "game" => f[1] < session)
  /\ pc["wrapper"] = "send" => outbox \cap todo["wrapper"] = {}

\* A file that can still be posted: parked, being sent, or yet to be bundled.
Pending(f) ==
  \/ f \in outbox
  \/ pc["wrapper"] = "send" /\ f \in todo["wrapper"]
  \/ f[1] > session
  \/ pc["wrapper"] = "game" /\ f[1] = session
Posted(f) == \E p \in Procs : posted[p] /\ File(p) = f

\* The server owes no explanation for it: every acceptance so far was a fault.
PendingIsUnpaid == \A f \in Files : Pending(f) /\ ~Posted(f) => received[f] <= faults[f]

OnceInv ==
  /\ env \in {"native", "snap"} /\ faults \in [Files -> Nat]
  /\ SolePoster /\ HostFlushes /\ PostedIsParked
  /\ SendingIsRun /\ IdleIsEmpty /\ ParkedIsOld /\ PendingIsUnpaid
  /\ TwiceOnlyByFault

-----------------------------------------------------------------------------
LEMMA OnceInit == Init => OnceInv
<1> SUFFICES ASSUME Init PROVE OnceInv
  OBVIOUS
<1>1. /\ env \in {"native", "snap"} /\ faults \in [Files -> Nat]
      /\ received = [f \in Files |-> 0] /\ faults = [f \in Files |-> 0]
      /\ outbox = {} /\ session = 0
      /\ \A p \in Procs : pc[p] = "off" /\ todo[p] = {} /\ ~posted[p]
      /\ "wrapper" \in Procs /\ "host" \in Procs
  BY DEF Init, Procs
<1>2. /\ SolePoster /\ HostFlushes /\ PostedIsParked
      /\ SendingIsRun /\ IdleIsEmpty /\ ParkedIsOld
  BY <1>1 DEF SolePoster, HostFlushes, PostedIsParked, SendingIsRun, IdleIsEmpty, ParkedIsOld
<1>3. PendingIsUnpaid /\ TwiceOnlyByFault
  BY <1>1 DEF PendingIsUnpaid, TwiceOnlyByFault
<1> QED
  BY <1>1, <1>2, <1>3 DEF OnceInv

\* What is sent next is the first of what is left, and leaves the rest in a row.
LEMMA SendingFirst ==
  ASSUME IInv, OnceInv, pc["wrapper"] = "send", todo["wrapper"] # {}
  PROVE  LET f == File("wrapper")
             rest == todo["wrapper"] \ {f}
         IN  /\ f \in todo["wrapper"] /\ f \in Files /\ f[1] = session
             /\ rest # {} => IsRun(rest)
<1>1. PICK k \in 0 .. MaxParts, n \in 0 .. MaxParts :
        k <= n /\ (k = 0 => n = 0) /\ todo["wrapper"] = {session} \X (k .. n)
  BY DEF OnceInv, SendingIsRun, IsRun
<1> DEFINE first == << session, k >>
<1>2. session \in Nat /\ session \in Sessions
  BY DEF OnceInv, SendingIsRun, Sessions
<1>3. first \in todo["wrapper"] /\ first \in Files
  BY <1>1, <1>2 DEF Files
<1>4. \A g \in todo["wrapper"] \ {first} : Before(first, g) /\ ~Before(g, first)
  <2> SUFFICES ASSUME NEW j \in k .. n, j # k
               PROVE  Before(first, << session, j >>) /\ ~Before(<< session, j >>, first)
    BY <1>1
  <2>1. k > 0 /\ k < j /\ k \in Nat /\ j \in Nat
    BY <1>1
  <2> QED
    BY <1>2, <2>1 DEF Before
<1>5. File("wrapper") = first
  BY <1>3, <1>4 DEF File
<1>6. ASSUME todo["wrapper"] \ {first} # {}
      PROVE  todo["wrapper"] \ {first} = {session} \X (k + 1 .. n) /\ k + 1 <= n /\ k > 0
  <2>1. PICK j \in k .. n : j # k
    BY <1>1, <1>6
  <2>2. k + 1 <= n /\ k > 0
    BY <1>1, <2>1
  <2>3. \A i : i \in (k .. n) \ {k} <=> i \in k + 1 .. n
    BY <1>1
  <2> QED
    BY <1>1, <2>2, <2>3
<1>7. todo["wrapper"] \ {first} # {} => IsRun(todo["wrapper"] \ {first})
  <2> SUFFICES ASSUME todo["wrapper"] \ {first} # {}
               PROVE  IsRun(todo["wrapper"] \ {first})
    OBVIOUS
  <2>1. k + 1 \in 0 .. MaxParts
    BY <1>6
  <2> QED
    BY <1>6, <2>1 DEF IsRun
<1> QED
  BY <1>2, <1>3, <1>5, <1>7

\* Who has posted and what stays so while no loop that has posted goes on.
LEMMA PostedStays ==
  ASSUME UNCHANGED posted, \A q \in Procs : posted[q] => todo'[q] = todo[q]
  PROVE  \A f : Posted(f)' <=> Posted(f)
BY DEF Posted, File

\* A step in which nothing is received.
LEMMA UnpaidStays ==
  ASSUME OnceInv, UNCHANGED << received, faults >>,
         \A f \in Files : Pending(f)' /\ ~Posted(f)' => Pending(f) /\ ~Posted(f)
  PROVE  faults' \in [Files -> Nat] /\ PendingIsUnpaid' /\ TwiceOnlyByFault'
BY DEF OnceInv, PendingIsUnpaid, TwiceOnlyByFault

\* A step in which a loop that has not posted goes on, or ends.
LEMMA QuietOK ==
  ASSUME IInv, OnceInv, UNCHANGED << env, outbox, posted, received, faults >>,
         \A q \in Procs : posted[q] => todo'[q] = todo[q] /\ pc'[q] = pc[q],
         HostFlushes', SendingIsRun', IdleIsEmpty', ParkedIsOld',
         \A f \in Files : Pending(f)' => Pending(f)
  PROVE  OnceInv'
<1>1. SolePoster' /\ env' \in {"native", "snap"}
  BY DEF OnceInv, SolePoster, Poster
<1>2. \A f : Posted(f)' <=> Posted(f)
  BY PostedStays
<1>3. PostedIsParked'
  BY DEF OnceInv, PostedIsParked, File
<1> QED
  BY <1>1, <1>2, <1>3, UnpaidStays DEF OnceInv

LEMMA OnceLaunch == ASSUME IInv, OnceInv, Launch PROVE OnceInv'
<1>1. /\ pc["wrapper"] = "off" /\ pc' = [pc EXCEPT !["wrapper"] = "flush"]
      /\ todo' = [todo EXCEPT !["wrapper"] = Glob]
      /\ UNCHANGED << env, session, outbox, posted, received, faults >>
  BY DEF Launch, history
<1>2. /\ pc'["wrapper"] = "flush" /\ pc'["host"] = pc["host"]
      /\ ~posted["wrapper"] /\ \A q \in Procs : q # "wrapper" => todo'[q] = todo[q]
  BY <1>1 DEF Procs, IInv, TypeInv, PostedIsBusy
<1>3. SendingIsRun' /\ IdleIsEmpty' /\ ParkedIsOld'
  BY <1>1, <1>2 DEF OnceInv, SendingIsRun, IdleIsEmpty, ParkedIsOld
<1>4. \A f \in Files : Pending(f)' => Pending(f)
  BY <1>1, <1>2 DEF Pending
<1>5. HostFlushes'
  BY <1>1, <1>2 DEF OnceInv, HostFlushes
<1>6. \A q \in Procs : q # "wrapper" => pc'[q] = pc[q]
  BY <1>2 DEF Procs
<1> QED
  BY <1>1, <1>2, <1>3, <1>4, <1>5, <1>6, QuietOK

LEMMA OnceHostStart == ASSUME IInv, OnceInv, HostStart PROVE OnceInv'
<1>1. /\ env = "snap" /\ pc["host"] = "off" /\ pc' = [pc EXCEPT !["host"] = "flush"]
      /\ todo' = [todo EXCEPT !["host"] = Glob]
      /\ UNCHANGED << env, session, outbox, posted, received, faults >>
  BY DEF HostStart, history, disk
<1>2. /\ pc'["wrapper"] = pc["wrapper"] /\ todo'["wrapper"] = todo["wrapper"]
      /\ ~posted["host"] /\ \A q \in Procs : q # "host" => todo'[q] = todo[q]
  BY <1>1 DEF Procs, IInv, TypeInv, PostedIsBusy
<1>3. SendingIsRun' /\ IdleIsEmpty' /\ ParkedIsOld'
  BY <1>1, <1>2 DEF OnceInv, SendingIsRun, IsRun, IdleIsEmpty, ParkedIsOld
<1>4. \A f \in Files : Pending(f)' => Pending(f)
  BY <1>1, <1>2 DEF Pending
<1>5. HostFlushes' /\ \A q \in Procs : q # "host" => pc'[q] = pc[q]
  BY <1>1, <1>2 DEF HostFlushes, Procs, IInv, TypeInv
<1> QED
  BY <1>1, <1>2, <1>3, <1>4, <1>5, QuietOK

LEMMA OnceFlushEnd == ASSUME IInv, OnceInv, NEW p \in Procs, FlushEnd(p) PROVE OnceInv'
<1>1. /\ pc[p] = "flush" /\ todo[p] = {}
      /\ pc' = [pc EXCEPT ![p] = IF p = "host" THEN "off" ELSE "launch"]
      /\ UNCHANGED << env, session, outbox, todo, posted, received, faults >>
  BY DEF FlushEnd, history, disk
<1>2. /\ pc'["wrapper"] = pc["wrapper"]
           \/ (pc["wrapper"] = "flush" /\ pc'["wrapper"] = "launch" /\ todo["wrapper"] = {})
      /\ pc'["host"] = "off" \/ pc'["host"] = pc["host"]
  BY <1>1 DEF Procs, IInv, TypeInv
<1>3. SendingIsRun' /\ IdleIsEmpty' /\ ParkedIsOld'
  BY <1>1, <1>2 DEF OnceInv, SendingIsRun, IsRun, IdleIsEmpty, ParkedIsOld
<1>4. \A f \in Files : Pending(f)' => Pending(f)
  BY <1>1, <1>2 DEF Pending
<1>5. HostFlushes'
  BY <1>1, <1>2 DEF OnceInv, HostFlushes
<1>6. \A q \in Procs : posted[q] => pc'[q] = pc[q]
  BY <1>1 DEF IInv, TypeInv, PostedIsBusy
<1> QED
  BY <1>1, <1>3, <1>4, <1>5, <1>6, QuietOK

\* The wrapper's own steps outside its loops.
LEMMA WrapperPc ==
  ASSUME IInv, NEW x, pc' = [pc EXCEPT !["wrapper"] = x]
  PROVE  pc'["wrapper"] = x /\ pc'["host"] = pc["host"]
BY DEF IInv, TypeInv, Procs

LEMMA OnceGameStarts == ASSUME IInv, OnceInv, GameStarts PROVE OnceInv'
<1>1. /\ pc["wrapper"] = "launch" /\ pc' = [pc EXCEPT !["wrapper"] = "game"]
      /\ session' = session + 1 /\ session \in Nat
      /\ UNCHANGED << env, outbox, todo, posted, received, faults >>
  BY DEF GameStarts, history, IInv, TypeInv
<1>2. pc'["wrapper"] = "game" /\ pc'["host"] = pc["host"]
  BY <1>1, WrapperPc
<1>3. \A f \in Files : f[1] \in Nat
  BY DEF Files, Sessions
<1>4. SendingIsRun' /\ IdleIsEmpty'
  BY <1>1, <1>2 DEF OnceInv, SendingIsRun, IdleIsEmpty
<1>5. ParkedIsOld'
  BY <1>1, <1>2, <1>3 DEF OnceInv, ParkedIsOld
<1>6. \A f \in Files : Pending(f)' => Pending(f)
  BY <1>1, <1>2, <1>3 DEF Pending
<1>7. HostFlushes'
  BY <1>1, <1>2 DEF OnceInv, HostFlushes
<1>8. \A q \in Procs : posted[q] => pc'[q] = pc[q]
  BY <1>1, <1>2 DEF IInv, PostedIsBusy, Procs
<1> QED
  BY <1>1, <1>4, <1>5, <1>6, <1>7, <1>8, QuietOK

LEMMA OnceBundle == ASSUME IInv, OnceInv, Bundle PROVE OnceInv'
<1>1. PICK parts \in {{0}} \cup {1 .. n : n \in 2 .. MaxParts} :
        todo' = [todo EXCEPT !["wrapper"] = {session} \X parts]
  BY DEF Bundle
<1>2. /\ pc["wrapper"] = "game" /\ pc' = [pc EXCEPT !["wrapper"] = "send"]
      /\ UNCHANGED << env, session, outbox, posted, received, faults >>
  BY DEF Bundle, history
<1>3. pc'["wrapper"] = "send" /\ pc'["host"] = pc["host"]
  BY <1>2, WrapperPc
<1>4. /\ ~posted["wrapper"] /\ \A q \in Procs : q # "wrapper" => todo'[q] = todo[q]
      /\ todo'["wrapper"] = {session} \X parts
  BY <1>1, <1>2 DEF Procs, IInv, TypeInv, PostedIsBusy
<1>5. session \in Sessions
  BY <1>2 DEF IInv, BundleIsNew, Sessions
<1>6. IsRun({session} \X parts)
  <2>1. CASE parts = {0}
    <3>1. parts = 0 .. 0 /\ 0 \in 0 .. MaxParts
      BY <2>1
    <3> QED
      BY <3>1 DEF IsRun
  <2>2. ASSUME NEW n \in 2 .. MaxParts, parts = 1 .. n PROVE IsRun({session} \X parts)
    <3>1. 1 \in 0 .. MaxParts /\ n \in 0 .. MaxParts /\ 1 <= n
      BY <2>2
    <3> QED
      BY <2>2, <3>1 DEF IsRun
  <2> QED
    BY <2>1, <2>2
<1>7. SendingIsRun' /\ IdleIsEmpty'
  BY <1>2, <1>3, <1>4, <1>5, <1>6 DEF SendingIsRun, IdleIsEmpty, IsRun
<1>8. ParkedIsOld'
  <2>1. \A f \in outbox : f[1] < session
    BY <1>2 DEF OnceInv, ParkedIsOld
  <2>2. \A f \in {session} \X parts : f[1] = session
    OBVIOUS
  <2>3. outbox \cap ({session} \X parts) = {}
    BY <1>5, <2>1, <2>2 DEF Sessions
  <2> QED
    BY <1>2, <1>3, <1>4, <2>3 DEF OnceInv, ParkedIsOld
<1>9. \A f \in Files : Pending(f)' => Pending(f)
  BY <1>2, <1>3, <1>4 DEF Pending
<1>10. HostFlushes'
  BY <1>2, <1>3 DEF OnceInv, HostFlushes
<1>11. \A q \in Procs : posted[q] => pc'[q] = pc[q]
  BY <1>2, <1>3 DEF IInv, PostedIsBusy, Procs
<1> QED
  BY <1>2, <1>4, <1>7, <1>8, <1>9, <1>10, <1>11, QuietOK

LEMMA OnceBundleSkipped == ASSUME IInv, OnceInv, BundleSkipped \/ NoBundle PROVE OnceInv'
<1>1. /\ pc["wrapper"] = "game" /\ pc' = [pc EXCEPT !["wrapper"] = "send"]
      /\ UNCHANGED << env, session, outbox, todo, posted, received, faults >>
  BY DEF BundleSkipped, NoBundle, disk, history
<1>2. pc'["wrapper"] = "send" /\ pc'["host"] = pc["host"] /\ todo["wrapper"] = {}
  BY <1>1, WrapperPc DEF OnceInv, IdleIsEmpty
<1>3. SendingIsRun' /\ IdleIsEmpty' /\ ParkedIsOld'
  BY <1>1, <1>2 DEF OnceInv, SendingIsRun, IdleIsEmpty, ParkedIsOld
<1>4. \A f \in Files : Pending(f)' => Pending(f)
  BY <1>1, <1>2 DEF Pending
<1>5. HostFlushes'
  BY <1>1, <1>2 DEF OnceInv, HostFlushes
<1>6. \A q \in Procs : posted[q] => pc'[q] = pc[q]
  BY <1>1, <1>2 DEF IInv, PostedIsBusy, Procs
<1> QED
  BY <1>1, <1>3, <1>4, <1>5, <1>6, QuietOK

LEMMA OnceSendEnd == ASSUME IInv, OnceInv, SendEnd PROVE OnceInv'
<1>1. /\ pc["wrapper"] = "send" /\ pc' = [pc EXCEPT !["wrapper"] = "off"]
      /\ todo["wrapper"] = {}
      /\ UNCHANGED << env, session, outbox, todo, posted, received, faults >>
  BY DEF SendEnd, history
<1>2. pc'["wrapper"] = "off" /\ pc'["host"] = pc["host"]
  BY <1>1, WrapperPc
<1>3. SendingIsRun' /\ IdleIsEmpty' /\ ParkedIsOld'
  BY <1>1, <1>2 DEF OnceInv, SendingIsRun, IdleIsEmpty, ParkedIsOld
<1>4. \A f \in Files : Pending(f)' => Pending(f)
  BY <1>1, <1>2 DEF Pending
<1>5. HostFlushes'
  BY <1>1, <1>2 DEF OnceInv, HostFlushes
<1>6. \A q \in Procs : posted[q] => pc'[q] = pc[q]
  BY <1>1, <1>2 DEF IInv, PostedIsBusy, Procs
<1> QED
  BY <1>1, <1>3, <1>4, <1>5, <1>6, QuietOK

LEMMA OnceSkip == ASSUME IInv, OnceInv, NEW p \in Procs, Skip(p) PROVE OnceInv'
<1>1. /\ pc[p] = "flush" /\ ~posted[p] /\ todo' = [todo EXCEPT ![p] = @ \ {File(p)}]
      /\ UNCHANGED << env, session, outbox, pc, posted, received, faults >>
  BY DEF Skip, history, disk
<1>2. /\ \A q \in Procs : q # p => todo'[q] = todo[q]
      /\ pc["wrapper"] # "flush" => todo'["wrapper"] = todo["wrapper"]
  BY <1>1 DEF Procs, IInv, TypeInv
<1>3. SendingIsRun' /\ IdleIsEmpty' /\ ParkedIsOld'
  BY <1>1, <1>2 DEF OnceInv, SendingIsRun, IsRun, IdleIsEmpty, ParkedIsOld
<1>4. \A f \in Files : Pending(f)' => Pending(f)
  BY <1>1, <1>2 DEF Pending
<1>5. HostFlushes'
  BY <1>1 DEF OnceInv, HostFlushes
<1> QED
  BY <1>1, <1>2, <1>3, <1>4, <1>5, QuietOK

\* What a loop posts is pending, and nobody has posted it.
LEMMA PostedNow ==
  ASSUME IInv, OnceInv, NEW p \in Procs, Posting(p)
  PROVE  /\ ~posted[p]
         /\ pc[p] = "send" => p = "wrapper"
         /\ File(p) \in Files /\ Pending(File(p))
<1>1. ~posted[p] /\ todo[p] # {} /\ pc[p] \in {"flush", "send"}
        /\ (pc[p] = "flush" => File(p) \in outbox)
  BY DEF Posting
<1>2. CASE pc[p] = "flush"
  BY <1>1, <1>2 DEF Pending, OnceInv, ParkedIsOld
<1>3. CASE pc[p] = "send" /\ p = "wrapper"
  BY <1>1, <1>3, SendingFirst DEF Pending
<1>4. pc["host"] # "send"
  BY DEF OnceInv, HostFlushes
<1> QED
  BY <1>1, <1>2, <1>3, <1>4 DEF Procs

LEMMA OnceAccepted == ASSUME IInv, OnceInv, NEW p \in Procs, Accepted(p) PROVE OnceInv'
<1>0. PICK f : f = File(p)
  OBVIOUS
<1>1. /\ f = File(p)
      /\ Posting(p) /\ CanPost(p)
      /\ received' = [received EXCEPT ![f] = @ + 1] /\ posted' = [posted EXCEPT ![p] = TRUE]
      /\ UNCHANGED << env, session, outbox, todo, pc, faults >>
  BY <1>0 DEF Accepted, Accepts, Posting
<1>2. ~posted[p] /\ f \in Files /\ Pending(f)
  BY <1>1, PostedNow
<1>3. p = Poster
  <2>1. pc[p] # "off"
    BY <1>1 DEF Posting
  <2>2. p = "host" => env = "snap"
    BY <2>1 DEF OnceInv, HostFlushes
  <2> QED
    BY <1>1, <2>2 DEF CanPost, Poster, Procs
<1>4. \A q \in Procs : ~posted[q]
  BY <1>2, <1>3 DEF OnceInv, SolePoster
<1>5. \A q \in Procs : posted'[q] <=> q = p
  BY <1>1, <1>4 DEF IInv, TypeInv
<1>6. received[f] <= faults[f]
  BY <1>2, <1>4 DEF OnceInv, PendingIsUnpaid, Posted
<1>7. /\ received[f] \in Nat /\ faults[f] \in Nat
      /\ received'[f] = received[f] + 1 /\ \A g \in Files \ {f} : received'[g] = received[g]
  BY <1>1, <1>2 DEF IInv, TypeInv, OnceInv
<1>8. SolePoster' /\ HostFlushes' /\ PostedIsParked'
  <2>1. SolePoster' /\ HostFlushes'
    BY <1>1, <1>3, <1>5 DEF OnceInv, SolePoster, HostFlushes, Poster
  <2>2. pc[p] = "flush" => f \in outbox
    BY <1>1 DEF Posting
  <2>3. File(p)' = f
    BY <1>1 DEF File
  <2>4. PostedIsParked'
    BY <1>1, <1>5, <2>2, <2>3 DEF PostedIsParked
  <2> QED
    BY <2>1, <2>4
<1>9. SendingIsRun' /\ IdleIsEmpty' /\ ParkedIsOld'
  BY <1>1 DEF OnceInv, SendingIsRun, IsRun, IdleIsEmpty, ParkedIsOld
<1>10. PendingIsUnpaid'
  <2> SUFFICES ASSUME NEW g \in Files, Pending(g)', ~Posted(g)'
               PROVE  received'[g] <= faults[g]
    BY <1>1 DEF PendingIsUnpaid
  <2>1. g # f
    BY <1>1, <1>5 DEF Posted, File
  <2>2. Pending(g) /\ ~Posted(g)
    BY <1>1, <1>4 DEF Pending, Posted
  <2> QED
    BY <1>7, <2>1, <2>2 DEF OnceInv, PendingIsUnpaid
<1>11. TwiceOnlyByFault'
  <2> SUFFICES ASSUME NEW g \in Files PROVE received'[g] <= 1 + faults[g]
    BY <1>1 DEF TwiceOnlyByFault
  <2>1. CASE g = f
    BY <1>6, <1>7, <2>1
  <2>2. CASE g # f
    BY <1>7, <2>2 DEF OnceInv, TwiceOnlyByFault
  <2> QED
    BY <2>1, <2>2
<1> QED
  BY <1>1, <1>8, <1>9, <1>10, <1>11 DEF OnceInv

\* A failure ends the loop over the outbox, or parks a new file where it was pending.
LEMMA OnceGiveUp ==
  ASSUME IInv, OnceInv, NEW p \in Procs, Posting(p), GiveUp(p), UNCHANGED posted
  PROVE  /\ SolePoster' /\ HostFlushes' /\ PostedIsParked'
         /\ SendingIsRun' /\ IdleIsEmpty' /\ ParkedIsOld'
         /\ \A f \in Files : Pending(f)' => Pending(f)
         /\ \A f : Posted(f)' <=> Posted(f)
<1>0. PICK f : f = File(p)
  OBVIOUS
<1>1. f = File(p) /\ UNCHANGED << env, session, pc >>
  BY <1>0 DEF Posting
<1>2. /\ ~posted[p] /\ f \in Files /\ Pending(f) /\ (pc[p] = "send" => p = "wrapper")
  BY <1>1, PostedNow
<1>3. \A q \in Procs : q # p => todo'[q] = todo[q]
  BY DEF GiveUp, IInv, TypeInv
<1>4. \A g : Posted(g)' <=> Posted(g)
  BY <1>2, <1>3, PostedStays
<1>5. SolePoster' /\ HostFlushes' /\ PostedIsParked'
  <2>1. SolePoster' /\ HostFlushes'
    BY <1>1 DEF OnceInv, SolePoster, HostFlushes, Poster
  <2>2. outbox \subseteq outbox'
    BY DEF GiveUp
  <2>3. \A q \in Procs : posted[q] => File(q)' = File(q)
    BY <1>2, <1>3 DEF File
  <2>4. PostedIsParked'
    BY <1>1, <2>2, <2>3 DEF OnceInv, PostedIsParked
  <2> QED
    BY <2>1, <2>4
<1>6. CASE pc[p] = "flush"
  <2>1. todo' = [todo EXCEPT ![p] = {}] /\ UNCHANGED outbox
    BY <1>6 DEF GiveUp
  <2>2. pc["wrapper"] = "send" => todo'["wrapper"] = todo["wrapper"]
    BY <1>3, <1>6 DEF Procs
  <2>3. todo'["wrapper"] = todo["wrapper"] \/ todo'["wrapper"] = {}
    BY <2>1 DEF Procs, IInv, TypeInv
  <2>4. SendingIsRun' /\ IdleIsEmpty' /\ ParkedIsOld'
    BY <1>1, <2>1, <2>2, <2>3 DEF OnceInv, SendingIsRun, IsRun, IdleIsEmpty, ParkedIsOld
  <2>5. \A g \in Files : Pending(g)' => Pending(g)
    BY <1>1, <2>1, <2>2 DEF Pending
  <2> QED
    BY <1>4, <1>5, <2>4, <2>5
<1>7. CASE pc[p] = "send"
  <2>1. /\ p = "wrapper" /\ todo["wrapper"] # {} /\ pc["wrapper"] = "send"
        /\ todo'["wrapper"] = todo["wrapper"] \ {f} /\ outbox' = outbox \cup {f}
    BY <1>1, <1>2, <1>7 DEF GiveUp, Posting, IInv, TypeInv
  <2>2. /\ f \in todo["wrapper"] /\ f[1] = session
        /\ todo["wrapper"] \ {f} # {} => IsRun(todo["wrapper"] \ {f})
    BY <1>1, <2>1, SendingFirst
  <2>3. SendingIsRun' /\ IdleIsEmpty'
    BY <1>1, <2>1, <2>2 DEF OnceInv, SendingIsRun, IsRun, IdleIsEmpty
  <2>4. ParkedIsOld'
    <3>1. outbox' \subseteq Files
      BY <1>2, <2>1 DEF OnceInv, ParkedIsOld
    <3>2. session \in Nat
      BY DEF IInv, TypeInv
    <3>3. \A g \in outbox' : g[1] <= session
      BY <2>1, <2>2, <3>2 DEF OnceInv, ParkedIsOld
    <3>4. outbox' \cap todo'["wrapper"] = {}
      BY <2>1 DEF OnceInv, ParkedIsOld
    <3> QED
      BY <1>1, <2>1, <3>1, <3>3, <3>4 DEF ParkedIsOld
  <2>5. \A g \in Files : Pending(g)' => Pending(g)
    BY <1>1, <1>2, <2>1 DEF Pending
  <2> QED
    BY <1>4, <1>5, <2>3, <2>4, <2>5
<1> QED
  BY <1>6, <1>7 DEF Posting

LEMMA OnceFailed == ASSUME IInv, OnceInv, NEW p \in Procs, Failed(p) PROVE OnceInv'
<1>1. /\ Posting(p) /\ GiveUp(p) /\ UNCHANGED << env, posted, received, faults >>
  BY DEF Failed, Posting
<1>2. /\ SolePoster' /\ HostFlushes' /\ PostedIsParked'
      /\ SendingIsRun' /\ IdleIsEmpty' /\ ParkedIsOld'
      /\ \A f \in Files : Pending(f)' => Pending(f)
      /\ \A f : Posted(f)' <=> Posted(f)
  BY <1>1, OnceGiveUp
<1> QED
  BY <1>1, <1>2, UnpaidStays DEF OnceInv

LEMMA OnceAnswerLost == ASSUME IInv, OnceInv, NEW p \in Procs, AnswerLost(p) PROVE OnceInv'
<1>0. PICK f : f = File(p)
  OBVIOUS
<1>1. /\ f = File(p)
      /\ Posting(p) /\ GiveUp(p) /\ UNCHANGED << env, posted >>
      /\ received' = [received EXCEPT ![f] = @ + 1] /\ faults' = [faults EXCEPT ![f] = @ + 1]
  BY <1>0 DEF AnswerLost, Accepts, Posting
<1>2. /\ SolePoster' /\ HostFlushes' /\ PostedIsParked'
      /\ SendingIsRun' /\ IdleIsEmpty' /\ ParkedIsOld'
      /\ \A g \in Files : Pending(g)' => Pending(g)
      /\ \A g : Posted(g)' <=> Posted(g)
  BY <1>1, OnceGiveUp
<1>3. faults' \in [Files -> Nat]
  <2>1. f \in Files
    BY <1>1, PostedNow
  <2>2. faults \in [Files -> Nat]
    BY DEF OnceInv
  <2> QED
    BY <1>1, <2>1, <2>2
<1>4. \A g \in Files : /\ received[g] \in Nat /\ faults[g] \in Nat
                       /\ \/ received'[g] = received[g] /\ faults'[g] = faults[g]
                          \/ received'[g] = received[g] + 1 /\ faults'[g] = faults[g] + 1
  BY <1>1 DEF IInv, TypeInv, OnceInv
<1>5. PendingIsUnpaid'
  <2> SUFFICES ASSUME NEW g \in Files, Pending(g)', ~Posted(g)'
               PROVE  received'[g] <= faults'[g]
    BY DEF PendingIsUnpaid
  <2>1. received[g] <= faults[g]
    BY <1>2 DEF OnceInv, PendingIsUnpaid
  <2> QED
    BY <1>4, <2>1
<1>6. TwiceOnlyByFault'
  <2> SUFFICES ASSUME NEW g \in Files PROVE received'[g] <= 1 + faults'[g]
    BY DEF TwiceOnlyByFault
  <2>1. received[g] <= 1 + faults[g]
    BY DEF OnceInv, TwiceOnlyByFault
  <2> QED
    BY <1>4, <2>1
<1> QED
  BY <1>1, <1>2, <1>3, <1>5, <1>6 DEF OnceInv

\* What has been posted stops being pending.
LEMMA OnceRemove == ASSUME IInv, OnceInv, NEW p \in Procs, Remove(p) PROVE OnceInv'
<1>0. PICK f : f = File(p)
  OBVIOUS
<1>1. /\ f = File(p)
      /\ posted[p] /\ posted' = [posted EXCEPT ![p] = FALSE]
      /\ todo' = [todo EXCEPT ![p] = @ \ {f}]
      /\ outbox' = IF pc[p] = "flush" THEN outbox \ {f} ELSE outbox
      /\ UNCHANGED << env, session, pc, received, faults >>
  BY <1>0 DEF Remove, history
<1>2. /\ pc[p] \in {"flush", "send"} /\ todo[p] # {} /\ (pc[p] = "send" => p = "wrapper")
  BY <1>1 DEF IInv, PostedIsBusy, OnceInv, HostFlushes, Procs
<1>3. /\ \A q \in Procs : posted'[q] <=> (q # p /\ posted[q])
      /\ \A q \in Procs : q # p => todo'[q] = todo[q]
      /\ todo'[p] = todo[p] \ {f}
  BY <1>1 DEF IInv, TypeInv
<1>4. SolePoster' /\ HostFlushes' /\ PostedIsParked'
  <2>1. \A q \in Procs : ~posted'[q]
    BY <1>1, <1>3 DEF OnceInv, SolePoster
  <2> QED
    BY <1>1, <2>1 DEF OnceInv, SolePoster, HostFlushes, PostedIsParked
<1>5. IdleIsEmpty'
  BY <1>1, <1>2, <1>3 DEF OnceInv, IdleIsEmpty, Procs
<1>6. SendingIsRun'
  <2> SUFFICES ASSUME pc["wrapper"] = "send", todo'["wrapper"] # {}
               PROVE  session \in Sessions /\ IsRun(todo'["wrapper"])
    BY <1>1 DEF SendingIsRun, IsRun
  <2>1. CASE p = "wrapper"
    BY <1>1, <1>2, <1>3, <2>1, SendingFirst DEF OnceInv, SendingIsRun, IsRun
  <2>2. CASE p # "wrapper"
    BY <1>1, <1>3, <2>2 DEF OnceInv, SendingIsRun, IsRun, Procs
  <2> QED
    BY <2>1, <2>2
<1>7. ParkedIsOld'
  <2>1. outbox' \subseteq outbox /\ todo'["wrapper"] \subseteq todo["wrapper"]
    BY <1>1, <1>3 DEF Procs
  <2> QED
    BY <1>1, <2>1 DEF OnceInv, ParkedIsOld
<1>8. ~Pending(f)'
  <2>1. CASE pc[p] = "flush"
    <3>1. f \in outbox /\ f \in Files
      BY <1>1, <2>1 DEF OnceInv, PostedIsParked, ParkedIsOld
    <3>2. f \notin outbox' /\ ~(f[1] > session) /\ ~(pc["wrapper"] = "game" /\ f[1] = session)
      <4>1. f[1] \in Nat /\ session \in Nat
        BY <3>1 DEF Files, Sessions, IInv, TypeInv
      <4> QED
        BY <1>1, <2>1, <3>1, <4>1 DEF OnceInv, ParkedIsOld
    <3>3. ~(pc["wrapper"] = "send" /\ f \in todo'["wrapper"])
      BY <1>3, <3>1 DEF OnceInv, ParkedIsOld, Procs
    <3> QED
      BY <1>1, <3>2, <3>3 DEF Pending
  <2>2. CASE pc[p] = "send"
    <3>1. p = "wrapper" /\ f \in todo["wrapper"] /\ f[1] = session
      BY <1>1, <1>2, <2>2, SendingFirst
    <3>2. f \notin outbox /\ session \in Nat
      BY <2>2, <3>1 DEF OnceInv, ParkedIsOld, IInv, TypeInv
    <3> QED
      BY <1>1, <1>3, <2>2, <3>1, <3>2 DEF Pending
  <2> QED
    BY <1>2, <2>1, <2>2
<1>9. \A g \in Files : Pending(g)' /\ ~Posted(g)' => Pending(g) /\ ~Posted(g)
  <2> SUFFICES ASSUME NEW g \in Files, Pending(g)' PROVE Pending(g) /\ ~Posted(g)
    OBVIOUS
  <2>1. g # f
    BY <1>8
  <2>2. Pending(g)
    BY <1>1, <1>3 DEF Pending, Procs
  <2>3. ~Posted(g)
    BY <1>1, <2>1 DEF Posted, OnceInv, SolePoster
  <2> QED
    BY <2>2, <2>3
<1> QED
  BY <1>1, <1>4, <1>5, <1>6, <1>7, <1>9, UnpaidStays DEF OnceInv

\* A kill between the post and the rm is a fault of that file; any other leaves nothing
\* of its process.
LEMMA OnceKill == ASSUME IInv, OnceInv, NEW p \in Procs, Kill(p) PROVE OnceInv'
<1>0. PICK f : f = File(p)
  OBVIOUS
<1>1. /\ f = File(p)
      /\ pc' = [pc EXCEPT ![p] = "off"] /\ todo' = [todo EXCEPT ![p] = {}]
      /\ posted' = [posted EXCEPT ![p] = FALSE]
      /\ faults' = IF posted[p] THEN [faults EXCEPT ![f] = @ + 1] ELSE faults
      /\ UNCHANGED << env, session, outbox, received >>
  BY <1>0 DEF Kill, disk
<1>2. /\ \A q \in Procs : posted'[q] <=> (q # p /\ posted[q])
      /\ \A q \in Procs : q # p => todo'[q] = todo[q] /\ pc'[q] = pc[q]
      /\ todo'[p] = {} /\ pc'[p] = "off"
  BY <1>1 DEF IInv, TypeInv
<1>3. SolePoster' /\ HostFlushes' /\ PostedIsParked'
  <2>1. SolePoster' /\ HostFlushes'
    BY <1>1, <1>2 DEF OnceInv, SolePoster, HostFlushes, Poster, Procs
  <2>2. PostedIsParked'
    BY <1>1, <1>2 DEF OnceInv, PostedIsParked, File
  <2> QED
    BY <2>1, <2>2
<1>4. /\ \/ pc'["wrapper"] = "off" /\ todo'["wrapper"] = {}
         \/ pc'["wrapper"] = pc["wrapper"] /\ todo'["wrapper"] = todo["wrapper"]
  BY <1>2 DEF Procs
<1>5. SendingIsRun' /\ IdleIsEmpty' /\ ParkedIsOld'
  BY <1>1, <1>4 DEF OnceInv, SendingIsRun, IsRun, IdleIsEmpty, ParkedIsOld
<1>6. \A g \in Files :
        /\ received[g] \in Nat /\ faults[g] \in Nat
        /\ faults'[g] = faults[g] \/ faults'[g] = faults[g] + 1
        /\ posted[p] /\ g = f => faults'[g] = faults[g] + 1
  BY <1>1 DEF OnceInv, IInv, TypeInv
<1>7. faults' \in [Files -> Nat]
  <2>1. faults \in [Files -> Nat]
    BY DEF OnceInv
  <2>2. posted[p] => f \in Files
    <3>1. CASE posted[p] /\ pc[p] = "flush"
      BY <1>1, <3>1 DEF OnceInv, PostedIsParked, ParkedIsOld
    <3>2. CASE posted[p] /\ pc[p] = "send"
      BY <1>1, <3>2, SendingFirst DEF OnceInv, HostFlushes, IInv, PostedIsBusy, Procs
    <3> QED
      BY <3>1, <3>2 DEF IInv, PostedIsBusy
  <2> QED
    BY <1>1, <2>1, <2>2
<1>8. PendingIsUnpaid'
  <2> SUFFICES ASSUME NEW g \in Files, Pending(g)', ~Posted(g)'
               PROVE  received[g] <= faults'[g]
    BY <1>1 DEF PendingIsUnpaid
  <2>1. CASE posted[p] /\ g = f
    <3>1. received[g] <= 1 + faults[g]
      BY DEF OnceInv, TwiceOnlyByFault
    <3> QED
      BY <1>6, <2>1, <3>1
  <2>2. CASE ~(posted[p] /\ g = f)
    <3>1. Pending(g)
      BY <1>1, <1>4 DEF Pending
    <3>2. ~Posted(g)
      BY <1>1, <1>2, <2>2 DEF Posted, File
    <3>3. received[g] <= faults[g]
      BY <3>1, <3>2 DEF OnceInv, PendingIsUnpaid
    <3> QED
      BY <1>6, <3>3
  <2> QED
    BY <2>1, <2>2
<1>9. TwiceOnlyByFault'
  <2> SUFFICES ASSUME NEW g \in Files PROVE received[g] <= 1 + faults'[g]
    BY <1>1 DEF TwiceOnlyByFault
  <2>1. received[g] <= 1 + faults[g]
    BY DEF OnceInv, TwiceOnlyByFault
  <2> QED
    BY <1>6, <2>1
<1> QED
  BY <1>1, <1>3, <1>5, <1>7, <1>8, <1>9 DEF OnceInv

LEMMA OnceStutter == IInv /\ OnceInv /\ UNCHANGED vars => OnceInv'
<1> SUFFICES ASSUME IInv, OnceInv, UNCHANGED vars PROVE OnceInv'
  OBVIOUS
<1>1. UNCHANGED << env, session, outbox, pc, todo, posted, received, faults >>
  BY DEF vars, disk, history
<1>2. HostFlushes' /\ SendingIsRun' /\ IdleIsEmpty' /\ ParkedIsOld'
  BY <1>1 DEF OnceInv, HostFlushes, SendingIsRun, IsRun, IdleIsEmpty, ParkedIsOld
<1>3. \A f \in Files : Pending(f)' => Pending(f)
  BY <1>1 DEF Pending
<1> QED
  BY <1>1, <1>2, <1>3, QuietOK

LEMMA OnceStep == IInv /\ OnceInv /\ [Next]_vars => OnceInv'
<1> SUFFICES ASSUME IInv, OnceInv, [Next]_vars PROVE OnceInv'
  OBVIOUS
<1>1. CASE Launch \/ HostStart
  BY <1>1, OnceLaunch, OnceHostStart
<1>2. CASE GameStarts \/ Bundle \/ BundleSkipped \/ NoBundle \/ SendEnd
  BY <1>2, OnceGameStarts, OnceBundle, OnceBundleSkipped, OnceSendEnd
<1>3. ASSUME NEW p \in Procs, Step(p) PROVE OnceInv'
  BY <1>3, OnceSkip, OnceAccepted, OnceAnswerLost, OnceFailed, OnceRemove, OnceFlushEnd DEF Step
<1>4. ASSUME NEW p \in Procs, Kill(p) PROVE OnceInv'
  BY <1>4, OnceKill
<1>5. CASE UNCHANGED vars
  BY <1>5, OnceStutter
<1> QED
  BY <1>1, <1>2, <1>3, <1>4, <1>5 DEF Next

\* The server is not sent a file again unless an answer was lost or a process died between
\* the post and the rm, however the wrapper's and the host's loops meet in the outbox.
THEOREM SentOnce == Spec => []TwiceOnlyByFault
<1>1. Init => IInv /\ OnceInv
  BY InitOK, OnceInit
<1>2. (IInv /\ OnceInv) /\ [Next]_vars => (IInv /\ OnceInv)'
  BY StepOK, OnceStep
<1>3. OnceInv => TwiceOnlyByFault
  BY DEF OnceInv
<1> QED
  BY <1>1, <1>2, <1>3, PTL DEF Spec
=============================================================================
