-------------------------- MODULE HookInstall_proofs --------------------------
(***************************************************************************)
(* Proofs about HookInstall, for every set of functions and modules, every *)
(* import table, every number of passes.  On Windows the results need the  *)
(* executable to import the essential functions and their import table     *)
(* entries to be writable (Healthy); without that they are false, as run   *)
(* hook_twice shows.                                                       *)
(***************************************************************************)
EXTENDS HookInstall, TLAPS

Healthy == "winmm" \in Proxies => Essential \subseteq Imports[Exe] \ MayFail

\* On Linux an original is winsock's export as soon as it is known, and it is
\* known before anything is hooked.
LinuxInv ==
  proxy = "dsound" =>
    /\ \A f \in Functions : real[f] \in {"null", "export"}
    /\ \A f \in Functions : Hooked(f) => real[f] = "export"
    /\ pc = "patch" => \A f \in Functions : real[f] = "export"

\* On Windows only the executable is hooked, in the one pass that completes: in
\* it, just the functions already done, and what was saved is never a hook.
Done(f) == \E j \in 1 .. group : f \in Groups[j] /\ (j = group => f \notin todo)

WindowsPatching ==
  /\ ~complete
  /\ group \in 1 .. Len(Groups)
  /\ todo \subseteq Groups[group]
  /\ \A f \in Functions : real[f] \in {"export", "upstream"}
  /\ \A f \in Functions : saved[f] # "hook"
  /\ \A f \in Functions : slot[Exe][f] = "hook" => Done(f)
  /\ \A f \in Essential : saved[f] # "null" \/ (group = 1 /\ f \in todo)

WindowsInv ==
  proxy = "winmm" =>
    /\ pc # "getproc"
    /\ ~getproc
    /\ \A f \in Functions : dyn[f] # "hook"
    /\ \A m \in Modules \ {Exe}, f \in Functions : slot[m][f] # "hook"
    /\ pc = "patch" => WindowsPatching
    /\ pc # "patch" /\ ~complete => \A f \in Functions : slot[Exe][f] # "hook"
    /\ pc \in {"locks", "pace", "thread"} => complete
    /\ complete => /\ pc \in {"locks", "pace", "thread", "idle", "done"}
                   /\ \A f \in Functions : real[f] \in {"export", "upstream"}

ExeBound == Exe \in loaded /\ \A f \in Imports[Exe] : slot[Exe][f] # "null"

IInv == TypeOK /\ ExeBound /\ LinuxInv /\ WindowsInv

USE HookAssumption DEF passVars, pacerVars

-----------------------------------------------------------------------------
LEMMA NullIsTyped == Null \in [Functions -> Pointers]
BY DEF Null, Pointers

LEMMA BoundIsTyped == \A m \in Modules : Bound(m) \in [Functions -> Pointers]
BY DEF Bound, Pointers

LEMMA InitOK == Init => IInv
<1> SUFFICES ASSUME Init PROVE IInv
  OBVIOUS
<1>1. slot \in [Modules -> [Functions -> Pointers]]
  BY NullIsTyped, BoundIsTyped DEF Init, Bound, Null, Pointers
<1>2. Len(Groups) \in Nat
  OBVIOUS
<1>3. TypeOK
  <2>1. 0 \in 0 .. Len(Groups) /\ 0 \in 0 .. MaxTries
    BY <1>2
  <2>2. /\ missed \subseteq Modules \X Functions /\ getproc \in BOOLEAN
        /\ complete \in BOOLEAN /\ locked \in BOOLEAN /\ pacing \in BOOLEAN /\ rate \in BOOLEAN
        /\ queued \in BOOLEAN /\ thread \in BOOLEAN
    BY Zenon DEF Init
  <2>3. dyn \in [Functions -> Pointers] /\ real \in [Functions -> Pointers]
          /\ saved \in [Functions -> Pointers]
    BY NullIsTyped DEF Init
  <2> QED
    BY <1>1, <2>1, <2>2, <2>3 DEF Init, TypeOK
<1>4. \A m \in Modules, f \in Functions : slot[m][f] # "hook"
  BY DEF Init, Bound, Null
<1>5. ExeBound
  BY DEF Init, ExeBound, Bound
<1>6. LinuxInv
  BY <1>4 DEF Init, LinuxInv, Hooked, Null
<1>7. WindowsInv
  BY <1>4 DEF Init, WindowsInv, Null
<1> QED
  BY <1>3, <1>5, <1>6, <1>7 DEF IInv

\* The game's own steps.
LEMMA LoadModuleOK ==
  ASSUME IInv, NEW m \in Modules, LoadModule(m) PROVE IInv'
<1> USE DEF IInv
<1>1. m # Exe
  BY DEF LoadModule, ExeBound
<1>2. TypeOK'
  BY BoundIsTyped DEF LoadModule, TypeOK
<1>3. slot'[Exe] = slot[Exe]
  BY <1>1 DEF LoadModule, TypeOK
<1>4. \A n \in Modules, f \in Functions : slot'[n][f] = "hook" => slot[n][f] = "hook"
  BY DEF LoadModule, TypeOK, Bound
<1>5. ExeBound'
  BY <1>3 DEF LoadModule, ExeBound
<1>6. LinuxInv'
  BY <1>4 DEF LoadModule, LinuxInv, Hooked
<1>7. WindowsInv'
  BY <1>3, <1>4 DEF LoadModule, WindowsInv, WindowsPatching, Done
<1> QED
  BY <1>2, <1>5, <1>6, <1>7

LEMMA LookUpOK ==
  ASSUME IInv, NEW f \in Functions, LookUp(f) PROVE IInv'
<1> USE DEF IInv
<1>1. TypeOK'
  <2>1. UNCHANGED << proxy, loaded, slot, getproc, saved, passVars, pacerVars >>
    BY DEF LookUp
  <2>2. dyn' \in [Functions -> Pointers] /\ real' \in [Functions -> Pointers]
    BY DEF LookUp, TypeOK, Pointers
  <2> QED
    BY <2>1, <2>2 DEF TypeOK
<1>2. ExeBound'
  BY DEF LookUp, ExeBound
<1>3. LinuxInv'
  <2> SUFFICES ASSUME proxy = "dsound" PROVE LinuxInv'
    BY DEF LinuxInv, LookUp
  <2>1. CASE getproc
    BY <2>1 DEF LookUp, LinuxInv, Hooked, TypeOK
  <2>2. CASE ~getproc
    BY <2>2 DEF LookUp, LinuxInv, Hooked, TypeOK
  <2> QED
    BY <2>1, <2>2
<1>4. WindowsInv'
  <2> SUFFICES ASSUME proxy = "winmm" PROVE WindowsInv'
    BY DEF WindowsInv, LookUp
  <2>1. ~getproc
    BY DEF WindowsInv
  <2> QED
    BY <2>1 DEF LookUp, WindowsInv, WindowsPatching, Done, TypeOK
<1> QED
  BY <1>1, <1>2, <1>3, <1>4

\* Steps that leave the imports and the originals alone.
LEMMA ControlOK ==
  ASSUME IInv,
         \/ Begin \/ Finish \/ NoWinsock \/ HookGetProc \/ EndPass
         \/ WinLocks \/ PaceInit \/ PaceThread \/ Send \/ Release
  PROVE  IInv'
<1> USE DEF IInv
<1> DEFINE Steps == {"idle", "getproc", "resolve", "patch", "locks", "pace", "thread", "done"}
<1>0. AfterPass \in {"pace", "idle"} /\ (proxy = "winmm" => AfterPass = "idle")
  BY DEF AfterPass
<1>1. UNCHANGED << proxy, loaded, slot, dyn, real, saved, group, todo, complete, missed >>
  BY DEF Begin, Finish, NoWinsock, HookGetProc, EndPass, WinLocks, PaceInit, PaceThread,
         Send, Release
<1>2. TypeOK'
  <2>1. getproc' \in BOOLEAN
    BY Zenon DEF Begin, Finish, NoWinsock, HookGetProc, EndPass, WinLocks, PaceInit,
       PaceThread, Send, Release, TypeOK
  <2>2. last' \in {"none", "failed", "unlisted", "listed"}
    BY DEF Begin, Finish, NoWinsock, HookGetProc, EndPass, WinLocks, PaceInit,
       PaceThread, Send, Release, TypeOK
  <2>3. tries' \in 0 .. MaxTries
    <3>1. CASE Begin
      <4>1. tries < MaxTries /\ tries' = tries + 1
        BY <3>1, Zenon DEF Begin, More
      <4>2. tries \in 0 .. MaxTries /\ MaxTries \in Nat
        BY HookAssumption, Zenon DEF TypeOK
      <4> HIDE DEF IInv
      <4> QED
        BY <4>1, <4>2
    <3>2. CASE ~Begin
      <4>1. tries' = tries
        BY <3>2, Zenon DEF Finish, NoWinsock, HookGetProc, EndPass, WinLocks, PaceInit,
           PaceThread, Send, Release
      <4> QED
        BY <4>1 DEF TypeOK
    <3> QED
      BY <3>1, <3>2
  <2>4. pc' \in Steps
    BY <1>0 DEF Begin, Finish, NoWinsock, HookGetProc, EndPass, WinLocks, PaceInit,
       PaceThread, Send, Release, TypeOK
  <2>5. /\ locked' \in BOOLEAN /\ pacing' \in BOOLEAN /\ queued' \in BOOLEAN
        /\ thread' \in BOOLEAN /\ rate' \in BOOLEAN
    BY Zenon DEF Begin, Finish, NoWinsock, HookGetProc, EndPass, WinLocks, PaceInit,
       PaceThread, Send, Release, TypeOK
  <2> QED
    BY <1>1, <2>1, <2>2, <2>3, <2>4, <2>5 DEF TypeOK
<1>3. ExeBound'
  BY <1>1 DEF ExeBound
<1>4. CASE Send \/ Release
  <2>1. pc' = pc /\ getproc' = getproc
    BY <1>4 DEF Send, Release
  <2>2. LinuxInv'
    BY <1>1, <2>1 DEF LinuxInv, Hooked
  <2>3. WindowsInv'
    BY <1>1, <2>1 DEF WindowsInv, WindowsPatching, Done
  <2> QED BY <1>2, <1>3, <2>2, <2>3
<1>5. CASE ~(Send \/ Release)
  <2>0. pc' # "patch"
    BY <1>0, <1>5 DEF Begin, Finish, NoWinsock, HookGetProc, EndPass, WinLocks, PaceInit,
       PaceThread
  <2>1. LinuxInv'
    BY <1>1, <2>0 DEF LinuxInv, Hooked
  <2>2. WindowsInv'
    <3> SUFFICES ASSUME proxy = "winmm" PROVE WindowsInv'
      BY <1>1 DEF WindowsInv
    <3>1. ~HookGetProc /\ ~EndPass /\ pc # "patch"
      BY <1>5 DEF WindowsInv, HookGetProc, EndPass, Begin, Finish, NoWinsock, WinLocks,
         PaceInit, PaceThread
    <3>2. getproc' = getproc /\ pc' # "getproc"
      BY <1>0, <1>5, <3>1 DEF Begin, Finish, NoWinsock, WinLocks, PaceInit, PaceThread
    <3>3. /\ complete => pc' \in {"locks", "pace", "thread", "idle", "done"}
          /\ pc' \in {"locks", "pace", "thread"} => complete
      BY <1>0, <1>5, <3>1 DEF Begin, Finish, NoWinsock, WinLocks, PaceInit, PaceThread,
         More, WindowsInv
    <3> QED
      BY <1>1, <2>0, <3>1, <3>2, <3>3 DEF WindowsInv
  <2> QED BY <1>2, <1>3, <2>1, <2>2
<1> QED
  BY <1>4, <1>5

-----------------------------------------------------------------------------
\* The Windows pass.
LEMMA WinResolveOK ==
  ASSUME IInv, WinResolve PROVE IInv'
<1> USE DEF IInv
<1>0. Len(Groups) \in Nat /\ 1 \in 1 .. Len(Groups) /\ Groups[1] \subseteq Functions
  OBVIOUS
<1>1. TypeOK'
  BY <1>0, NullIsTyped DEF WinResolve, TypeOK, Pointers
<1>2. ExeBound'
  BY DEF WinResolve, ExeBound
<1>3. LinuxInv'
  BY DEF WinResolve, LinuxInv
<1>4. ~complete /\ \A f \in Functions : slot[Exe][f] # "hook"
  BY DEF WinResolve, WindowsInv
<1>5. WindowsPatching'
  BY <1>0, <1>4 DEF WinResolve, WindowsPatching, Null, Essential
<1>6. WindowsInv'
  BY <1>4, <1>5 DEF WinResolve, WindowsInv
<1> QED
  BY <1>1, <1>2, <1>3, <1>6

LEMMA WinSwapOK ==
  ASSUME IInv, NEW f \in Functions, WinSwap(f) PROVE IInv'
<1> USE DEF IInv
<1>1. slot' = [slot EXCEPT ![Exe] = [slot[Exe] EXCEPT ![f] = "hook"]]
  BY DEF WinSwap, TypeOK
<1>2. slot[Exe] \in [Functions -> Pointers] /\ "hook" \in Pointers
  BY DEF TypeOK, Pointers
<1>3. TypeOK'
  BY <1>1, <1>2 DEF WinSwap, TypeOK
<1>4. \A g \in Functions : slot'[Exe][g] = IF g = f THEN "hook" ELSE slot[Exe][g]
  BY <1>1, <1>2 DEF TypeOK
<1>5. \A m \in Modules \ {Exe} : slot'[m] = slot[m]
  BY <1>1 DEF TypeOK
<1>6. ExeBound'
  BY <1>4 DEF WinSwap, ExeBound
<1>7. LinuxInv'
  BY DEF WinSwap, LinuxInv
<1>8. WindowsPatching
  BY DEF WinSwap, WindowsInv
<1>9. slot[Exe][f] # "hook" /\ slot[Exe][f] # "null"
  <2>1. ~Done(f)
    BY <1>8 DEF Done, WinSwap, WindowsPatching
  <2> QED
    BY <1>8, <2>1 DEF WindowsPatching, ExeBound, WinSwap
<1>10. \A g \in Functions : saved'[g] = IF g = f THEN slot[Exe][f] ELSE saved[g]
  BY DEF WinSwap, TypeOK
<1>11. \A g \in Functions : slot'[Exe][g] = "hook" => Done(g)'
  <2> SUFFICES ASSUME NEW g \in Functions, slot'[Exe][g] = "hook" PROVE Done(g)'
    OBVIOUS
  <2>1. CASE g = f
    BY <2>1, <1>8 DEF Done, WinSwap, WindowsPatching
  <2>2. CASE g # f
    BY <2>2, <1>4, <1>8 DEF Done, WinSwap, WindowsPatching
  <2> QED
    BY <2>1, <2>2
<1>12. Essential \subseteq Functions
  BY DEF Essential
<1>13. WindowsPatching'
  BY <1>8, <1>9, <1>10, <1>11, <1>12 DEF WindowsPatching, WinSwap
<1>14. WindowsInv'
  BY <1>5, <1>13 DEF WinSwap, WindowsInv
<1> QED
  BY <1>3, <1>6, <1>7, <1>14

LEMMA WinSkipOK ==
  ASSUME Healthy, IInv, NEW f \in Functions, WinSkip(f) PROVE IInv'
<1> USE DEF IInv
<1>1. TypeOK'
  BY DEF WinSkip, TypeOK
<1>2. ExeBound' /\ LinuxInv'
  BY DEF WinSkip, ExeBound, LinuxInv
<1>3. WindowsPatching
  BY DEF WinSkip, WindowsInv
<1>4. f \notin Essential
  BY DEF WinSkip, Healthy, TypeOK
<1>5. \A g \in Functions : Done(g) => Done(g)'
  BY DEF Done, WinSkip
<1>6. WindowsPatching'
  BY <1>3, <1>4, <1>5 DEF WindowsPatching, WinSkip
<1>7. WindowsInv'
  BY <1>6 DEF WinSkip, WindowsInv
<1> QED
  BY <1>1, <1>2, <1>7

LEMMA StoredIsSound ==
  ASSUME TypeOK, WindowsPatching
  PROVE  /\ Stored \in [Functions -> Pointers]
         /\ \A f \in Functions : Stored[f] \in {"export", "upstream"}
BY DEF Stored, TypeOK, WindowsPatching, Pointers

LEMMA WinStoreOK ==
  ASSUME IInv, WinStore PROVE IInv'
<1> USE DEF IInv
<1>1. WindowsPatching
  BY DEF WinStore, WindowsInv
<1>2. /\ Len(Groups) \in Nat /\ group + 1 \in 1 .. Len(Groups)
      /\ Groups[group + 1] \subseteq Functions
  BY <1>1 DEF WindowsPatching, WinStore
<1>3. TypeOK'
  BY <1>1, <1>2, StoredIsSound DEF WinStore, TypeOK
<1>4. ExeBound' /\ LinuxInv'
  BY DEF WinStore, ExeBound, LinuxInv
<1>5. \A f \in Functions : Done(f) => Done(f)'
  BY <1>1, <1>2 DEF Done, WinStore, WindowsPatching
<1>6. \A f \in Essential : saved[f] # "null"
  BY <1>1 DEF WindowsPatching, WinStore
<1>7. WindowsPatching'
  BY <1>1, <1>2, <1>5, <1>6, StoredIsSound DEF WindowsPatching, WinStore
<1>8. WindowsInv'
  BY <1>7 DEF WinStore, WindowsInv
<1> QED
  BY <1>3, <1>4, <1>8

LEMMA WinEndOK ==
  ASSUME IInv, WinEnd PROVE IInv'
<1> USE DEF IInv
<1>1. WindowsPatching
  BY DEF WinEnd, WindowsInv
<1>2. TypeOK'
  <2>1. complete' \in BOOLEAN
    BY DEF WinEnd, TypeOK
  <2> QED
    BY <1>1, <2>1, StoredIsSound DEF WinEnd, TypeOK
<1>3. ExeBound' /\ LinuxInv'
  BY DEF WinEnd, ExeBound, LinuxInv
<1>4. \A f \in Essential : saved[f] # "null"
  BY <1>1 DEF WindowsPatching, WinEnd
<1>5. complete' = TRUE /\ pc' = "locks"
  BY <1>4 DEF WinEnd
<1>6. \A f \in Functions : real'[f] \in {"export", "upstream"}
  BY <1>1, StoredIsSound DEF WinEnd
<1>7. WindowsInv'
  BY <1>5, <1>6 DEF WinEnd, WindowsInv
<1> QED
  BY <1>2, <1>3, <1>7

-----------------------------------------------------------------------------
\* The Linux pass.
LEMMA ResolveOK ==
  ASSUME IInv, Resolve \/ Unlisted PROVE IInv'
<1> USE DEF IInv
<1>1. TypeOK'
  BY DEF Resolve, Unlisted, LookedUp, AfterPass, TypeOK, Pointers
<1>2. ExeBound' /\ WindowsInv'
  BY DEF Resolve, Unlisted, ExeBound, WindowsInv
<1>3. \A f \in Functions : real'[f] = "export"
  BY DEF Resolve, Unlisted, LookedUp, LinuxInv
<1>4. LinuxInv'
  BY <1>3 DEF LinuxInv
<1> QED
  BY <1>1, <1>2, <1>4

LEMMA PatchModuleOK ==
  ASSUME IInv, NEW m \in Modules, NEW refused \in SUBSET MayFail, PatchModule(m, refused)
  PROVE  IInv'
<1> USE DEF IInv
<1> DEFINE row == [f \in Functions |-> IF slot[m][f] = real[f] /\ f \notin refused
                                         THEN "hook" ELSE slot[m][f]]
<1>1. row \in [Functions -> Pointers]
  BY DEF TypeOK, Pointers
<1>2. slot' = [slot EXCEPT ![m] = row]
  BY DEF PatchModule
<1> HIDE DEF row
<1>3. TypeOK'
  <2>1. slot' \in [Modules -> [Functions -> Pointers]]
    BY <1>1, <1>2 DEF TypeOK
  <2>2. missed' \subseteq Modules \X Functions
    BY DEF PatchModule, TypeOK
  <2> QED
    BY <2>1, <2>2 DEF PatchModule, TypeOK
<1>4. ExeBound'
  BY <1>1, <1>2 DEF PatchModule, ExeBound, TypeOK, row
<1>5. \A f \in Functions : real[f] = "export"
  BY DEF PatchModule, LinuxInv
<1>6. LinuxInv'
  BY <1>5 DEF PatchModule, LinuxInv
<1>7. WindowsInv'
  BY DEF PatchModule, WindowsInv
<1> QED
  BY <1>3, <1>4, <1>6, <1>7

-----------------------------------------------------------------------------
LEMMA StepOK ==
  ASSUME Healthy, IInv, [Next]_vars PROVE IInv'
<1>1. CASE UNCHANGED vars
  BY <1>1 DEF vars, IInv, TypeOK, ExeBound, LinuxInv, Hooked, WindowsInv, WindowsPatching, Done
<1>2. CASE \E m \in Modules : LoadModule(m)
  BY <1>2, LoadModuleOK
<1>3. CASE \E f \in Functions : LookUp(f)
  BY <1>3, LookUpOK
<1>4. CASE \/ Begin \/ Finish \/ NoWinsock \/ HookGetProc \/ EndPass
           \/ WinLocks \/ PaceInit \/ PaceThread \/ Send \/ Release
  BY <1>4, ControlOK
<1>5. CASE WinResolve \/ WinStore \/ WinEnd
  BY <1>5, WinResolveOK, WinStoreOK, WinEndOK
<1>6. CASE \E f \in Functions : WinSwap(f) \/ WinSkip(f)
  BY <1>6, WinSwapOK, WinSkipOK
<1>7. CASE Resolve \/ Unlisted
  BY <1>7, ResolveOK
<1>8. CASE \E m \in Modules : \E refused \in SUBSET MayFail : PatchModule(m, refused)
  BY <1>8, PatchModuleOK
<1> QED
  BY <1>1, <1>2, <1>3, <1>4, <1>5, <1>6, <1>7, <1>8 DEF Next, Install

LEMMA IInvReaches == IInv => HookReaches
<1> SUFFICES ASSUME IInv, NEW f \in Functions, Hooked(f)
             PROVE  real[f] \in {"export", "upstream"}
  BY DEF HookReaches
<1>1. CASE proxy = "dsound"
  BY <1>1 DEF IInv, LinuxInv
<1>2. CASE proxy = "winmm"
  BY <1>2 DEF IInv, WindowsInv, WindowsPatching, Hooked
<1>3. proxy \in {"winmm", "dsound"}
  BY DEF IInv, TypeOK
<1> QED
  BY <1>1, <1>2, <1>3

\* The type invariant of the hook installation.
THEOREM TypeCorrect == Healthy /\ Spec => []TypeOK
<1> SUFFICES ASSUME Healthy PROVE Spec => []TypeOK
  BY DEF Healthy
<1>1. Init => IInv
  BY InitOK
<1>2. IInv /\ [Next]_vars => IInv'
  BY StepOK
<1>3. IInv => TypeOK
  BY DEF IInv
<1> QED
  BY <1>1, <1>2, <1>3, PTL DEF Spec

\* A call that enters a hook of either proxy always comes out at winsock: the
\* original behind a hook is never missing and never a hook, whatever the order
\* of passes, look-ups and module loads and however many passes fail.
THEOREM EveryHookReaches == Healthy /\ Spec => []HookReaches
<1> SUFFICES ASSUME Healthy PROVE Spec => []HookReaches
  BY DEF Healthy
<1>1. Init => IInv
  BY InitOK
<1>2. IInv /\ [Next]_vars => IInv'
  BY StepOK
<1>3. IInv => HookReaches
  BY IInvReaches
<1> QED
  BY <1>1, <1>2, <1>3, PTL DEF Spec

\* The settings and the tables that are set up without their locks are set up only
\* while no hook can use them.
THEOREM TablesBeforeHooks == Healthy /\ Spec => InitBeforeTraffic
<1> SUFFICES ASSUME Healthy PROVE Spec => InitBeforeTraffic
  BY DEF Healthy
<1>1. Init => IInv
  BY InitOK
<1>2. IInv /\ [Next]_vars => IInv'
  BY StepOK
<1>3. IInv /\ [Next]_vars =>
        [proxy = "winmm" /\ pc = "resolve" /\ pc' = "patch"
           => \A f \in Functions : ~Hooked(f)]_vars
  <2> SUFFICES ASSUME IInv, proxy = "winmm", pc = "resolve", NEW f \in Functions
               PROVE  ~Hooked(f)
    OBVIOUS
  <2>1. ~complete
    BY DEF IInv, WindowsInv
  <2> QED
    BY <2>1 DEF IInv, WindowsInv, Hooked
<1> QED
  BY <1>1, <1>2, <1>3, PTL DEF Spec, InitBeforeTraffic

-----------------------------------------------------------------------------
(* The pacer, set up after the hooks *)

\* Before pace_init the pacer takes nothing: its rate is 0.  Windows reaches
\* pace_init once, in the pass that completes, and Linux once, after the first pass.
Untouched == ~pacing /\ ~queued /\ ~thread

PacerInv ==
  /\ proxy = "winmm" /\ (~complete \/ pc \in {"locks", "pace"}) => Untouched
  /\ proxy = "dsound" /\ pc \in {"pace", "thread"} => tries = 1
  /\ proxy = "dsound" /\ (tries = 0 \/ (tries = 1 /\ pc \notin {"thread", "idle", "done"}))
       => Untouched

LEMMA PacerStep ==
  ASSUME IInv, PacerInv, [Next]_vars PROVE PacerInv'
<1>0. tries \in Nat
  BY DEF IInv, TypeOK
<1>1. CASE UNCHANGED vars
  BY <1>1 DEF vars, PacerInv, Untouched
<1>2. CASE \/ (\E m \in Modules : LoadModule(m)) \/ (\E f \in Functions : LookUp(f))
           \/ (\E f \in Functions : WinSwap(f) \/ WinSkip(f)) \/ WinStore
           \/ (\E m \in Modules : \E refused \in SUBSET MayFail : PatchModule(m, refused))
  <2>1. UNCHANGED << proxy, pc, tries, complete, pacing, queued, thread >>
    BY <1>2 DEF LoadModule, LookUp, WinSwap, WinSkip, WinStore, PatchModule
  <2> QED BY <2>1 DEF PacerInv, Untouched
<1>3. CASE Send \/ Release
  <2>1. UNCHANGED << proxy, pc, tries, complete, pacing, thread >> /\ (pacing \/ ~queued')
    BY <1>3 DEF Send, Release
  <2> QED BY <2>1 DEF PacerInv, Untouched
<1>4. CASE Begin
  <2>1. /\ UNCHANGED << proxy, complete, pacing, queued, thread >> /\ tries' = tries + 1
        /\ pc' \in {"getproc", "resolve"}
    BY <1>4 DEF Begin
  <2>2. tries' = 1 => tries = 0
    BY <1>0, <2>1
  <2>3. tries' # 0
    BY <1>0, <2>1
  <2>4. proxy = "winmm" => ~complete
    BY <1>4 DEF Begin, More
  <2> QED BY <2>1, <2>2, <2>3, <2>4 DEF PacerInv, Untouched
<1>5. CASE Finish \/ NoWinsock \/ HookGetProc \/ EndPass \/ Resolve \/ Unlisted \/ WinResolve
  <2>1. UNCHANGED << proxy, tries, complete, pacing, queued, thread >>
    BY <1>5 DEF Finish, NoWinsock, HookGetProc, EndPass, Resolve, Unlisted, WinResolve
  <2>2. proxy = "winmm" => pc' \notin {"locks", "pace"}
    BY <1>5 DEF Finish, NoWinsock, HookGetProc, EndPass, Resolve, Unlisted, WinResolve, AfterPass
  <2>3. proxy = "dsound" /\ pc' \in {"pace", "thread"} => tries = 1
    BY <1>5 DEF Finish, NoWinsock, HookGetProc, EndPass, Resolve, Unlisted, WinResolve, AfterPass
  <2>4. pc \in {"idle", "done"} => pc' \in {"idle", "done"}
    BY <1>5 DEF Finish, NoWinsock, HookGetProc, EndPass, Resolve, Unlisted, WinResolve
  <2>5. pc # "thread"
    BY <1>5 DEF Finish, NoWinsock, HookGetProc, EndPass, Resolve, Unlisted, WinResolve
  <2> QED BY <2>1, <2>2, <2>3, <2>4, <2>5 DEF PacerInv, Untouched
<1>6. CASE WinEnd
  <2>1. /\ proxy = "winmm" /\ proxy' = "winmm" /\ pc = "patch"
        /\ UNCHANGED << pacing, queued, thread >>
    BY <1>6 DEF WinEnd
  <2>2. ~complete
    BY <2>1 DEF IInv, WindowsInv
  <2> QED BY <2>1, <2>2 DEF PacerInv, Untouched
<1>7. CASE WinLocks
  <2>1. /\ UNCHANGED << proxy, complete, tries, pacing, queued, thread >>
        /\ pc = "locks" /\ pc' = "pace"
    BY <1>7 DEF WinLocks
  <2>2. proxy = "winmm"
    BY <1>7 DEF WinLocks
  <2> QED BY <2>1, <2>2 DEF PacerInv, Untouched
<1>8. CASE PaceInit
  <2>1. /\ UNCHANGED << proxy, complete, tries >> /\ pc = "pace"
        /\ pc' \in {"idle", "thread"}
    BY <1>8 DEF PaceInit
  <2>2. proxy = "winmm" => complete
    BY <2>1 DEF IInv, WindowsInv
  <2>3. proxy = "dsound" => tries = 1
    BY <2>1 DEF PacerInv
  <2> QED BY <2>1, <2>2, <2>3 DEF PacerInv
<1>9. CASE PaceThread
  <2>1. UNCHANGED << proxy, complete, tries >> /\ pc = "thread" /\ pc' = "idle"
    BY <1>9 DEF PaceThread
  <2>2. proxy = "winmm" => complete
    BY <2>1 DEF IInv, WindowsInv
  <2>3. proxy = "dsound" => tries = 1
    BY <2>1 DEF PacerInv
  <2> QED BY <2>1, <2>2, <2>3 DEF PacerInv
<1> QED
  BY <1>1, <1>2, <1>3, <1>4, <1>5, <1>6, <1>7, <1>8, <1>9 DEF Next, Install

\* pace_init runs when the send hooks are already in place, and takes no lock, but it
\* never clears a queue that holds a datagram of the game.
THEOREM NoQueueCleared == Healthy /\ Spec => PaceInitKeepsQueue
<1> SUFFICES ASSUME Healthy PROVE Spec => PaceInitKeepsQueue
  BY DEF Healthy
<1>1. Init => IInv /\ PacerInv
  <2>1. Init => PacerInv
    BY DEF Init, PacerInv, Untouched
  <2> QED BY <2>1, InitOK
<1>2. IInv /\ PacerInv /\ [Next]_vars => IInv' /\ PacerInv'
  BY StepOK, PacerStep
<1>3. IInv /\ PacerInv => [PaceInit => queued' = queued]_vars
  <2> SUFFICES ASSUME IInv, PacerInv, PaceInit PROVE queued' = queued
    OBVIOUS
  <2>1. pc = "pace" /\ queued' = ((proxy = "winmm" /\ thread) /\ queued)
    BY DEF PaceInit
  <2>2. proxy \in {"winmm", "dsound"} /\ queued \in BOOLEAN
    BY DEF IInv, TypeOK
  <2>3. ~queued
    BY <2>1, <2>2 DEF PacerInv, Untouched
  <2> QED BY <2>1, <2>2, <2>3
<1> QED
  BY <1>1, <1>2, <1>3, PTL DEF Spec, PaceInitKeepsQueue

-----------------------------------------------------------------------------
(* The overlay's place in the chain *)

\* On Linux an entry the overlay holds is never swapped.  On Windows it is, and
\* then the overlay's function is saved until it is stored with its group, and
\* never looked up again once it is stored.
ChainHolds(f) ==
  \/ slot[Exe][f] = "upstream"
  \/ /\ proxy = "winmm" /\ slot[Exe][f] = "hook" /\ pc = "patch"
     /\ saved[f] = "upstream"
     /\ f \in Groups[group] \/ real[f] = "upstream"
  \/ /\ proxy = "winmm" /\ pc # "patch" /\ complete
     /\ real[f] = "upstream"

ChainInv == \A f \in Upstream : ChainHolds(f)

LEMMA ChainStep ==
  ASSUME Healthy, IInv, ChainInv, [Next]_vars PROVE ChainInv'
<1> SUFFICES ASSUME NEW f \in Upstream PROVE ChainHolds(f)'
  BY DEF ChainInv
<1>0. ChainHolds(f) /\ f \in Functions /\ Exe \in Modules
  BY DEF ChainInv
<1>k. ASSUME proxy = "winmm", complete
      PROVE  pc \in {"locks", "pace", "thread", "idle", "done"}
  BY <1>k DEF IInv, WindowsInv
<1>1. CASE UNCHANGED vars
  BY <1>0, <1>1 DEF vars, ChainHolds
<1>2. ASSUME NEW m \in Modules, LoadModule(m)
      PROVE  ChainHolds(f)'
  <2>1. m # Exe
    BY <1>2 DEF LoadModule, IInv, ExeBound
  <2>2. slot'[Exe] = slot[Exe]
    BY <1>2, <2>1 DEF LoadModule, IInv, TypeOK
  <2> QED BY <1>0, <1>2, <2>2 DEF LoadModule, ChainHolds
<1>3. ASSUME NEW g \in Functions, LookUp(g)
      PROVE  ChainHolds(f)'
  <2>1. proxy = "winmm" => ~getproc
    BY DEF IInv, WindowsInv
  <2>2. proxy = "winmm" => real' = real
    BY <1>3, <2>1 DEF LookUp
  <2> QED BY <1>0, <1>3, <2>2 DEF LookUp, ChainHolds
<1>4. CASE \/ Begin \/ Finish \/ NoWinsock \/ HookGetProc \/ WinLocks \/ PaceInit
           \/ PaceThread
  <2>1. UNCHANGED << proxy, slot, real, complete >> /\ pc # "patch" /\ pc' # "patch"
    BY <1>4 DEF Begin, Finish, NoWinsock, HookGetProc, WinLocks, PaceInit, PaceThread,
       AfterPass
  <2> QED BY <1>0, <2>1 DEF ChainHolds
<1>5. CASE EndPass \/ Resolve \/ Unlisted
  <2>1. slot[Exe][f] = "upstream"
    BY <1>0, <1>5 DEF ChainHolds, EndPass, Resolve, Unlisted
  <2> QED BY <1>5, <2>1 DEF EndPass, Resolve, Unlisted, ChainHolds
<1>11. CASE Send \/ Release
  BY <1>0, <1>11 DEF Send, Release, ChainHolds
<1>6. CASE WinResolve
  <2>1. slot[Exe][f] = "upstream"
    BY <1>0, <1>6, <1>k DEF ChainHolds, WinResolve
  <2> QED BY <1>6, <2>1 DEF WinResolve, ChainHolds
<1>7. ASSUME NEW g \in Functions, WinSwap(g)
      PROVE  ChainHolds(f)'
  <2>1. pc = "patch" /\ pc' = "patch" /\ proxy = "winmm" /\ proxy' = "winmm"
        /\ group' = group /\ real' = real /\ g \in todo
    BY <1>7 DEF WinSwap
  <2>2. slot[Exe] \in [Functions -> Pointers] /\ saved \in [Functions -> Pointers]
        /\ slot \in [Modules -> [Functions -> Pointers]]
    BY <1>0 DEF IInv, TypeOK
  <2>3. /\ slot'[Exe][f] = IF f = g THEN "hook" ELSE slot[Exe][f]
        /\ saved'[f] = IF f = g THEN slot[Exe][f] ELSE saved[f]
    BY <1>0, <1>7, <2>2 DEF WinSwap
  <2>4. CASE f # g
    BY <1>0, <2>1, <2>3, <2>4 DEF ChainHolds
  <2>5. CASE f = g
    <3>1. WindowsPatching
      BY <2>1 DEF IInv, WindowsInv
    <3>2. slot[Exe][f] # "hook" /\ f \in Groups[group]
      <4>1. ~Done(f)
        BY <2>1, <2>5, <3>1 DEF Done, WindowsPatching
      <4> QED BY <1>0, <2>1, <2>5, <3>1, <4>1 DEF WindowsPatching
    <3>3. slot[Exe][f] = "upstream"
      BY <1>0, <2>1, <3>2 DEF ChainHolds
    <3> QED BY <2>1, <2>3, <2>5, <3>2, <3>3 DEF ChainHolds
  <2> QED BY <2>4, <2>5
<1>8. ASSUME NEW g \in Functions, WinSkip(g)
      PROVE  ChainHolds(f)'
  BY <1>0, <1>8 DEF WinSkip, ChainHolds
<1>9. CASE WinStore \/ WinEnd
  <2>1. /\ pc = "patch" /\ proxy = "winmm" /\ proxy' = "winmm"
        /\ slot' = slot /\ saved' = saved /\ real' = Stored
    BY <1>9 DEF WinStore, WinEnd
  <2>2. CASE slot[Exe][f] = "upstream"
    BY <2>1, <2>2 DEF ChainHolds
  <2>3. CASE slot[Exe][f] # "upstream"
    <3>1. slot[Exe][f] = "hook" /\ saved[f] = "upstream"
          /\ (f \in Groups[group] \/ real[f] = "upstream")
      BY <1>0, <2>1, <2>3 DEF ChainHolds
    <3>2. real'[f] = "upstream"
      BY <1>0, <2>1, <3>1 DEF Stored
    <3>3. CASE WinStore
      BY <2>1, <3>1, <3>2, <3>3 DEF WinStore, ChainHolds
    <3>4. CASE WinEnd
      <4>1. \A x \in Essential : saved[x] # "null"
        BY <2>1, <3>4 DEF IInv, WindowsInv, WindowsPatching, WinEnd
      <4>2. complete' /\ pc' = "locks"
        BY <3>4, <4>1 DEF WinEnd
      <4> QED BY <2>1, <3>2, <4>2 DEF ChainHolds
    <3> QED BY <1>9, <3>3, <3>4
  <2> QED BY <2>2, <2>3
<1>10. ASSUME NEW m \in Modules, NEW refused \in SUBSET MayFail, PatchModule(m, refused)
       PROVE  ChainHolds(f)'
  <2>1. slot[Exe][f] = "upstream" /\ real[f] = "export"
    BY <1>0, <1>10 DEF ChainHolds, PatchModule, IInv, LinuxInv
  <2>2. slot'[Exe][f] = "upstream"
    BY <1>0, <1>10, <2>1 DEF PatchModule, IInv, TypeOK
  <2> QED BY <2>2 DEF ChainHolds
<1> QED
  BY <1>1, <1>2, <1>3, <1>4, <1>5, <1>6, <1>7, <1>8, <1>9, <1>10, <1>11 DEF Next, Install

\* An overlay that hooked the executable first keeps its place in the chain: its
\* entry is left alone, or its function is what our hook calls.
THEOREM OverlayStaysInChain == Healthy /\ Spec => []UpstreamKept
<1> SUFFICES ASSUME Healthy PROVE Spec => []UpstreamKept
  BY DEF Healthy
<1>1. Init => IInv /\ ChainInv
  <2>1. ASSUME Init, NEW f \in Upstream PROVE slot[Exe][f] = "upstream"
    <3>1. Exe \in Modules /\ f \in Functions
      OBVIOUS
    <3> QED BY <2>1, <3>1, SMT DEF Init
  <2>2. Init => ChainInv
    BY <2>1, Zenon DEF ChainInv, ChainHolds
  <2> QED BY <2>2, InitOK
<1>2. IInv /\ ChainInv /\ [Next]_vars => IInv' /\ ChainInv'
  BY StepOK, ChainStep
<1>3. ChainInv => UpstreamKept
  BY DEF ChainInv, ChainHolds, UpstreamKept
<1> QED
  BY <1>1, <1>2, <1>3, PTL DEF Spec

-----------------------------------------------------------------------------
(* What a Linux pass leaves uncovered *)

Accounted(m, f) == slot[m][f] = "export" => << m, f >> \in missed

\* During a pass the modules that were looked at, and after it all of them, have
\* no entry past the hooks that is not known to be missed.
CoverInv ==
  last = "listed" =>
    /\ proxy = "dsound"
    /\ \A m \in loaded, f \in Functions : Accounted(m, f) \/ (pc = "patch" /\ m \in todo)

LEMMA CoverStep ==
  ASSUME IInv, CoverInv, [Next]_vars PROVE CoverInv'
<1> SUFFICES ASSUME last' = "listed" PROVE CoverInv'
  BY DEF CoverInv
<1>1. CASE UNCHANGED vars
  BY <1>1 DEF vars, CoverInv, Accounted
<1>2. ASSUME NEW m \in Modules, LoadModule(m)
      PROVE  CoverInv'
  <2>1. /\ loaded' = loaded \cup {m}
        /\ \A f \in Functions : << m, f >> \in missed'
        /\ missed \subseteq missed'
        /\ UNCHANGED << proxy, pc, todo, last >>
    BY <1>2 DEF LoadModule
  <2>2. \A n \in Modules : n # m => slot'[n] = slot[n]
    BY <1>2 DEF LoadModule, IInv, TypeOK
  <2>3. loaded \subseteq Modules
    BY DEF IInv, TypeOK
  <2>4. \A n \in loaded', f \in Functions :
          n = m \/ (n \in loaded /\ Accounted(n, f)) => Accounted(n, f)'
    BY <2>1, <2>2, <2>3 DEF Accounted
  <2> QED BY <2>1, <2>4 DEF CoverInv
<1>3. CASE \/ (\E g \in Functions : LookUp(g)) \/ Send \/ Release
  <2>1. UNCHANGED << proxy, loaded, slot, pc, todo, last, missed >>
    BY <1>3 DEF LookUp, Send, Release
  <2> QED BY <2>1 DEF CoverInv, Accounted
\* Outside patching nothing but the control changes, and every entry is accounted for.
<1>4. CASE \/ Begin \/ HookGetProc \/ Finish \/ NoWinsock \/ PaceInit \/ PaceThread
           \/ WinLocks
  <2>1. UNCHANGED << proxy, loaded, slot, missed >> /\ last = "listed" /\ pc # "patch"
    BY <1>4 DEF Begin, HookGetProc, Finish, NoWinsock, PaceInit, PaceThread, WinLocks
  <2> QED BY <2>1 DEF CoverInv, Accounted
<1>5. CASE EndPass
  <2>1. UNCHANGED << proxy, loaded, slot, missed, last >> /\ todo = {}
    BY <1>5 DEF EndPass
  <2> QED BY <2>1 DEF CoverInv, Accounted
<1>6. ~Unlisted
  BY DEF Unlisted
<1>7. CASE Resolve
  <2>1. pc' = "patch" /\ todo' = loaded /\ loaded' = loaded /\ proxy' = "dsound"
    BY <1>7 DEF Resolve
  <2> QED BY <2>1 DEF CoverInv
<1>8. ASSUME NEW m \in Modules, NEW refused \in SUBSET MayFail, PatchModule(m, refused)
      PROVE  CoverInv'
  <2>1. /\ pc = "patch" /\ pc' = "patch" /\ loaded' = loaded /\ todo' = todo \ {m}
        /\ missed' = missed \cup ({m} \X refused)
        /\ UNCHANGED << proxy, last >> /\ proxy = "dsound"
        /\ \A f \in Functions : real[f] = "export"
    BY <1>8 DEF PatchModule, IInv, LinuxInv
  <2>2. \A n \in Modules : n # m => slot'[n] = slot[n]
    BY <1>8 DEF PatchModule, IInv, TypeOK
  <2>3. \A f \in Functions : slot'[m][f] = "export" => f \in refused
    BY <1>8, <2>1 DEF PatchModule, IInv, TypeOK
  <2>4. \A f \in Functions : Accounted(m, f)'
    BY <2>1, <2>3 DEF Accounted
  <2>5. \A n \in loaded, f \in Functions : n # m => Accounted(n, f)' \/ n \in todo'
    <3>1. \A n \in loaded, f \in Functions : Accounted(n, f) \/ n \in todo
      BY <2>1 DEF CoverInv
    <3>2. loaded \subseteq Modules
      BY DEF IInv, TypeOK
    <3> QED BY <2>1, <2>2, <3>1, <3>2 DEF Accounted
  <2> QED BY <2>1, <2>4, <2>5 DEF CoverInv
<1>9. ~(WinResolve \/ WinStore \/ WinEnd \/ \E f \in Functions : WinSwap(f) \/ WinSkip(f))
  BY DEF CoverInv, WinResolve, WinStore, WinEnd, WinSwap, WinSkip
<1> QED
  BY <1>1, <1>2, <1>3, <1>4, <1>5, <1>6, <1>7, <1>8, <1>9 DEF Next, Install

\* After every pass on Linux that could list the modules, whatever was loaded or
\* refused meanwhile, an import that still goes past the hooks is a known one: its
\* page could not be unlocked, or its module came in too late.
THEOREM PassCovers == Healthy /\ Spec => []CoveredAfterPass
<1> SUFFICES ASSUME Healthy PROVE Spec => []CoveredAfterPass
  BY DEF Healthy
<1>1. Init => IInv /\ CoverInv
  <2>1. Init => CoverInv
    BY DEF Init, CoverInv
  <2> QED BY <2>1, InitOK
<1>2. IInv /\ CoverInv /\ [Next]_vars => IInv' /\ CoverInv'
  BY StepOK, CoverStep
<1>3. CoverInv => CoveredAfterPass
  BY DEF CoverInv, Accounted, CoveredAfterPass, Covered
<1> QED
  BY <1>1, <1>2, <1>3, PTL DEF Spec
=============================================================================
