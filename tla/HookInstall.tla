----------------------------- MODULE HookInstall -----------------------------
(***************************************************************************)
(* How the two proxies put their hooks between the game and winsock.       *)
(*                                                                         *)
(* Windows ("winmm"): HookThread (winmm_proxy/src/dllmain.cpp) runs        *)
(* InstallNetcodeHooks (netcode_hooks.cpp) until the two essential imports *)
(* of the game's executable are patched.  Linux ("dsound"): DllMain and    *)
(* hook_worker_thread (dsound_proxy.cpp) run hook_setsockopt_iat over all  *)
(* loaded modules a fixed number of times, and GetProcAddress of the       *)
(* executable is hooked as well.  Meanwhile the game loads modules, looks  *)
(* functions up and sends.                                                 *)
(*                                                                         *)
(* Not all set-up comes before the hooks.  The settings and the tables of  *)
(* the receive side, the damper, the sampler and net_globals do; the locks *)
(* of the pacer, the sampler and the completion hook come after the hooks  *)
(* on Windows, and pace_init(&g_tx), which takes no lock, on both.         *)
(*                                                                         *)
(* A function is known by what a pointer to it holds: winsock's export, an *)
(* upstream hook some overlay put there first, or our hook, which calls    *)
(* the saved original, real.                                               *)
(***************************************************************************)
EXTENDS Naturals, Sequences

CONSTANTS
  Functions,  \* the winsock functions that are hooked
  Modules,    \* modules of the process
  Exe,        \* the game's executable, one of them
  Imports,    \* per module, the functions it imports
  Upstream,   \* imports of the executable an overlay has hooked already
  MayFail,    \* functions whose import VirtualProtect may refuse to unlock
  Groups,     \* Windows: the functions in the order they are patched; the
              \* originals of a group are stored after the whole group is
  SendHooks,  \* sendto, WSASendTo: the functions whose hooks offer to the pacer
  Proxies,    \* which of "winmm" and "dsound" are looked at
  MaxTries    \* 161: the first pass and 160 more

ASSUME HookAssumption ==
  /\ Exe \in Modules
  /\ Imports \in [Modules -> SUBSET Functions]
  /\ Upstream \subseteq Imports[Exe]
  /\ MayFail \subseteq Functions /\ SendHooks \subseteq Functions
  /\ Groups \in Seq(SUBSET Functions) /\ Len(Groups) > 0
  /\ \A i, j \in 1 .. Len(Groups) : i # j => Groups[i] \cap Groups[j] = {}
  /\ Proxies \subseteq {"winmm", "dsound"}
  /\ MaxTries \in Nat

VARIABLES
  proxy,     \* which proxy this process has
  loaded,    \* the modules loaded
  slot,      \* per module and function, its import table entry
  dyn,       \* per function, what the game got from GetProcAddress
  getproc,   \* Linux: g_installed_getproc_hook
  real,      \* g_realX, g_real_x
  saved,     \* Windows: savedRealX, of the current pass
  pc,        \* where the installing thread is
  group,     \* Windows: the group being patched
  todo,      \* functions of the group, or modules of the snapshot, to do
  tries,     \* passes so far
  complete,  \* Windows: g_hooks_complete
  last,      \* Linux: how the last pass that is over, or is patching, went
  missed,    \* Linux: slots whose page was refused to that pass, and all slots
             \* of the modules loaded since
  locked,    \* g_pace_cs_ready: until then a send is not offered to the pacer
  rate,      \* g_pace_rate, what is asked of the pacer, is not 0
  pacing,    \* g_tx.rate_bps is not 0
  queued,    \* g_tx holds a datagram of the game
  thread     \* the pacer thread runs; Windows: g_pace_thread

passVars == << pc, group, todo, tries, complete, last, missed >>
pacerVars == << locked, rate, pacing, queued, thread >>
vars == << proxy, loaded, slot, dyn, getproc, real, saved, passVars, pacerVars >>

Pointers == {"null", "export", "upstream", "hook"}
Null == [f \in Functions |-> "null"]

Essential == Groups[1]

TypeOK ==
  /\ proxy \in Proxies
  /\ loaded \subseteq Modules
  /\ slot \in [Modules -> [Functions -> Pointers]]
  /\ dyn \in [Functions -> Pointers]
  /\ getproc \in BOOLEAN
  /\ real \in [Functions -> Pointers]
  /\ saved \in [Functions -> Pointers]
  /\ pc \in {"idle", "getproc", "resolve", "patch", "locks", "pace", "thread", "done"}
  /\ group \in 0 .. Len(Groups)
  /\ todo \subseteq Functions \cup Modules
  /\ tries \in 0 .. MaxTries
  /\ complete \in BOOLEAN
  /\ last \in {"none", "failed", "unlisted", "listed"}
  /\ missed \subseteq Modules \X Functions
  /\ locked \in BOOLEAN /\ rate \in BOOLEAN /\ pacing \in BOOLEAN
  /\ queued \in BOOLEAN /\ thread \in BOOLEAN

Bound(m) == [f \in Functions |-> IF f \in Imports[m] THEN "export" ELSE "null"]

Init ==
  /\ proxy \in Proxies
  /\ loaded = {Exe}
  /\ slot = [m \in Modules |->
       IF m # Exe THEN Null
       ELSE [f \in Functions |-> IF f \in Upstream THEN "upstream" ELSE Bound(Exe)[f]]]
  /\ dyn = Null
  /\ getproc = FALSE
  /\ real = Null /\ saved = Null
  /\ pc = "idle" /\ group = 0 /\ todo = {}
  /\ tries = 0
  /\ complete = FALSE
  /\ last = "none" /\ missed = {}
  /\ locked = (proxy = "dsound")
  /\ rate \in BOOLEAN
  /\ pacing = FALSE /\ queued = FALSE /\ thread = FALSE

-----------------------------------------------------------------------------
(* The game *)

\* The loader binds the imports of a module to winsock's exports.
LoadModule(m) ==
  /\ m \notin loaded
  /\ loaded' = loaded \cup {m}
  /\ slot' = [slot EXCEPT ![m] = Bound(m)]
  /\ missed' = missed \cup ({m} \X Functions)
  /\ UNCHANGED << proxy, dyn, getproc, real, saved, pc, group, todo, tries, complete,
                  last, pacerVars >>

\* Mutant of LookUp: the hook is given out without its original.
LookUpBare(f) ==
  /\ dyn' = [dyn EXCEPT ![f] = IF getproc THEN "hook" ELSE "export"]
  /\ UNCHANGED << proxy, loaded, slot, getproc, real, saved, passVars, pacerVars >>

\* The executable looks a function up; on Linux, once hooked_GetProcAddress is
\* in place, it gets the hook, and the original is stored first.
LookUp(f) ==
  /\ IF getproc THEN /\ real' = [real EXCEPT ![f] = "export"]
                     /\ dyn' = [dyn EXCEPT ![f] = "hook"]
                ELSE /\ dyn' = [dyn EXCEPT ![f] = "export"]
                     /\ UNCHANGED real
  /\ UNCHANGED << proxy, loaded, slot, getproc, saved, passVars, pacerVars >>

Hooked(f) == dyn[f] = "hook" \/ \E m \in Modules : slot[m][f] = "hook"

\* A hooked send is offered to the pacer, which queues it ...
Send ==
  /\ \E f \in SendHooks : Hooked(f)
  /\ locked /\ pacing
  /\ queued' = TRUE
  /\ UNCHANGED << proxy, loaded, slot, dyn, getproc, real, saved, passVars,
                  locked, rate, pacing, thread >>

\* ... until the pacer thread releases it or the close of a socket flushes it.
Release ==
  /\ queued
  /\ queued' = FALSE
  /\ UNCHANGED << proxy, loaded, slot, dyn, getproc, real, saved, passVars,
                  locked, rate, pacing, thread >>

-----------------------------------------------------------------------------
(* A pass of either proxy begins, and the last one ends *)

More == tries < MaxTries /\ (proxy = "winmm" => ~complete)

Begin ==
  /\ pc = "idle"
  /\ More
  /\ tries' = tries + 1
  /\ pc' = IF proxy = "dsound" THEN "getproc" ELSE "resolve"
  /\ UNCHANGED << proxy, loaded, slot, dyn, getproc, real, saved, group, todo, complete,
                  last, missed, pacerVars >>

Finish ==
  /\ pc = "idle"
  /\ ~More
  /\ pc' = "done"
  /\ UNCHANGED << proxy, loaded, slot, dyn, getproc, real, saved, group, todo, tries,
                  complete, last, missed, pacerVars >>

\* Mutant of AfterPass: every Linux pass sets the pacer up.
AfterEachPass == IF proxy = "dsound" THEN "pace" ELSE "idle"

\* On Linux DllMain makes the first pass and sets the pacer up after it; the
\* thread of the further passes starts when DllMain has returned.
AfterPass == IF proxy = "dsound" /\ tries = 1 THEN "pace" ELSE "idle"

\* ws2_32.dll is not there and cannot be loaded, or lacks the functions: the pass
\* is over, and says that it failed.
NoWinsock ==
  /\ pc = "resolve"
  /\ pc' = AfterPass
  /\ last' = IF proxy = "dsound" THEN "failed" ELSE last
  /\ UNCHANGED << proxy, loaded, slot, dyn, getproc, real, saved, group, todo, tries,
                  complete, missed, pacerVars >>

-----------------------------------------------------------------------------
(* The pacer is set up, on both proxies once the hooks are in place *)

\* pace_init clears the queue and sets the rate, without the lock.  A further pass
\* of Windows does so again unless the thread is there.
PaceInit ==
  LET done == proxy = "winmm" /\ thread
  IN  /\ pc = "pace"
      /\ pacing' = IF done THEN pacing ELSE rate
      /\ queued' = (done /\ queued)
      /\ pc' = IF done THEN "idle" ELSE "thread"
      /\ UNCHANGED << proxy, loaded, slot, dyn, getproc, real, saved, group, todo, tries,
                      complete, last, missed, locked, rate, thread >>

\* The thread is made, or pacing is turned off for good.
PaceThread ==
  /\ pc = "thread"
  /\ thread' \in BOOLEAN
  /\ rate' = (rate /\ thread')
  /\ pacing' = (pacing /\ thread')
  /\ pc' = "idle"
  /\ UNCHANGED << proxy, loaded, slot, dyn, getproc, real, saved, group, todo, tries,
                  complete, last, missed, locked, queued >>

-----------------------------------------------------------------------------
(* Windows: InstallNetcodeHooks *)

\* The originals are looked up anew in every pass, and the settings and tables
\* that come before the hooks (reorder_init, rtt_init, dampen_init, net_globals)
\* are set up.
WinResolve ==
  /\ pc = "resolve" /\ proxy = "winmm"
  /\ real' = [f \in Functions |-> "export"]
  /\ saved' = Null
  /\ group' = 1
  /\ todo' = Groups[1]
  /\ pc' = "patch"
  /\ UNCHANGED << proxy, loaded, slot, dyn, getproc, tries, complete, last, missed,
                  pacerVars >>

\* PatchIAT swaps the import of f, whatever it holds ...
WinSwap(f) ==
  /\ pc = "patch" /\ proxy = "winmm"
  /\ f \in todo
  /\ f \in Imports[Exe]
  /\ saved' = [saved EXCEPT ![f] = slot[Exe][f]]
  /\ slot' = [slot EXCEPT ![Exe][f] = "hook"]
  /\ todo' = todo \ {f}
  /\ UNCHANGED << proxy, loaded, dyn, getproc, real, pc, group, tries, complete, last,
                  missed, pacerVars >>

\* ... or finds no such import, or may not write to it.
WinSkip(f) ==
  /\ pc = "patch" /\ proxy = "winmm"
  /\ f \in todo
  /\ f \notin Imports[Exe] \/ f \in MayFail
  /\ todo' = todo \ {f}
  /\ UNCHANGED << proxy, loaded, slot, dyn, getproc, real, saved, pc, group, tries,
                  complete, last, missed, pacerVars >>

Stored == [f \in Functions |->
             IF f \in Groups[group] /\ saved[f] # "null" THEN saved[f] ELSE real[f]]

\* Mutants: the originals stay winsock's exports; the essential hooks are not
\* found to be in place, so the next pass patches them again.
WinStoreExports ==
  /\ pc = "patch" /\ proxy = "winmm"
  /\ todo = {}
  /\ group < Len(Groups)
  /\ group' = group + 1
  /\ todo' = Groups[group + 1]
  /\ UNCHANGED << proxy, loaded, slot, dyn, getproc, real, saved, pc, tries, complete,
                  last, missed, pacerVars >>

WinEndAgain ==
  /\ pc = "patch" /\ proxy = "winmm"
  /\ todo = {}
  /\ group = Len(Groups)
  /\ real' = Stored
  /\ pc' = "locks"
  /\ UNCHANGED << proxy, loaded, slot, dyn, getproc, saved, group, todo, tries, complete,
                  last, missed, pacerVars >>

\* The originals of the group become what the hooks call; then the next group ...
WinStore ==
  /\ pc = "patch" /\ proxy = "winmm"
  /\ todo = {}
  /\ group < Len(Groups)
  /\ real' = Stored
  /\ group' = group + 1
  /\ todo' = Groups[group + 1]
  /\ UNCHANGED << proxy, loaded, slot, dyn, getproc, saved, pc, tries, complete, last,
                  missed, pacerVars >>

\* ... until the last: the hooks are in place.  (g_hooks_complete is set earlier in
\* the pass, but read only after it.)
WinEnd ==
  /\ pc = "patch" /\ proxy = "winmm"
  /\ todo = {}
  /\ group = Len(Groups)
  /\ real' = Stored
  /\ complete' = (complete \/ \A f \in Essential : saved[f] # "null")
  /\ pc' = "locks"
  /\ UNCHANGED << proxy, loaded, slot, dyn, getproc, saved, group, todo, tries, last,
                  missed, pacerVars >>

\* Only now g_pace_cs, g_rtt_cs and g_iocp_cs are initialised, once.
WinLocks ==
  /\ pc = "locks" /\ proxy = "winmm"
  /\ locked' = TRUE
  /\ pc' = "pace"
  /\ UNCHANGED << proxy, loaded, slot, dyn, getproc, real, saved, group, todo, tries,
                  complete, last, missed, rate, pacing, queued, thread >>

-----------------------------------------------------------------------------
(* Linux: hook_setsockopt_iat *)

\* install_getproc_hook_main_module: once, if it can.
HookGetProc ==
  /\ pc = "getproc"
  /\ getproc' \in {TRUE, getproc}
  /\ pc' = "resolve"
  /\ UNCHANGED << proxy, loaded, slot, dyn, real, saved, group, todo, tries, complete,
                  last, missed, pacerVars >>

LookedUp == [f \in Functions |-> IF real[f] = "null" THEN "export" ELSE real[f]]

\* Mutant of Resolve: only the executable is listed.
ResolveExe ==
  /\ pc = "resolve" /\ proxy = "dsound"
  /\ real' = LookedUp
  /\ todo' = {Exe}
  /\ last' = "listed" /\ missed' = {}
  /\ pc' = "patch"
  /\ UNCHANGED << proxy, loaded, slot, dyn, getproc, saved, group, tries, complete,
                  pacerVars >>

\* Originals that are not known yet are looked up, past our own GetProcAddress
\* hook, and the modules of the process listed ...
Resolve ==
  /\ pc = "resolve" /\ proxy = "dsound"
  /\ real' = LookedUp
  /\ todo' = loaded
  /\ last' = "listed" /\ missed' = {}
  /\ pc' = "patch"
  /\ UNCHANGED << proxy, loaded, slot, dyn, getproc, saved, group, tries, complete,
                  pacerVars >>

\* ... or they cannot be listed: nothing is patched, and the pass says that it
\* succeeded.
Unlisted ==
  /\ pc = "resolve" /\ proxy = "dsound"
  /\ real' = LookedUp
  /\ last' = "unlisted" /\ missed' = {}
  /\ pc' = AfterPass
  /\ UNCHANGED << proxy, loaded, slot, dyn, getproc, saved, group, todo, tries, complete,
                  pacerVars >>

\* patch_module_ws2_iat_by_pointer: entries of the module that hold the original
\* are swapped, except those in refused.  No other thread writes to them.
PatchModule(m, refused) ==
  /\ pc = "patch" /\ proxy = "dsound"
  /\ m \in todo
  /\ slot' = [slot EXCEPT ![m] =
       [f \in Functions |-> IF slot[m][f] = real[f] /\ f \notin refused
                              THEN "hook" ELSE slot[m][f]]]
  /\ missed' = missed \cup ({m} \X refused)
  /\ todo' = todo \ {m}
  /\ UNCHANGED << proxy, loaded, dyn, getproc, real, saved, pc, group, tries, complete,
                  last, pacerVars >>

EndPass ==
  /\ pc = "patch" /\ proxy = "dsound"
  /\ todo = {}
  /\ pc' = AfterPass
  /\ UNCHANGED << proxy, loaded, slot, dyn, getproc, real, saved, group, todo, tries, complete,
                  last, missed, pacerVars >>

Install ==
  \/ Begin \/ Finish \/ NoWinsock
  \/ PaceInit \/ PaceThread
  \/ WinResolve \/ WinStore \/ WinEnd \/ WinLocks
  \/ \E f \in Functions : WinSwap(f) \/ WinSkip(f)
  \/ HookGetProc \/ Resolve \/ Unlisted \/ EndPass
  \/ \E m \in Modules : \E refused \in SUBSET MayFail : PatchModule(m, refused)

Next ==
  \/ Install
  \/ \E m \in Modules : LoadModule(m)
  \/ \E f \in Functions : LookUp(f)
  \/ Send \/ Release

Spec == Init /\ [][Next]_vars /\ WF_vars(Install)
-----------------------------------------------------------------------------
(* Properties *)

\* A call that enters a hook comes out at winsock, by way of the overlay or
\* directly: the original of a function that can be reached is never missing and
\* never the hook itself ("InstallNetcodeHooks is idempotent (PatchIAT skips an
\* entry that already points at our hook)", dllmain.cpp:131), in whatever order
\* passes, look-ups and module loads come.
HookReaches == \A f \in Functions : Hooked(f) => real[f] \in {"export", "upstream"}

\* An overlay that hooked the executable first keeps its place in the chain ("any
\* upstream IAT hook (e.g. Steam overlay) is preserved in the chain",
\* netcode_hooks.cpp:2966), but while a pass is between the swap and the store.
UpstreamKept ==
  pc # "patch" => \A f \in Upstream : slot[Exe][f] = "upstream" \/ real[f] = "upstream"

\* The settings, and the tables of the receive side, the damper, the sampler and
\* net_globals, are set up without their locks (netcode_hooks.cpp:2811-2908) only
\* while no hook can use them.
InitBeforeTraffic ==
  [][ proxy = "winmm" /\ pc = "resolve" /\ pc' = "patch"
        => \A f \in Functions : ~Hooked(f) ]_vars

\* pace_init clears g_tx behind the backs of send hooks that are already in place,
\* but never a queue that holds a datagram of the game.
PaceInitKeepsQueue == [][PaceInit => queued' = queued]_vars

\* The same order for the pacer: g_tx is set up before a send can reach it.  The code
\* does not keep it (netcode_hooks.cpp:3114 and 3204).
PaceInitBeforeTraffic == [][PaceInit => \A f \in SendHooks : ~Hooked(f)]_vars

Covered == \A m \in loaded, f \in Functions : slot[m][f] = "export" => << m, f >> \in missed

\* After a Linux pass that could list the modules, and until the next one begins to
\* patch, the only imports that still go past the hooks are those whose page could
\* not be unlocked and those of modules that came in too late.
CoveredAfterPass == last = "listed" /\ pc # "patch" => Covered

\* The same of every pass that says it succeeded (hook_setsockopt_iat returns true).
SuccessMeansCovered == last \in {"unlisted", "listed"} /\ pc # "patch" => Covered
=============================================================================
