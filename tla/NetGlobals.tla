------------------------------ MODULE NetGlobals ------------------------------
(***************************************************************************)
(* The thread that writes the game's [Net] tunables (shared/net_globals.h, *)
(* net_patch_thread in dsound_proxy.cpp, NetPatchThread in                 *)
(* netcode_hooks.cpp), against the game's parser, which rewrites them at   *)
(* every match start, one after the other and at any point of a pass.      *)
(* Net in a name tells it from that of the other thread that writes the    *)
(* game's memory, in GovPatch.                                             *)
(***************************************************************************)
EXTENDS Naturals

CONSTANTS
  N,          \* kNetGlobalCount
  Lo, Hi,     \* per entry, the sanity gate
  Tune,       \* kNetTunePreset, 0 where there is none
  Relax,      \* kAutoKickRelaxPreset, likewise
  Env,        \* what an entry's variable may say: a number, or
  Unset,      \* nothing that parses
  GameValues, \* what the addresses may hold
  MaxMatches  \* bound: matches started

Globals == 1 .. N

ASSUME GlobalsAssumption ==
  /\ N \in Nat /\ MaxMatches \in Nat
  /\ {Lo, Hi, Tune, Relax} \subseteq [Globals -> Nat]
  /\ Unset \notin Nat /\ Env \subseteq Nat \cup {Unset}
  /\ GameValues \subseteq Nat
  /\ \A e \in Globals : /\ Lo[e] > 0
                        /\ {Tune[e], Relax[e]} \subseteq {0} \cup Lo[e] .. Hi[e]

VARIABLES
  tuneOn,    \* BZ_NET_TUNE
  relaxOn,   \* BZ_AUTOKICK_RELAX
  env,       \* per entry, its own variable
  sigs,      \* matches of the version signature
  want,      \* g_net_tbl[e].want, 0 to leave the game's value alone
  state,     \* g_net_tbl[e].state
  seen,      \* g_net_tbl[e].seen
  mem,       \* the .data globals
  game,      \* history: what the game has last written to each
  pc, i,     \* where the thread is, and its entry
  stop,      \* g_net_stop
  matches,   \* matches started
  parsing    \* entries the parser has yet to write

config == << tuneOn, relaxOn, env, sigs, want >>
netVars == << config, state, seen, mem, game, pc, i, stop, matches, parsing >>

Plausible(e, v) == v \in Lo[e] .. Hi[e]

\* net_globals_configure: the presets, then the entry's variable, unless the gate
\* would reject it.
NetTarget(e) ==
  LET preset == IF relaxOn /\ Relax[e] # 0 THEN Relax[e] ELSE IF tuneOn THEN Tune[e] ELSE 0
      asked == IF env[e] = Unset THEN preset ELSE env[e]
  IN  IF asked # 0 /\ ~Plausible(e, asked) THEN preset ELSE asked

NetInit ==
  /\ tuneOn \in BOOLEAN /\ relaxOn \in BOOLEAN
  /\ env \in [Globals -> Env]
  /\ sigs \in 0 .. 2
  /\ want = [e \in Globals |-> NetTarget(e)]
  /\ state = [e \in Globals |-> "pending"]
  /\ seen = [e \in Globals |-> 0]
  /\ mem \in [Globals -> GameValues]
  /\ game = mem
  /\ pc = "asleep" /\ i = 0
  /\ stop = FALSE
  /\ matches = 0 /\ parsing = {}

-----------------------------------------------------------------------------
(* The thread *)

\* net_globals_any: nothing to do; or, after the sleep, a build nobody knows.
Attach ==
  /\ pc = "asleep"
  /\ pc' = IF sigs = 1 /\ \E e \in Globals : want[e] # 0 THEN "poll" ELSE "ended"
  /\ UNCHANGED << config, state, seen, mem, game, i, stop, matches, parsing >>

NetPoll ==
  /\ pc = "poll"
  /\ pc' = IF stop THEN "ended" ELSE "apply"
  /\ i' = 1
  /\ UNCHANGED << config, state, seen, mem, game, stop, matches, parsing >>

\* Mutants of Read: an entry is written once; the gate does not keep from writing.
ReadOnce ==
  /\ pc = "apply" /\ i <= N
  /\ IF want[i] = 0 \/ state[i] # "pending"
       THEN i' = i + 1 /\ UNCHANGED << pc, state, seen >>
       ELSE /\ seen' = [seen EXCEPT ![i] = mem[i]]
            /\ state' = [state EXCEPT ![i] =
                 IF Plausible(i, mem[i]) THEN "applied" ELSE "vetoed"]
            /\ IF state'[i] = "applied" /\ mem[i] # want[i]
                 THEN pc' = "store" /\ UNCHANGED i
                 ELSE i' = i + 1 /\ UNCHANGED pc
  /\ UNCHANGED << config, mem, game, stop, matches, parsing >>

ReadUngated ==
  /\ pc = "apply" /\ i <= N
  /\ IF want[i] = 0
       THEN i' = i + 1 /\ UNCHANGED << pc, state, seen >>
       ELSE /\ seen' = [seen EXCEPT ![i] = IF state[i] = "pending" THEN mem[i] ELSE @]
            /\ state' = [state EXCEPT ![i] = "applied"]
            /\ IF mem[i] # want[i] THEN pc' = "store" /\ UNCHANGED i
                                   ELSE i' = i + 1 /\ UNCHANGED pc
  /\ UNCHANGED << config, mem, game, stop, matches, parsing >>

\* net_globals_apply up to the store: the value is read, judged on first contact only,
\* and to be replaced when it is not the target.
Read ==
  /\ pc = "apply" /\ i <= N
  /\ IF want[i] = 0 \/ state[i] = "vetoed"
       THEN i' = i + 1 /\ UNCHANGED << pc, state, seen >>
       ELSE /\ seen' = [seen EXCEPT ![i] = IF state[i] = "pending" THEN mem[i] ELSE @]
            /\ state' = [state EXCEPT ![i] =
                 IF @ = "pending" /\ ~Plausible(i, mem[i]) THEN "vetoed" ELSE "applied"]
            /\ IF state'[i] = "applied" /\ mem[i] # want[i]
                 THEN pc' = "store" /\ UNCHANGED i
                 ELSE i' = i + 1 /\ UNCHANGED pc
  /\ UNCHANGED << config, mem, game, stop, matches, parsing >>

\* The store, over whatever the game has written since.
Store ==
  /\ pc = "store"
  /\ mem' = [mem EXCEPT ![i] = want[i]]
  /\ i' = i + 1
  /\ pc' = "apply"
  /\ UNCHANGED << config, state, seen, game, stop, matches, parsing >>

EndPass ==
  /\ pc = "apply" /\ i > N
  /\ pc' = "poll"
  /\ UNCHANGED << config, state, seen, mem, game, i, stop, matches, parsing >>

Thread == Attach \/ NetPoll \/ Read \/ Store \/ EndPass

-----------------------------------------------------------------------------
(* The game, and the end of the process *)

MatchStarts ==
  /\ matches < MaxMatches /\ parsing = {}
  /\ matches' = matches + 1
  /\ parsing' = Globals
  /\ UNCHANGED << config, state, seen, mem, game, pc, i, stop >>

\* The parser writes an entry, from net.ini or its own default.
Parse(e, v) ==
  /\ e \in parsing
  /\ mem' = [mem EXCEPT ![e] = v]
  /\ game' = [game EXCEPT ![e] = v]
  /\ parsing' = parsing \ {e}
  /\ UNCHANGED << config, state, seen, pc, i, stop, matches >>

Shutdown ==
  /\ ~stop
  /\ stop' = TRUE
  /\ UNCHANGED << config, state, seen, mem, game, pc, i, matches, parsing >>

NetNext ==
  \/ Thread
  \/ MatchStarts \/ Shutdown
  \/ \E e \in Globals, v \in GameValues : Parse(e, v)

NetSpec == NetInit /\ [][NetNext]_netVars /\ WF_netVars(Thread)
-----------------------------------------------------------------------------
(* Properties *)

\* The environment asks for v: "a per-key BZ_NET_* / BZ_AUTOKICK_* variable always
\* wins, and 0 explicitly means leave the game's value alone" (net_globals.h:328).
Asked(e, v) ==
  \/ env[e] = v
  \/ /\ env[e] = Unset \/ (env[e] # 0 /\ ~Plausible(e, env[e]))
     /\ \/ relaxOn /\ v = Relax[e]
        \/ tuneOn /\ v = Tune[e] /\ ~(relaxOn /\ Relax[e] # 0)

\* Whatever the order of polls, parses and the end, an address that holds something the
\* game did not write holds what the environment asked for, in a build that is known,
\* and looked right on first contact ("a wrong address is vetoed and logged rather than
\* written blind", dsound_proxy.cpp:2814).
WritesOnlyWhatIsAsked ==
  \A e \in Globals :
    mem[e] # game[e] => /\ Asked(e, mem[e]) /\ mem[e] # 0
                        /\ sigs = 1
                        /\ Plausible(e, seen[e])

\* Our value wins in the end, however the parser comes in between the read and the
\* store ("within one tick of any match starting, our value wins over both net.ini and
\* the stock default", net_globals.h:16), unless the process ends, the entry is vetoed
\* or the build is not known.
OursWins ==
  <>[](\/ stop \/ sigs # 1
       \/ \A e \in Globals : want[e] = 0 \/ state[e] = "vetoed" \/ mem[e] = want[e])
=============================================================================
