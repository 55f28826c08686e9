-------------------------------- MODULE Daemon --------------------------------
(***************************************************************************)
(* The daemon (src/app.ts): it starts an updater session per account,      *)
(* replaces them and its health server on SIGHUP, puts the old ones back   *)
(* when that fails, and stops them on a signal to end, which may come at   *)
(* any time.                                                               *)
(*                                                                         *)
(* A session is module UpdaterLoop reduced to what the daemon sees: start  *)
(* and stop that take time and may fail with the cycle they wait for.  One *)
(* action is the code between two awaits; waiting for flushNotifications   *)
(* (module RuntimeBundle) after stop() is part of the wait before it.      *)
(***************************************************************************)
EXTENDS Accounts

CONSTANTS
    Files,        \* the account lists the accounts file may hold
    ProcessEnv,   \* the settings of the process
    Ids,          \* the ids of the primary accounts in them
    Healths,      \* the health server settings that are enabled
    Generations   \* bound: the generations of sessions there can be at a time

ASSUME GenerationAssumption == 0 \notin Generations
ASSUME HealthAssumption == Healths \cap {"off", "invalid", "none"} = {}
ASSUME IdAssumption ==
    \A list \in Files : \A i \in DOMAIN list : list[i].role # "failover" => list[i].id \in Ids

VARIABLES
    session,      \* the sessions of each generation, by account id
    config,       \* the accounts of each generation
    bundles,      \* the generation the daemon works with; 0 before the first
    previous,     \* the one a reload replaces
    wasRunning,
    pc,           \* where main or a reload waits
    health,       \* the health settings found in the environment
    active,       \* activeHealthConfig
    former,       \* previousHealthConfig
    sideServer,   \* the settings of the server it refers to
    listening,    \* that server accepts connections
    ending,       \* where shutdown waits
    stopped,      \* the generation shutdown has stopped
    code,         \* the exit code
    \* History, for the properties only.
    outrun,       \* a stop() returned while a start() was loading the state
    overlapped,   \* shutdown began during a reload
    parked        \* a reload began with no session running

sessions == <<session, config, bundles, previous, wasRunning>>
server   == <<health, active, former, sideServer, listening>>
exiting  == <<ending, stopped, code, overlapped>>
vars == <<sessions, pc, server, exiting, outrun, parked>>

Idle == [timer |-> FALSE, cycle |-> FALSE, stopping |-> FALSE, start |-> "none", stop |-> "none"]

Primaries(g) == IF g = 0 THEN {} ELSE {a.id : a \in RunnableAccounts(config[g])}
Every(g, Has(_)) == \A id \in Primaries(g) : Has(session[g][id])

Alive == ending # "exited"

Init ==
    /\ session = [g \in Generations |-> [id \in Ids |-> Idle]]
    /\ config = [g \in Generations |-> {}]
    /\ bundles = 0 /\ previous = 0
    /\ wasRunning = FALSE
    /\ pc = "boot"
    /\ health = "none"
    /\ active = "none" /\ former = "none"
    /\ sideServer = "none" /\ listening = FALSE
    /\ ending = "no" /\ stopped = 0 /\ code = 0
    /\ outrun = FALSE /\ overlapped = FALSE /\ parked = FALSE

(***************************************************************************)
(* A session: what start(), stop() and its cycles make of it               *)
(***************************************************************************)

\* start() waits for a stop() under way; one that finds the timer armed is done.
Started(s) ==
    IF s.stop = "drain"
      THEN [s EXCEPT !.start = "await"]
      ELSE [s EXCEPT !.stopping = FALSE, !.start = IF s.timer THEN "ok" ELSE "load"]

StoppedAtOnce(s) == [s EXCEPT !.stopping = TRUE, !.timer = FALSE, !.stop = "ok"]

\* stop() waits for the cycle in flight; a second one joins it.
Stopped(s) ==
    IF s.stop = "drain"
      THEN s
      ELSE [s EXCEPT !.stopping = TRUE, !.timer = FALSE,
                     !.stop = IF s.cycle THEN "drain" ELSE "ok"]

\* The state is loaded: the first cycle of start(), or none when one is in flight.
StateLoaded(s) ==
    IF s.cycle
      THEN [s EXCEPT !.start = "ok", !.timer = ~s.stopping]
      ELSE [s EXCEPT !.start = "cycle", !.cycle = TRUE]

\* A cycle ends, or throws; so do the start() and the stop() that wait for it.
CycleSettled(s, ok) ==
    [timer    |-> s.timer \/ (s.start = "cycle" /\ ok /\ ~s.stopping),
     cycle    |-> FALSE,
     stopping |-> s.stopping /\ ~(s.start = "await" /\ ok),
     start    |-> CASE s.start = "cycle" -> IF ok THEN "ok" ELSE "failed"
                    [] s.start = "await" -> IF ok THEN "load" ELSE "failed"
                    [] OTHER -> s.start,
     stop     |-> IF s.stop # "drain" THEN s.stop ELSE IF ok THEN "ok" ELSE "failed"]

StartSucceeded(s) == s.start = "ok"
StartFailed(s)    == s.start = "failed"
StopSucceeded(s)  == s.stop = "ok"
StopSettled(s)    == s.stop \in {"ok", "failed"}
StartSettled(s)   == s.start \in {"ok", "failed"}

Apply(g, F(_)) == [session EXCEPT ![g] = [id \in Ids |-> IF id \in Primaries(g) THEN F(@[id]) ELSE @[id]]]

StartAll(g) == session' = IF g = 0 THEN session ELSE Apply(g, Started)

StopAll(g) ==
    /\ session' = IF g = 0 THEN session ELSE Apply(g, Stopped)
    /\ outrun' = (outrun \/ ~Every(g, LAMBDA s : s.start # "load"))

SessionStep(g, id) ==
    /\ Alive
    /\ LET s == session[g][id]
           Becomes(t) == session' = [session EXCEPT ![g][id] = t]
       IN  \/ s.start = "load" /\ Becomes(StateLoaded(s))
           \/ s.cycle /\ \E ok \in BOOLEAN : Becomes(CycleSettled(s, ok))
    /\ UNCHANGED <<config, bundles, previous, wasRunning, pc, server, exiting, outrun, parked>>

Tick(g, id) ==
    /\ Alive
    /\ session[g][id].timer /\ ~session[g][id].cycle
    /\ session' = [session EXCEPT ![g][id].cycle = TRUE]
    /\ UNCHANGED <<config, bundles, previous, wasRunning, pc, server, exiting, outrun, parked>>

(***************************************************************************)
(* main and reload                                                         *)
(***************************************************************************)

\* reload: one at a time, none during a shutdown.
Reload ==
    /\ pc = "idle" /\ ending = "no"
    /\ previous' = bundles
    /\ wasRunning' = ~Every(bundles, LAMBDA s : ~s.timer)
    /\ parked' = ~wasRunning'
    /\ StopAll(bundles)
    /\ pc' = "stop"
    /\ UNCHANGED <<config, bundles, server, exiting>>

RestoreNot(g) == UNCHANGED session /\ pc' = "done"

\* Start the sessions again that a failed reload has stopped.
Restore(g) ==
    IF wasRunning
      THEN StartAll(g) /\ pc' = "restore"
      ELSE UNCHANGED session /\ pc' = "done"

\* The catch of main and of reload: stop the new sessions, if there are any.
Fail ==
    /\ UNCHANGED <<config, wasRunning, exiting, parked>>
    /\ IF previous = 0
         THEN StopAll(bundles) /\ pc' = "abandon" /\ UNCHANGED <<bundles, previous>>
         ELSE /\ bundles' = previous
              /\ IF bundles # previous
                   THEN /\ previous' = bundles     \* orphaned
                        /\ StopAll(bundles) /\ pc' = "orphans"
                   ELSE Restore(previous) /\ UNCHANGED <<previous, outrun>>

StopsEnd ==
    /\ pc = "stop" /\ Alive
    /\ IF Every(previous, StopSucceeded)
         THEN pc' = "boot" /\ UNCHANGED <<sessions, exiting, outrun, parked>>
         ELSE ~Every(previous, LAMBDA s : s.stop # "failed") /\ Fail
    /\ UNCHANGED server

\* Nothing of the sessions of an old generation is at work: they are garbage.
Quiet(g) ==
    \A id \in Ids :
        /\ ~session[g][id].timer /\ ~session[g][id].cycle
        /\ session[g][id].start \notin {"await", "load"}

\* resolveAccounts and startAccounts.
StartAccounts ==
    /\ pc = "boot" /\ Alive
    /\ \/ \E list \in Files, g \in Generations \ {bundles} :
            /\ Loads(list, ProcessEnv) /\ Quiet(g)
            /\ bundles' = g
            /\ config' = [config EXCEPT ![g] = LoadedAccounts(list, ProcessEnv)]
            /\ session' = [session EXCEPT ![g] =
                 [id \in Ids |-> IF id \in {a.id : a \in RunnableAccounts(config'[g])}
                                   THEN Started(Idle) ELSE Idle]]
            /\ pc' = "start"
            /\ UNCHANGED <<previous, wasRunning, exiting, outrun, parked>>
       \/ Fail
    /\ UNCHANGED server

\* What follows the reconciliation: sessions that were not running are stopped again.
Finish ==
    /\ IF previous # 0 /\ ~wasRunning
         THEN StopAll(bundles) /\ pc' = "park"
         ELSE UNCHANGED <<session, outrun>> /\ pc' = "done"
    /\ UNCHANGED <<config, bundles, previous, wasRunning, exiting, parked>>

ForgetActiveNot == UNCHANGED active
ForgetActive == active' = "none"

\* reconcileSideServer, up to its first await.  An embedding process may have changed
\* the health settings.
ReconcileSideServer(found) ==
    IF found = "invalid"
      THEN Fail /\ UNCHANGED server
      ELSE IF active = found
        THEN Finish /\ UNCHANGED server
        ELSE /\ health' = found
             /\ former' = active
             /\ ForgetActive
             /\ IF sideServer # "none"
                  THEN listening' = FALSE /\ pc' = IF listening THEN "close" ELSE "close again"
                  ELSE pc' = "listen" /\ UNCHANGED listening
             /\ UNCHANGED <<sideServer, sessions, exiting, outrun, parked>>

StartsEnd ==
    /\ pc = "start" /\ Alive
    /\ IF Every(bundles, StartSucceeded)
         THEN \E found \in Healths \cup {"off", "invalid"} : ReconcileSideServer(found)
         ELSE ~Every(bundles, LAMBDA s : ~StartFailed(s)) /\ Fail /\ UNCHANGED server

\* The old server's connections have ended.
ServerClosed ==
    /\ pc = "close" /\ Alive
    /\ sideServer' = "none" /\ pc' = "listen"
    /\ UNCHANGED <<health, active, former, listening, sessions, exiting, outrun, parked>>

\* close() rejects: shutdown has closed the server before.
ServerNotRunning ==
    /\ pc = "close again" /\ Alive
    /\ Fail
    /\ UNCHANGED server

\* startHealthServer: nothing to start, a server that listens, or an error.
ServerStarts ==
    /\ pc = "listen" /\ Alive
    /\ active' = health
    /\ IF health = "off"
         THEN UNCHANGED <<sideServer, listening>>
         ELSE sideServer' = health /\ listening' = TRUE
    /\ Finish
    /\ UNCHANGED <<health, former>>

ServerFails ==
    /\ pc = "listen" /\ Alive /\ health # "off"
    /\ IF former \in Healths
         THEN pc' = "relisten" /\ UNCHANGED <<active, sessions, exiting, outrun, parked>>
         ELSE active' = former /\ Fail
    /\ UNCHANGED <<health, former, sideServer, listening>>

\* The previous server again, or none, which the next reload will notice.
ServerRestored ==
    /\ pc = "relisten" /\ Alive
    /\ \/ sideServer' = former /\ listening' = TRUE /\ active' = former
       \/ UNCHANGED <<sideServer, listening, active>>
    /\ Fail
    /\ UNCHANGED <<health, former>>

Parked ==
    /\ pc = "park" /\ Alive
    /\ IF Every(bundles, StopSucceeded)
         THEN pc' = "done" /\ UNCHANGED <<sessions, exiting, outrun, parked>>
         ELSE ~Every(bundles, LAMBDA s : s.stop # "failed") /\ Fail
    /\ UNCHANGED server

OrphansStopped ==
    /\ pc = "orphans" /\ Alive
    /\ Every(previous, StopSettled)
    /\ Restore(bundles)
    /\ UNCHANGED <<config, bundles, previous, wasRunning, server, exiting, outrun, parked>>

Restored ==
    /\ pc = "restore" /\ Alive
    /\ Every(bundles, StartSettled)
    /\ pc' = "done"
    /\ UNCHANGED <<sessions, server, exiting, outrun, parked>>

Retired(g) == g \notin {bundles, stopped} /\ Quiet(g)

\* The end of main, which registers the handlers, or the finally of reload.  Nobody will
\* ask how earlier stops went, unless a shutdown waits for them.
Done ==
    /\ pc = "done" /\ Alive
    /\ pc' = "idle"
    /\ session' = IF ending # "no" THEN session ELSE
         [g \in Generations |-> [id \in Ids |->
            IF Retired(g) THEN Idle
            ELSE IF StopSettled(session[g][id]) THEN [session[g][id] EXCEPT !.stop = "none"]
            ELSE session[g][id]]]
    /\ previous' = bundles
    /\ wasRunning' = FALSE
    /\ former' = "none" /\ health' = "none"
    /\ outrun' = (outrun /\ \E g \in Generations : ~Retired(g) /\ g # bundles)
    /\ config' = [g \in Generations |-> IF Retired(g) THEN {} ELSE config[g]]
    /\ UNCHANGED <<bundles, active, sideServer, listening, exiting, parked>>

\* main's catch: exit(1).
Abandon ==
    /\ pc = "abandon" /\ Alive
    /\ Every(bundles, StopSettled)
    /\ ending' = "exited" /\ code' = 1
    /\ UNCHANGED <<sessions, pc, server, stopped, overlapped, outrun, parked>>

(***************************************************************************)
(* shutdown                                                                *)
(***************************************************************************)

\* The handlers are registered when main is done.
Booted == previous # 0 \/ pc = "idle"

\* A signal, an uncaught exception or an unhandled rejection.
Shutdown ==
    /\ Booted /\ ending = "no"
    /\ ending' = "stop"
    /\ stopped' = bundles
    /\ StopAll(bundles)
    /\ overlapped' = (pc # "idle")
    /\ UNCHANGED <<config, bundles, previous, wasRunning, pc, server, code, parked>>

\* Every stop has settled: close the server, if there is one.
CloseServer ==
    /\ ending = "stop"
    /\ Every(stopped, StopSettled)
    /\ listening' = FALSE
    /\ ending' = IF sideServer = "none" THEN "exited" ELSE "close"
    /\ \E asked \in {0, 1} :
         code' = IF Every(stopped, StopSucceeded) /\ (sideServer = "none" \/ listening) THEN asked ELSE 1
    /\ UNCHANGED <<sessions, pc, health, active, former, sideServer, stopped, overlapped, outrun, parked>>

Exit ==
    /\ ending = "close"
    /\ ending' = "exited"
    /\ UNCHANGED <<sessions, pc, server, stopped, code, overlapped, outrun, parked>>

Control ==
    \/ StopsEnd \/ StartAccounts \/ StartsEnd \/ ServerClosed \/ ServerNotRunning
    \/ ServerStarts \/ ServerFails \/ ServerRestored \/ Parked \/ OrphansStopped \/ Restored
    \/ Done

Next ==
    \/ \E g \in Generations, id \in Ids : SessionStep(g, id) \/ Tick(g, id)
    \/ Reload \/ Control \/ Abandon
    \/ Shutdown \/ CloseServer \/ Exit

\* Loads, cycles, stops and closes end (modules UpdaterLoop, RuntimeBundle); signals and
\* ticks need not come.
Fairness ==
    /\ \A g \in Generations, id \in Ids : WF_vars(SessionStep(g, id))
    /\ WF_vars(Control) /\ WF_vars(Abandon)
    /\ WF_vars(CloseServer) /\ WF_vars(Exit)

Spec == Init /\ [][Next]_vars /\ Fairness

(***************************************************************************)
(* Properties                                                              *)
(***************************************************************************)

TypeOK ==
    /\ session \in [Generations -> [Ids ->
         [timer : BOOLEAN, cycle : BOOLEAN, stopping : BOOLEAN,
          start : {"none", "await", "load", "cycle", "ok", "failed"},
          stop : {"none", "drain", "ok", "failed"}]]]
    /\ {bundles, previous, stopped} \subseteq Generations \cup {0}
    /\ pc \in {"boot", "start", "close", "close again", "listen", "relisten", "done", "idle",
               "stop", "park", "orphans", "restore", "abandon"}
    /\ {active, former, sideServer, health} \subseteq Healths \cup {"off", "invalid", "none"}
    /\ ending \in {"no", "stop", "close", "exited"}
    /\ code \in {0, 1}

FilesOf(g, id) ==
    (UNION {{a.stateFile, a.historyFile} : a \in {b \in config[g] : b.id = id}}) \ {NoFile}

\* Two cycles that run at the same time, of whatever generations, have no state or
\* history file in common: through reloads that fail and are undone, and shutdowns that
\* race them.  (Not when a stop() overtook a start(): finding StopMeansStopped.)
OneWriterPerFile ==
    \/ outrun
    \/ \A g, h \in Generations, i, j \in Ids :
          /\ session[g][i].cycle /\ session[h][j].cycle
          /\ FilesOf(g, i) \cap FilesOf(h, j) # {}
          => g = h /\ i = j

\* When no reload is under way the sessions that run are those the daemon works with, and
\* each of them runs, whether the reload succeeded or failed, but for one that could not
\* be started again.  (A reload that found none running leaves none running.)
ReloadKeepsService ==
    pc = "idle" /\ ending = "no" =>
      /\ \A g \in Generations \ {bundles}, id \in Ids :
           ~session[g][id].timer /\ (outrun \/ ~session[g][id].cycle)
      /\ parked \/ Every(bundles, LAMBDA s : s.timer \/ s.start = "failed")

\* The settings the daemon takes as active are those of the server that listens, also
\* after replacements and restorations that failed: otherwise a later reload would see no
\* difference and leave the daemon without its health server.
HealthServerKnown ==
    pc = "idle" /\ ending = "no" =>
      /\ sideServer # "none" <=> listening
      /\ IF active \in Healths THEN sideServer = active ELSE sideServer = "none"

\* Each session the daemon sees, of whatever generation, is one that updater.ts can give
\* it: the promise is the same as UpdaterLoop's (ImplementsSession).
SessionOf(g, id) == INSTANCE Session WITH
    armed    <- session[g][id].timer,
    cycle    <- session[g][id].cycle,
    stopping <- session[g][id].stopping,
    halting  <- session[g][id].stop = "drain",
    draining <- session[g][id].stop = "drain"
SessionsKeepPromise ==
    /\ \A g \in Generations, id \in Ids : SessionOf(g, id)!Init
    /\ [][\A g \in Generations, id \in Ids : [SessionOf(g, id)!Next]_(SessionOf(g, id)!vars)]_session

\* The process does not exit under a cycle, unless the shutdown came during a reload or a
\* stop() overtook a start() (finding StopMeansStopped): shutdown waits for the sessions of
\* the moment, and nobody starts one again.
QuietExit ==
    ending = "exited" /\ ~overlapped /\ ~outrun => \A g \in Generations, id \in Ids : ~session[g][id].cycle

\* A shutdown and a reload end, whatever cycles, starts and stops fail on the way.
EndsGracefully ==
    /\ (ending # "no") ~> (ending = "exited")
    /\ (pc = "stop") ~> (pc = "idle" \/ ending = "exited")
=============================================================================
