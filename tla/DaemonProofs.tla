----------------------------- MODULE DaemonProofs -----------------------------
(***************************************************************************)
(* Proofs about Daemon, for any accounts files, process settings, account  *)
(* ids, health server settings and generations.                            *)
(***************************************************************************)
EXTENDS Daemon, TLAPS

Settings == Healths \cup {"off"}

\* The server while the daemon replaces it: the old one is given up before it is closed,
\* and closed before the new one is started.
ServerInv ==
    ending = "no" =>
      /\ pc # "close again"
      /\ pc \in {"close", "listen"} => health \in Settings
      /\ pc = "relisten" => former \in Healths
      /\ pc = "close" => active = "none" /\ sideServer # "none" /\ ~listening
      /\ pc \in {"listen", "relisten"} => active = "none" /\ sideServer = "none" /\ ~listening
      /\ pc # "close" =>
           /\ sideServer # "none" <=> listening
           /\ IF active \in Healths THEN sideServer = active ELSE sideServer = "none"

Replacing == {"close", "close again", "listen", "relisten"}

LEMMA FailFacts ==
    ASSUME Fail PROVE ending' = ending /\ pc' \notin Replacing
BY DEF Fail, Restore, exiting, Replacing

LEMMA FinishFacts ==
    ASSUME Finish PROVE ending' = ending /\ pc' \notin Replacing
BY DEF Finish, exiting, Replacing

LEMMA ServerInit == Init => ServerInv
BY HealthAssumption DEF Init, ServerInv

\* The server's part of a step that leaves it alone.
LEMMA ServerLeft ==
    ASSUME ServerInv, UNCHANGED server, pc \notin Replacing, pc' \notin Replacing, ending' = "no" => ending = "no"
    PROVE  ServerInv'
BY DEF ServerInv, server, Replacing

LEMMA ServerStep ==
    ASSUME ServerInv, [Next]_vars
    PROVE  ServerInv'
<1>1. ASSUME NEW g \in Generations, NEW id \in Ids, SessionStep(g, id) \/ Tick(g, id) PROVE ServerInv'
  BY <1>1 DEF SessionStep, Tick, server, exiting, ServerInv
<1>2. CASE Reload
  BY <1>2, ServerLeft DEF Reload, exiting, Replacing
<1>3. CASE StopsEnd
  BY <1>3, FailFacts, ServerLeft DEF StopsEnd, exiting, Replacing
<1>4. CASE StartAccounts
  BY <1>4, FailFacts, ServerLeft DEF StartAccounts, exiting, Replacing
<1>5. CASE StartsEnd
  <2>1. CASE Fail /\ UNCHANGED server
    BY <1>5, <2>1, FailFacts, ServerLeft DEF StartsEnd, Replacing
  <2>2. ASSUME NEW found \in Healths \cup {"off", "invalid"}, ReconcileSideServer(found)
        PROVE  ServerInv'
    <3>1. CASE found = "invalid" \/ active = found
      BY <1>5, <2>2, <3>1, FailFacts, FinishFacts, ServerLeft
         DEF StartsEnd, ReconcileSideServer, Replacing
    <3>2. CASE found # "invalid" /\ active # found
      <4>1. /\ health' = found /\ former' = active /\ active' = "none"
            /\ IF sideServer # "none"
                 THEN listening' = FALSE /\ pc' = IF listening THEN "close" ELSE "close again"
                 ELSE pc' = "listen" /\ UNCHANGED listening
            /\ UNCHANGED sideServer /\ ending' = ending
        BY <2>2, <3>2 DEF ReconcileSideServer, ForgetActive, exiting
      <4>2. found \in Settings
        BY <2>2, <3>2 DEF Settings
      <4> QED  BY <1>5, <4>1, <4>2, HealthAssumption DEF StartsEnd, ServerInv
    <3> QED  BY <3>1, <3>2
  <2> QED  BY <1>5, <2>1, <2>2 DEF StartsEnd
<1>6. CASE ServerClosed
  BY <1>6, HealthAssumption DEF ServerClosed, ServerInv, exiting
<1>7. CASE ServerNotRunning
  BY <1>7, FailFacts DEF ServerNotRunning, ServerInv
<1>8. CASE ServerStarts
  <2>1. pc = "listen" /\ ending' = ending /\ pc' \notin Replacing /\ active' = health
    BY <1>8, FinishFacts DEF ServerStarts
  <2>2. IF health = "off" THEN UNCHANGED <<sideServer, listening>>
                          ELSE sideServer' = health /\ listening' = TRUE
    BY <1>8 DEF ServerStarts
  <2> QED  BY <2>1, <2>2, HealthAssumption DEF ServerInv, Settings, Replacing
<1>9. CASE ServerFails
  <2>1. /\ pc = "listen" /\ UNCHANGED <<health, former, sideServer, listening>>
        /\ \/ former \in Healths /\ pc' = "relisten" /\ active' = active /\ ending' = ending
           \/ former \notin Healths /\ active' = former /\ ending' = ending /\ pc' \notin Replacing
    BY <1>9, FailFacts DEF ServerFails, exiting
  <2> QED  BY <2>1, HealthAssumption DEF ServerInv, Replacing
<1>10. CASE ServerRestored
  <2>1. /\ pc = "relisten" /\ ending' = ending /\ pc' \notin Replacing
        /\ \/ sideServer' = former /\ listening' = TRUE /\ active' = former
           \/ UNCHANGED <<sideServer, listening, active>>
    BY <1>10, FailFacts DEF ServerRestored
  <2> QED  BY <2>1, HealthAssumption DEF ServerInv, Replacing
<1>11. CASE Parked
  BY <1>11, FailFacts, ServerLeft DEF Parked, exiting, Replacing
<1>12. CASE OrphansStopped
  BY <1>12, ServerLeft DEF OrphansStopped, Restore, exiting, Replacing
<1>13. CASE Restored
  BY <1>13, ServerLeft DEF Restored, exiting, Replacing
<1>14. CASE Done
  BY <1>14, HealthAssumption DEF Done, exiting, ServerInv
<1>15. CASE Abandon \/ Shutdown \/ CloseServer \/ Exit
  BY <1>15 DEF Abandon, Shutdown, CloseServer, Exit, ServerInv, server
<1>16. CASE UNCHANGED vars
  BY <1>16 DEF vars, server, exiting, ServerInv
<1> QED
  BY <1>1, <1>2, <1>3, <1>4, <1>5, <1>6, <1>7, <1>8, <1>9, <1>10, <1>11, <1>12, <1>13,
     <1>14, <1>15, <1>16 DEF Next, Control

\* HealthServerKnown: when no reload or shutdown is under way, the settings taken as
\* active are those of the server that listens, after whatever replacements failed.
THEOREM HealthServerIsKnown == Spec => []HealthServerKnown
<1>1. ServerInv => HealthServerKnown
  BY DEF ServerInv, HealthServerKnown
<1> QED  BY ServerInit, ServerStep, <1>1, PTL DEF Spec

-----------------------------------------------------------------------------

(***************************************************************************)
(* One session                                                             *)
(***************************************************************************)

SessionSet ==
    [timer : BOOLEAN, cycle : BOOLEAN, stopping : BOOLEAN,
     start : {"none", "await", "load", "cycle", "ok", "failed"},
     stop : {"none", "drain", "ok", "failed"}]

\* Of any session: who waits for a cycle has one to wait for, and a stopping session holds
\* no timer.
Good(s) ==
    /\ s \in SessionSet
    /\ s.start = "await" => s.stop = "drain"
    /\ s.stop = "drain" => s.cycle /\ s.stopping
    /\ s.start = "cycle" => s.cycle
    /\ s.stopping => ~s.timer

\* Nothing is at work, nor will be.
Still(s) == ~s.timer /\ ~s.cycle /\ s.start \notin {"await", "load"}

\* Of a session that is no longer the daemon's, where o says that a stop overtook a start:
\* it has no timer and gets none, and only a start that was overtaken runs a cycle.
Gone(s, o) ==
    /\ ~s.timer /\ s.start # "await"
    /\ s.stopping \/ (s.start # "load" /\ ~s.cycle)
    /\ o \/ (s.start # "load" /\ ~s.cycle)

\* Stopped while it may have been starting.
Sinking(s, o) ==
    /\ s.stopping /\ ~s.timer /\ s.start # "await"
    /\ s.start = "load" => o
    /\ s.stop # "drain" => o \/ ~s.cycle

\* Stopped after its start had settled; and with its last cycle over.
Falling(s) ==
    /\ s.stopping /\ ~s.timer /\ s.start \in {"ok", "failed"}
    /\ s.stop # "drain" => ~s.cycle
Down(s) == s.stopping /\ ~s.timer /\ s.start \in {"ok", "failed"} /\ ~s.cycle

\* Started and not stopped since.
Rising(s) ==
    /\ s.start # "none"
    /\ s.start \in {"load", "cycle", "ok"} => ~s.stopping
    /\ s.start = "ok" => s.timer

Serving(s) == s.timer \/ s.start = "failed"

\* What becomes of a session on its own.
StepOf(s, t) ==
    \/ s.start = "load" /\ t = StateLoaded(s)
    \/ s.cycle /\ \E ok \in BOOLEAN : t = CycleSettled(s, ok)
    \/ s.timer /\ ~s.cycle /\ t = [s EXCEPT !.cycle = TRUE]

LEMMA IdleFacts == Good(Idle) /\ Still(Idle) /\ \A o \in BOOLEAN : Gone(Idle, o)
BY DEF Idle, Good, Still, Gone, SessionSet

LEMMA StoppedFacts ==
    ASSUME NEW s, Good(s)
    PROVE  /\ Good(Stopped(s))
           /\ Stopped(s).start = s.start /\ Stopped(s).stopping /\ ~Stopped(s).timer
           /\ Stopped(s).cycle = s.cycle
           /\ Stopped(s).stop # "drain" => ~s.cycle
BY DEF Good, Stopped, SessionSet

LEMMA StartedFacts ==
    ASSUME NEW s, Good(s)
    PROVE  Good(Started(s)) /\ Rising(Started(s))
BY DEF Good, Started, Rising, SessionSet

LEMMA StartedIdle == Started(Idle).start = "load"
BY DEF Started, Idle

LEMMA StepFacts ==
    ASSUME NEW s, NEW t, Good(s), StepOf(s, t)
    PROVE  /\ Good(t)
           /\ ~Still(s)
           /\ \A o \in BOOLEAN : Gone(s, o) => Gone(t, o)
           /\ \A o \in BOOLEAN : Sinking(s, o) => Sinking(t, o)
           /\ Falling(s) => Falling(t)
           /\ ~Down(s)
           /\ s.start # "await" => t.start # "await"
           /\ s.start \in {"ok", "failed"} => t.start = s.start
           /\ Rising(s) => Rising(t)
           /\ s.start \in {"ok", "failed"} /\ Serving(s) => Serving(t)
<1>1. CASE s.start = "load" /\ t = StateLoaded(s)
  BY <1>1 DEF Good, SessionSet, StateLoaded, Still, Gone, Sinking, Falling, Down, Rising, Serving
<1>2. ASSUME NEW ok \in BOOLEAN, s.cycle, t = CycleSettled(s, ok) PROVE
           /\ Good(t)
           /\ ~Still(s)
           /\ \A o \in BOOLEAN : Gone(s, o) => Gone(t, o)
           /\ \A o \in BOOLEAN : Sinking(s, o) => Sinking(t, o)
           /\ Falling(s) => Falling(t)
           /\ ~Down(s)
           /\ s.start # "await" => t.start # "await"
           /\ s.start \in {"ok", "failed"} => t.start = s.start
           /\ Rising(s) => Rising(t)
           /\ s.start \in {"ok", "failed"} /\ Serving(s) => Serving(t)
  BY <1>2 DEF Good, SessionSet, CycleSettled, Still, Gone, Sinking, Falling, Down, Rising, Serving
<1>3. CASE s.timer /\ ~s.cycle /\ t = [s EXCEPT !.cycle = TRUE]
  BY <1>3 DEF Good, SessionSet, Still, Gone, Sinking, Falling, Down, Rising, Serving
<1> QED  BY <1>1, <1>2, <1>3 DEF StepOf

-----------------------------------------------------------------------------

(***************************************************************************)
(* The generations                                                         *)
(***************************************************************************)

Configs == {{}} \cup {LoadedAccounts(list, ProcessEnv) : list \in {l \in Files : Loads(l, ProcessEnv)}}

LifeType ==
    /\ session \in [Generations -> [Ids -> SessionSet]]
    /\ config \in [Generations -> Configs]
    /\ bundles \in Generations \cup {0}
    /\ previous \in Generations \cup {0}
    /\ outrun \in BOOLEAN

LocalInv ==
    \A g \in Generations, id \in Ids :
        Good(session[g][id]) /\ (id \notin Primaries(g) => Still(session[g][id]))

Building == {"start", "close", "close again", "listen", "relisten"}

\* The generation that may run cycles.
Current == IF pc = "orphans" THEN previous ELSE bundles

PhaseInv ==
    /\ \A g \in Generations \ {Current}, id \in Ids : Gone(session[g][id], outrun)
    /\ pc \in {"boot", "stop"} => previous = bundles
    /\ pc = "stop" => Every(bundles, Falling)
    /\ pc = "boot" => Every(bundles, Down)
    /\ pc \in Building \cup {"park"} => bundles # 0
    /\ pc \in Building => Every(bundles, LAMBDA s : s.start # "await")
    /\ pc \in Building \ {"start"} => Every(bundles, StartSucceeded)
    /\ pc \in Building \cup {"park", "orphans"} => bundles # previous
    /\ pc \in Building \cup {"park"} => Every(previous, Down)
    /\ pc = "park" => previous # 0 /\ ~wasRunning /\ Every(bundles, Falling)
    /\ pc = "orphans" => /\ previous # 0
                         /\ Every(bundles, Down)
                         /\ Every(previous, LAMBDA s : Sinking(s, outrun))

ServiceInv ==
    ending = "no" =>
      /\ pc \in Building \cup {"restore"} => Every(bundles, Rising)
      /\ pc \in {"done", "idle"} =>
           Every(bundles, StartSettled) /\ (parked \/ Every(bundles, Serving))
      /\ pc # "idle" /\ previous # 0 => wasRunning \/ parked

LifeInv == LifeType /\ LocalInv /\ PhaseInv /\ ServiceInv

LEMMA ConfigIds ==
    ASSUME NEW c \in Configs
    PROVE  {a.id : a \in RunnableAccounts(c)} \subseteq Ids
<1> SUFFICES ASSUME NEW a \in RunnableAccounts(c) PROVE a.id \in Ids
  OBVIOUS
<1>1. a \in c /\ a.role # "failover"
  BY DEF RunnableAccounts
<1>2. PICK list \in Files : c = LoadedAccounts(list, ProcessEnv)
  BY <1>1 DEF Configs
<1>3. PICK i \in DOMAIN list : a = Loaded(list[i], ProcessEnv)
  BY <1>1, <1>2 DEF LoadedAccounts
<1>4. a.id = list[i].id /\ a.role = list[i].role
  BY <1>3 DEF Loaded
<1> QED  BY <1>1, <1>4, IdAssumption

LEMMA PrimaryIds ==
    ASSUME config \in [Generations -> Configs], NEW g \in Generations \cup {0}
    PROVE  Primaries(g) \subseteq Ids
BY ConfigIds DEF Primaries

LEMMA NoPrimaries == Primaries(0) = {}
BY DEF Primaries

\* What stopping a generation does.
LEMMA StopAllFacts ==
    ASSUME LifeType, LocalInv, NEW g \in Generations \cup {0}, StopAll(g)
    PROVE  /\ session' \in [Generations -> [Ids -> SessionSet]]
           /\ outrun' \in BOOLEAN /\ (outrun => outrun')
           /\ \A h \in Generations, id \in Ids :
                session'[h][id] = IF h = g /\ id \in Primaries(g) THEN Stopped(session[h][id])
                                                                  ELSE session[h][id]
           /\ \A id \in Primaries(g) : session[g][id].start = "load" => outrun'
<1>1. CASE g = 0
  BY <1>1, NoPrimaries, GenerationAssumption DEF StopAll, LifeType, Every
<1>2. CASE g # 0
  <2>1. session' = [session EXCEPT ![g] =
          [id \in Ids |-> IF id \in Primaries(g) THEN Stopped(session[g][id]) ELSE session[g][id]]]
    BY <1>2 DEF StopAll, Apply
  <2>2. \A id \in Ids : Stopped(session[g][id]) \in SessionSet
    BY <1>2, StoppedFacts DEF LocalInv, Good
  <2>3. \A h \in Generations, id \in Ids :
          session'[h][id] = IF h = g /\ id \in Primaries(g) THEN Stopped(session[h][id])
                                                            ELSE session[h][id]
    BY <1>2, <2>1 DEF LifeType
  <2>4. session' \in [Generations -> [Ids -> SessionSet]]
    BY <1>2, <2>1, <2>2 DEF LifeType
  <2>5. outrun' = (outrun \/ ~(\A id \in Primaries(g) : session[g][id].start # "load"))
    BY DEF StopAll, Every
  <2> QED  BY <2>3, <2>4, <2>5 DEF LifeType
<1> QED  BY <1>1, <1>2

LEMMA StartAllFacts ==
    ASSUME LifeType, LocalInv, NEW g \in Generations \cup {0}, StartAll(g)
    PROVE  /\ session' \in [Generations -> [Ids -> SessionSet]]
           /\ \A h \in Generations, id \in Ids :
                session'[h][id] = IF h = g /\ id \in Primaries(g) THEN Started(session[h][id])
                                                                  ELSE session[h][id]
<1>1. CASE g = 0
  BY <1>1, NoPrimaries, GenerationAssumption DEF StartAll, LifeType
<1>2. CASE g # 0
  <2>1. session' = [session EXCEPT ![g] =
          [id \in Ids |-> IF id \in Primaries(g) THEN Started(session[g][id]) ELSE session[g][id]]]
    BY <1>2 DEF StartAll, Apply
  <2>2. \A id \in Ids : Started(session[g][id]) \in SessionSet
    BY <1>2, StartedFacts DEF LocalInv, Good
  <2> QED  BY <1>2, <2>1, <2>2 DEF LifeType
<1> QED  BY <1>1, <1>2

LEMMA LifeInit == Init => LifeInv
<1> SUFFICES ASSUME Init PROVE LifeInv
  OBVIOUS
<1>1. Idle \in SessionSet
  BY IdleFacts DEF Good
<1>2. LifeType
  BY <1>1 DEF Init, LifeType, Configs
<1>3. LocalInv
  BY IdleFacts DEF Init, LocalInv
<1>4. PhaseInv
  BY IdleFacts, NoPrimaries DEF Init, PhaseInv, Current, Every, Building
<1>5. ServiceInv
  BY DEF Init, ServiceInv, Building
<1> QED  BY <1>2, <1>3, <1>4, <1>5 DEF LifeInv

\* What stopping and starting a generation leaves as it was.
LEMMA StopAllStep ==
    ASSUME LifeType, LocalInv, NEW g \in Generations \cup {0}, StopAll(g), config' = config,
           bundles' \in Generations \cup {0}, previous' \in Generations \cup {0}
    PROVE  LifeType' /\ LocalInv'
<1>1. LifeType'
  BY StopAllFacts DEF LifeType
<1>2. \A h \in Generations, id \in Ids : Primaries(h)' = Primaries(h)
  BY DEF Primaries
<1>3. ASSUME NEW h \in Generations, NEW id \in Ids
      PROVE  Good(session[h][id])' /\ (id \notin Primaries(h) => Still(session[h][id]))'
  BY <1>2, StopAllFacts, StoppedFacts DEF LocalInv
<1> QED  BY <1>1, <1>3 DEF LocalInv

LEMMA StartAllStep ==
    ASSUME LifeType, LocalInv, NEW g \in Generations \cup {0}, StartAll(g), config' = config,
           bundles' \in Generations \cup {0}, previous' \in Generations \cup {0},
           outrun' = outrun
    PROVE  LifeType' /\ LocalInv'
<1>1. LifeType'
  BY StartAllFacts DEF LifeType
<1>2. \A h \in Generations, id \in Ids : Primaries(h)' = Primaries(h)
  BY DEF Primaries
<1>3. ASSUME NEW h \in Generations, NEW id \in Ids
      PROVE  Good(session[h][id])' /\ (id \notin Primaries(h) => Still(session[h][id]))'
  BY <1>2, StartAllFacts, StartedFacts DEF LocalInv
<1> QED  BY <1>1, <1>3 DEF LocalInv

LEMMA GoneLater ==
    ASSUME NEW s, NEW o, NEW u, Gone(s, o), o => u
    PROVE  Gone(s, u)
BY DEF Gone

\* A session, whatever generation it is of, takes a step of its own.
\* A step of one session's own: the generations stay what they are.
LEMMA OwnEvery ==
    ASSUME LifeInv, NEW g \in Generations, NEW id \in Ids, NEW t, StepOf(session[g][id], t),
           session' = [session EXCEPT ![g][id] = t],
           UNCHANGED <<config, bundles, previous, wasRunning, pc, ending, outrun, parked>>,
           NEW h \in Generations \cup {0}
    PROVE  /\ Every(h, Falling) => Every(h, Falling)'
           /\ Every(h, Down) => Every(h, Down)'
           /\ Every(h, LAMBDA s : s.start # "await") => Every(h, LAMBDA s : s.start # "await")'
           /\ Every(h, StartSettled) => Every(h, StartSettled)'
           /\ Every(h, StartSucceeded) => Every(h, StartSucceeded)'
           /\ Every(h, LAMBDA s : Sinking(s, outrun)) => Every(h, LAMBDA s : Sinking(s, outrun))'
           /\ Every(h, Rising) => Every(h, Rising)'
           /\ Every(h, StartSettled) /\ Every(h, Serving) => Every(h, Serving)'
<1> USE DEF LifeInv
<1>1. /\ t \in SessionSet /\ Good(session[g][id]) /\ Good(t)
      /\ ~Still(session[g][id]) /\ ~Down(session[g][id])
  BY StepFacts DEF LocalInv, Good
<1>2. /\ session'[g][id] = t
      /\ \A k \in Generations, i \in Ids : k # g \/ i # id => session'[k][i] = session[k][i]
  BY <1>1 DEF LifeType
<1>3. Primaries(h)' = Primaries(h) /\ Primaries(h) \subseteq Ids
  BY PrimaryIds DEF Primaries, LifeType
<1>4. CASE h = 0
  BY <1>4, <1>3, NoPrimaries DEF Every
<1>5. CASE h # 0
  BY <1>5, <1>1, <1>2, <1>3, StepFacts DEF Every, StartSettled, StartSucceeded, LifeType
<1> QED  BY <1>4, <1>5

LEMMA OwnStep ==
    ASSUME LifeInv, NEW g \in Generations, NEW id \in Ids, NEW t, StepOf(session[g][id], t),
           session' = [session EXCEPT ![g][id] = t],
           UNCHANGED <<config, bundles, previous, wasRunning, pc, ending, outrun, parked>>
    PROVE  LifeInv'
<1> USE DEF LifeInv
<1>1. /\ t \in SessionSet /\ Good(session[g][id]) /\ Good(t)
      /\ ~Still(session[g][id]) /\ ~Down(session[g][id])
  BY StepFacts DEF LocalInv, Good
<1>2. /\ session' \in [Generations -> [Ids -> SessionSet]]
      /\ session'[g][id] = t
      /\ \A h \in Generations, i \in Ids : h # g \/ i # id => session'[h][i] = session[h][i]
  BY <1>1 DEF LifeType
<1>3. \A h \in Generations \cup {0} : Primaries(h)' = Primaries(h) /\ Primaries(h) \subseteq Ids
  BY PrimaryIds DEF Primaries, LifeType
<1>4. LifeType' /\ LocalInv'
  BY <1>1, <1>2, <1>3 DEF LifeType, LocalInv
<1>5. ASSUME NEW h \in Generations \ {Current}, NEW i \in Ids
      PROVE  Gone(session'[h][i], outrun)
  BY <1>1, <1>2, StepFacts DEF PhaseInv, LifeType
<1>6. ASSUME NEW h \in Generations \cup {0} PROVE
      /\ Every(h, Falling) => Every(h, Falling)'
      /\ Every(h, Down) => Every(h, Down)'
      /\ Every(h, LAMBDA s : s.start # "await") => Every(h, LAMBDA s : s.start # "await")'
      /\ Every(h, StartSettled) => Every(h, StartSettled)'
      /\ Every(h, StartSucceeded) => Every(h, StartSucceeded)'
      /\ Every(h, LAMBDA s : Sinking(s, outrun)) => Every(h, LAMBDA s : Sinking(s, outrun))'
      /\ Every(h, Rising) => Every(h, Rising)'
      /\ Every(h, StartSettled) /\ Every(h, Serving) => Every(h, Serving)'
  BY OwnEvery
<1>7. PhaseInv'
  BY <1>5, <1>6 DEF PhaseInv, LifeType, Current
<1>8. ServiceInv'
  BY <1>6 DEF ServiceInv, LifeType
<1> QED  BY <1>4, <1>7, <1>8

\* A failure: the catch of main or of reload.
LEMMA FailStep ==
    ASSUME LifeInv, Fail, pc \in {"stop", "boot", "park"} \cup Building
    PROVE  LifeInv'
<1> USE DEF LifeInv
<1>1. /\ config' = config /\ wasRunning' = wasRunning /\ ending' = ending /\ parked' = parked
      /\ bundles \in Generations \cup {0} /\ previous \in Generations \cup {0}
      /\ Current = bundles
  BY DEF Fail, exiting, LifeType, Current, Building
<1>2. \A h \in Generations \cup {0} : Primaries(h)' = Primaries(h) /\ Primaries(h) \subseteq Ids
  BY <1>1, PrimaryIds DEF Primaries, LifeType
<1>3. CASE previous = 0
  <2>1. StopAll(bundles) /\ pc' = "abandon" /\ bundles' = bundles /\ previous' = previous
    BY <1>3 DEF Fail
  <2>2. LifeType' /\ LocalInv'
    BY <1>1, <2>1, StopAllStep
  <2>3. \A h \in Generations \ {Current'}, id \in Ids : Gone(session[h][id], outrun)'
    BY <1>1, <2>1, StopAllFacts, GoneLater DEF PhaseInv, Current
  <2>4. PhaseInv'
    BY <2>1, <2>3 DEF PhaseInv, Building
  <2>5. ServiceInv'
    BY <1>3, <2>1 DEF ServiceInv, Building
  <2> QED  BY <2>2, <2>4, <2>5
<1>4. CASE previous # 0 /\ bundles # previous
  <2>1. bundles' = previous /\ previous' = bundles /\ StopAll(bundles) /\ pc' = "orphans"
    BY <1>4 DEF Fail
  <2>2. LifeType' /\ LocalInv'
    BY <1>1, <2>1, StopAllStep
  <2>3. \A h \in Generations \ {Current'}, id \in Ids : Gone(session[h][id], outrun)'
    BY <1>1, <2>1, StopAllFacts, GoneLater DEF PhaseInv, Current
  <2>4. Every(bundles, Down)'
    <3>1. Every(previous, Down)
      BY <1>4 DEF PhaseInv, Building
    <3>2. ASSUME NEW id \in Primaries(previous) PROVE Down(session'[previous][id])
      BY <1>1, <1>2, <1>4, <2>1, <3>1, <3>2, StopAllFacts DEF Every
    <3> QED  BY <1>1, <1>2, <2>1, <3>2 DEF Every
  <2>5. Every(previous, LAMBDA s : Sinking(s, outrun))'
    <3>1. ASSUME NEW id \in Primaries(bundles) PROVE Sinking(session'[bundles][id], outrun')
      <4>1. bundles \in Generations /\ id \in Ids /\ Good(session[bundles][id])
        BY <1>1, <1>2, NoPrimaries DEF LocalInv
      <4>2. session[bundles][id].start # "await"
        BY <1>4 DEF PhaseInv, Every, Building, Falling
      <4>3. session'[bundles][id] = Stopped(session[bundles][id])
        BY <2>1, <4>1, StopAllFacts
      <4>4. session[bundles][id].start = "load" => outrun'
        BY <1>1, <2>1, StopAllFacts
      <4> QED  BY <4>1, <4>2, <4>3, <4>4, StoppedFacts DEF Sinking
    <3> QED  BY <1>1, <1>2, <2>1, <3>1 DEF Every
  <2>6. PhaseInv'
    BY <1>4, <2>1, <2>3, <2>4, <2>5 DEF PhaseInv, Building
  <2>7. ServiceInv'
    BY <1>1, <1>4, <2>1 DEF ServiceInv, Building, PhaseInv
  <2> QED  BY <2>2, <2>6, <2>7
<1>5. CASE previous # 0 /\ bundles = previous
  <2>1. bundles' = bundles /\ previous' = previous /\ Restore(bundles) /\ outrun' = outrun
        /\ pc \in {"stop", "boot"}
    BY <1>5 DEF Fail, PhaseInv
  <2>2. CASE wasRunning
    <3>1. StartAll(bundles) /\ pc' = "restore"
      BY <2>1, <2>2 DEF Restore
    <3>2. LifeType' /\ LocalInv'
      BY <1>1, <2>1, <3>1, StartAllStep
    <3>3. \A h \in Generations \ {Current'}, id \in Ids : Gone(session[h][id], outrun)'
      BY <1>1, <2>1, <3>1, StartAllFacts DEF PhaseInv, Current
    <3>4. PhaseInv'
      BY <2>1, <3>1, <3>3 DEF PhaseInv, Building
    <3>5. Every(bundles, Rising)'
      BY <1>1, <1>2, <1>5, <2>1, <3>1, StartAllFacts, StartedFacts DEF Every, LocalInv
    <3>6. ServiceInv'
      BY <1>1, <2>1, <2>2, <3>1, <3>5 DEF ServiceInv, Building
    <3> QED  BY <3>2, <3>4, <3>6
  <2>3. CASE ~wasRunning
    <3>1. session' = session /\ pc' = "done"
      BY <2>1, <2>3 DEF Restore
    <3>2. LifeType' /\ LocalInv'
      BY <1>1, <1>2, <2>1, <3>1 DEF LifeType, LocalInv
    <3>3. PhaseInv'
      BY <2>1, <3>1 DEF PhaseInv, Building, Current
    <3>4. Every(bundles, StartSettled)'
      <4>1. Every(bundles, Falling) \/ Every(bundles, Down)
        BY <2>1 DEF PhaseInv
      <4> QED  BY <1>1, <1>2, <2>1, <3>1, <4>1 DEF Every, StartSettled, Falling, Down
    <3>5. ServiceInv'
      BY <1>1, <1>5, <2>1, <2>3, <3>1, <3>4 DEF ServiceInv, Building
    <3> QED  BY <3>2, <3>3, <3>5
  <2> QED  BY <2>2, <2>3
<1> QED  BY <1>3, <1>4, <1>5

\* The end of a replacement, or the stop of sessions that were not running before it.
LEMMA FinishStep ==
    ASSUME LifeInv, Finish, pc \in Building, Every(bundles, StartSucceeded)
    PROVE  LifeInv'
<1> USE DEF LifeInv
<1>1. /\ config' = config /\ wasRunning' = wasRunning /\ ending' = ending /\ parked' = parked
      /\ bundles' = bundles /\ previous' = previous
      /\ bundles \in Generations /\ previous \in Generations \cup {0}
      /\ Current = bundles
  BY DEF Finish, exiting, LifeType, Current, PhaseInv, Building
<1>2. \A h \in Generations \cup {0} : Primaries(h)' = Primaries(h) /\ Primaries(h) \subseteq Ids
  BY <1>1, PrimaryIds DEF Primaries, LifeType
<1>3. CASE previous # 0 /\ ~wasRunning
  <2>1. StopAll(bundles) /\ pc' = "park"
    BY <1>3 DEF Finish
  <2>2. LifeType' /\ LocalInv'
    BY <1>1, <2>1, StopAllStep
  <2>3. \A h \in Generations \ {Current'}, id \in Ids : Gone(session[h][id], outrun)'
    BY <1>1, <2>1, StopAllFacts, GoneLater DEF PhaseInv, Current
  <2>4. Every(previous, Down)'
    <3>1. Every(previous, Down) /\ bundles # previous
      BY DEF PhaseInv
    <3>2. ASSUME NEW id \in Primaries(previous) PROVE session'[previous][id] = session[previous][id]
      BY <1>1, <1>2, <1>3, <2>1, <3>1, <3>2, StopAllFacts
    <3> QED  BY <1>1, <1>2, <3>1, <3>2 DEF Every
  <2>5. Every(bundles, Falling)'
    <3>1. ASSUME NEW id \in Primaries(bundles) PROVE Falling(session'[bundles][id])
      BY <1>1, <1>2, <2>1, StopAllFacts, StoppedFacts DEF Every, Falling, StartSucceeded, LocalInv
    <3> QED  BY <1>1, <1>2, <3>1 DEF Every
  <2>6. PhaseInv'
    BY <1>1, <1>3, <2>1, <2>3, <2>4, <2>5 DEF PhaseInv, Building
  <2>7. ServiceInv'
    BY <1>1, <2>1 DEF ServiceInv, Building
  <2> QED  BY <2>2, <2>6, <2>7
<1>4. CASE ~(previous # 0 /\ ~wasRunning)
  <2>1. session' = session /\ outrun' = outrun /\ pc' = "done"
    BY <1>4 DEF Finish
  <2>2. LifeType' /\ LocalInv'
    BY <1>1, <1>2, <2>1 DEF LifeType, LocalInv
  <2>3. PhaseInv'
    BY <1>1, <2>1 DEF PhaseInv, Building, Current
  <2>4. Every(bundles, StartSettled)'
    BY <1>1, <1>2, <2>1 DEF Every, StartSettled, StartSucceeded
  <2>5. ending = "no" => Every(bundles, Serving)'
    BY <1>1, <1>2, <2>1 DEF Every, Serving, StartSucceeded, Rising, ServiceInv
  <2>6. ServiceInv'
    BY <1>1, <2>1, <2>4, <2>5 DEF ServiceInv, Building
  <2> QED  BY <2>2, <2>3, <2>6
<1> QED  BY <1>3, <1>4

LEMMA StartAccountsStep ==
    ASSUME LifeInv, StartAccounts
    PROVE  LifeInv'
<1> USE DEF LifeInv
<1>1. CASE Fail
  BY <1>1, FailStep DEF StartAccounts
<1>2. ASSUME NEW list \in Files, NEW g \in Generations \ {bundles},
             Loads(list, ProcessEnv), Quiet(g), bundles' = g,
             config' = [config EXCEPT ![g] = LoadedAccounts(list, ProcessEnv)],
             session' = [session EXCEPT ![g] =
                 [id \in Ids |-> IF id \in {a.id : a \in RunnableAccounts(config'[g])}
                                   THEN Started(Idle) ELSE Idle]],
             pc' = "start", pc = "boot",
             UNCHANGED <<previous, wasRunning, exiting, outrun, parked>>
      PROVE  LifeInv'
  <2>1. config' \in [Generations -> Configs]
    BY <1>2 DEF LifeType, Configs
  <2>2. previous = bundles /\ Every(bundles, Down) /\ Current = bundles /\ Current' = g /\ g # 0
    BY <1>2, GenerationAssumption DEF PhaseInv, Current
  <2>3. /\ \A h \in (Generations \cup {0}) \ {g} : Primaries(h)' = Primaries(h)
        /\ Primaries(g)' = {a.id : a \in RunnableAccounts(config'[g])}
    BY <1>2, <2>1, <2>2 DEF Primaries, LifeType
  <2>4. /\ session' \in [Generations -> [Ids -> SessionSet]]
        /\ \A h \in Generations \ {g}, id \in Ids : session'[h][id] = session[h][id]
        /\ \A id \in Ids : session'[g][id] = IF id \in Primaries(g)' THEN Started(Idle) ELSE Idle
    BY <1>2, <2>3, IdleFacts, StartedFacts DEF LifeType, Good
  <2>5. LifeType'
    BY <1>2, <2>1, <2>4 DEF LifeType
  <2>6. LocalInv'
    <3>1. ASSUME NEW h \in Generations \ {g}, NEW id \in Ids
          PROVE  Good(session[h][id])' /\ (id \notin Primaries(h) => Still(session[h][id]))'
      BY <2>3, <2>4, <3>1 DEF LocalInv
    <3>2. ASSUME NEW id \in Ids
          PROVE  Good(session[g][id])' /\ (id \notin Primaries(g) => Still(session[g][id]))'
      BY <2>4, IdleFacts, StartedFacts
    <3> QED  BY <3>1, <3>2 DEF LocalInv
  <2>7. ASSUME NEW h \in Generations \ {g}, NEW id \in Ids PROVE Gone(session'[h][id], outrun')
    <3>1. CASE h # bundles
      BY <1>2, <2>2, <2>4, <3>1 DEF PhaseInv
    <3>2. CASE h = bundles
      <4>1. Down(session[h][id]) \/ (Good(session[h][id]) /\ Still(session[h][id]))
        BY <2>2, <3>2 DEF Every, LocalInv
      <4> QED  BY <1>2, <2>4, <4>1 DEF Down, Gone, Good, Still
    <3> QED  BY <3>1, <3>2
  <2>8. Every(bundles, LAMBDA s : s.start # "await")' /\ Every(bundles, Rising)'
    <3>1. Primaries(g)' \subseteq Ids
      BY <2>1, ConfigIds DEF Primaries
    <3> QED  BY <1>2, <2>4, <3>1, StartedIdle, IdleFacts, StartedFacts DEF Every
  <2>9. Every(previous, Down)'
    <3>1. previous = 0 \/ (previous \in Generations \ {g} /\ Primaries(previous) \subseteq Ids)
      BY <1>2, <2>2, PrimaryIds DEF LifeType
    <3>2. Primaries(previous)' = Primaries(previous)
      BY <1>2, <2>2, <2>3 DEF LifeType
    <3> QED  BY <1>2, <2>2, <2>4, <3>1, <3>2, NoPrimaries DEF Every
  <2>10. PhaseInv'
    BY <1>2, <2>2, <2>7, <2>8, <2>9 DEF PhaseInv, Building
  <2>11. ServiceInv'
    BY <1>2, <2>8 DEF ServiceInv, Building, exiting
  <2> QED  BY <2>5, <2>6, <2>10, <2>11
<1> QED  BY <1>1, <1>2 DEF StartAccounts

\* The daemon waits for something else: the server, mostly.
LEMMA WaitStep ==
    ASSUME LifeInv, UNCHANGED <<session, config, bundles, previous, wasRunning, outrun, parked>>,
           pc \in Building, pc' \in Building \ {"start"}, Every(bundles, StartSucceeded),
           ending' = ending
    PROVE  LifeInv'
<1> USE DEF LifeInv
<1>1. \A h \in Generations \cup {0} : Primaries(h)' = Primaries(h)
  BY DEF Primaries
<1>2. LifeType' /\ LocalInv'
  BY <1>1 DEF LifeType, LocalInv
<1>3. /\ Every(bundles, StartSucceeded)'
      /\ Every(bundles, LAMBDA s : s.start # "await")'
      /\ Every(previous, Down)'
  BY <1>1 DEF PhaseInv, LifeType, Every
<1>4. PhaseInv'
  BY <1>3 DEF PhaseInv, Building, Current
<1>5. ending = "no" => Every(bundles, Rising)'
  BY <1>1 DEF ServiceInv, LifeType, Every
<1>6. ServiceInv'
  BY <1>5 DEF ServiceInv, Building
<1> QED  BY <1>2, <1>4, <1>6

LEMMA ReloadStep ==
    ASSUME LifeInv, Reload
    PROVE  LifeInv'
<1> USE DEF LifeInv
<1>1. /\ config' = config /\ bundles' = bundles /\ previous' = bundles /\ StopAll(bundles)
      /\ pc = "idle" /\ pc' = "stop" /\ ending = "no" /\ ending' = "no"
      /\ wasRunning' \/ parked'
      /\ bundles \in Generations \cup {0} /\ Current = bundles
  BY DEF Reload, exiting, LifeType, Current
<1>2. \A h \in Generations \cup {0} : Primaries(h)' = Primaries(h) /\ Primaries(h) \subseteq Ids
  BY <1>1, PrimaryIds DEF Primaries, LifeType
<1>3. LifeType' /\ LocalInv'
  BY <1>1, StopAllStep
<1>4. \A h \in Generations \ {Current'}, id \in Ids : Gone(session[h][id], outrun)'
  BY <1>1, StopAllFacts, GoneLater DEF PhaseInv, Current
<1>5. Every(bundles, Falling)'
  <2>1. ASSUME NEW id \in Primaries(bundles) PROVE Falling(session'[bundles][id])
    <3>1. bundles \in Generations /\ id \in Ids /\ Good(session[bundles][id])
      BY <1>1, <1>2, NoPrimaries DEF LocalInv
    <3>2. session[bundles][id].start \in {"ok", "failed"}
      BY <1>1 DEF ServiceInv, Every, StartSettled
    <3> QED  BY <1>1, <3>1, <3>2, StopAllFacts, StoppedFacts DEF Falling
  <2> QED  BY <1>1, <1>2, <2>1 DEF Every
<1>6. PhaseInv'
  BY <1>1, <1>4, <1>5 DEF PhaseInv, Building
<1>7. ServiceInv'
  BY <1>1 DEF ServiceInv, Building
<1> QED  BY <1>3, <1>6, <1>7

LEMMA StopsEndStep ==
    ASSUME LifeInv, StopsEnd
    PROVE  LifeInv'
<1> USE DEF LifeInv
<1>1. CASE Fail
  BY <1>1, FailStep DEF StopsEnd
<1>2. CASE ~Fail
  <2>1. /\ UNCHANGED <<session, config, bundles, previous, wasRunning, outrun, parked>>
        /\ ending' = ending /\ pc = "stop" /\ pc' = "boot" /\ Every(previous, StopSucceeded)
    BY <1>2 DEF StopsEnd, sessions, exiting
  <2>2. \A h \in Generations \cup {0} : Primaries(h)' = Primaries(h)
    BY <2>1 DEF Primaries
  <2>3. LifeType' /\ LocalInv'
    BY <2>1, <2>2 DEF LifeType, LocalInv
  <2>4. Every(bundles, Down)'
    BY <2>1, <2>2 DEF PhaseInv, Every, Falling, Down, StopSucceeded, LifeType
  <2>5. PhaseInv'
    BY <2>1, <2>4 DEF PhaseInv, Building, Current
  <2>6. ServiceInv'
    BY <2>1 DEF ServiceInv, Building
  <2> QED  BY <2>3, <2>5, <2>6
<1> QED  BY <1>1, <1>2

LEMMA OrphansStoppedStep ==
    ASSUME LifeInv, OrphansStopped
    PROVE  LifeInv'
<1> USE DEF LifeInv
<1>1. /\ UNCHANGED <<config, bundles, previous, wasRunning, outrun, parked>>
      /\ ending' = ending /\ pc = "orphans"
      /\ bundles \in Generations \cup {0} /\ previous \in Generations \cup {0}
      /\ bundles # previous /\ Every(bundles, Down) /\ Every(previous, StopSettled)
      /\ Every(previous, LAMBDA s : Sinking(s, outrun)) /\ Current = previous
  BY DEF OrphansStopped, exiting, LifeType, Current, PhaseInv
<1>2. \A h \in Generations \cup {0} : Primaries(h)' = Primaries(h) /\ Primaries(h) \subseteq Ids
  BY <1>1, PrimaryIds DEF Primaries, LifeType
<1>3. ASSUME NEW h \in Generations \ {bundles}, NEW id \in Ids PROVE Gone(session[h][id], outrun)
  <2>1. CASE h # previous
    BY <1>1, <2>1 DEF PhaseInv
  <2>2. CASE h = previous /\ id \in Primaries(previous)
    BY <1>1, <2>2 DEF Every, Sinking, Gone, StopSettled
  <2>3. CASE h = previous /\ id \notin Primaries(previous)
    BY <2>3 DEF LocalInv, Good, Still, Gone
  <2> QED  BY <2>1, <2>2, <2>3
<1>4. CASE wasRunning
  <2>1. StartAll(bundles) /\ pc' = "restore"
    BY <1>4 DEF OrphansStopped, Restore
  <2>2. LifeType' /\ LocalInv'
    BY <1>1, <2>1, StartAllStep
  <2>3. \A h \in Generations \ {Current'}, id \in Ids : Gone(session[h][id], outrun)'
    BY <1>1, <1>3, <2>1, StartAllFacts DEF Current
  <2>4. PhaseInv'
    BY <2>1, <2>3 DEF PhaseInv, Building
  <2>5. Every(bundles, Rising)'
    <3>1. ASSUME NEW id \in Primaries(bundles) PROVE Rising(session'[bundles][id])
      BY <1>1, <1>2, <2>1, NoPrimaries, StartAllFacts, StartedFacts DEF LocalInv
    <3> QED  BY <1>1, <1>2, <3>1 DEF Every
  <2>6. ServiceInv'
    BY <1>1, <1>4, <2>1, <2>5 DEF ServiceInv, Building
  <2> QED  BY <2>2, <2>4, <2>6
<1>5. CASE ~wasRunning
  <2>1. session' = session /\ pc' = "done"
    BY <1>5 DEF OrphansStopped, Restore
  <2>2. LifeType' /\ LocalInv'
    BY <1>1, <1>2, <2>1 DEF LifeType, LocalInv
  <2>3. PhaseInv'
    BY <1>1, <1>3, <2>1 DEF PhaseInv, Building, Current
  <2>4. Every(bundles, StartSettled)'
    BY <1>1, <1>2, <2>1 DEF Every, StartSettled, Down
  <2>5. ending = "no" => parked
    BY <1>1, <1>5 DEF ServiceInv, PhaseInv
  <2>6. ServiceInv'
    BY <1>1, <2>1, <2>4, <2>5 DEF ServiceInv, Building
  <2> QED  BY <2>2, <2>3, <2>6
<1> QED  BY <1>4, <1>5

\* Parked and Restored: the last wait of a reload is over.
LEMMA LastWaitStep ==
    ASSUME LifeInv, UNCHANGED <<session, config, bundles, previous, wasRunning, outrun, parked>>,
           pc \in {"park", "restore"}, pc' = "done", ending' = ending,
           Every(bundles, StartSettled), pc = "park" => Every(bundles, StopSucceeded)
    PROVE  LifeInv'
<1> USE DEF LifeInv
<1>1. \A h \in Generations \cup {0} : Primaries(h)' = Primaries(h)
  BY DEF Primaries
<1>2. LifeType' /\ LocalInv'
  BY <1>1 DEF LifeType, LocalInv
<1>3. PhaseInv'
  BY DEF PhaseInv, Building, Current
<1>4. Every(bundles, StartSettled)'
  BY <1>1 DEF Every, LifeType
<1>5. ending = "no" => parked \/ Every(bundles, Serving)'
  <2>1. CASE pc = "restore"
    BY <1>1, <2>1 DEF ServiceInv, Every, StartSettled, Rising, Serving, LifeType
  <2>2. CASE pc = "park"
    BY <2>2 DEF PhaseInv, ServiceInv
  <2> QED  BY <2>1, <2>2
<1>6. ServiceInv'
  BY <1>4, <1>5 DEF ServiceInv, Building
<1> QED  BY <1>2, <1>3, <1>6

LEMMA DoneStep ==
    ASSUME LifeInv, Done
    PROVE  LifeInv'
<1> USE DEF LifeInv
<1>1. /\ pc = "done" /\ pc' = "idle" /\ bundles' = bundles /\ previous' = bundles
      /\ ending' = ending /\ parked' = parked
      /\ bundles \in Generations \cup {0} /\ Current = bundles /\ Current' = bundles
      /\ \A g \in Generations : Retired(g) => g # bundles /\ Quiet(g)
  BY DEF Done, exiting, LifeType, Current, Retired
<1> DEFINE Kept(s) == IF StopSettled(s) THEN [s EXCEPT !.stop = "none"] ELSE s
<1>2. ASSUME NEW s, Good(s)
      PROVE  /\ Good(Kept(s)) /\ (Still(s) => Still(Kept(s)))
             /\ \A o \in BOOLEAN : Gone(s, o) => Gone(Kept(s), o)
             /\ Kept(s).start = s.start
             /\ Serving(s) => Serving(Kept(s))
  BY <1>2 DEF Good, SessionSet, StopSettled, Still, Gone, Serving
<1> HIDE DEF Kept
<1>3. \A g \in Generations, id \in Ids :
        session'[g][id] = IF ending # "no" THEN session[g][id]
                          ELSE IF Retired(g) THEN Idle ELSE Kept(session[g][id])
  BY DEF Done, Kept
<1>4. /\ \A g \in Generations : config'[g] = IF Retired(g) THEN {} ELSE config[g]
      /\ config' \in [Generations -> Configs]
  BY DEF Done, LifeType, Configs
<1>5. \A g \in Generations \cup {0} : ~Retired(g) => Primaries(g)' = Primaries(g)
  BY <1>4 DEF Primaries
<1>6. session' \in [Generations -> [Ids -> SessionSet]]
  <2>1. CASE ending # "no"
    BY <2>1 DEF Done, LifeType
  <2>2. CASE ending = "no"
    <3>1. session' = [g \in Generations |-> [id \in Ids |->
                        IF Retired(g) THEN Idle ELSE Kept(session[g][id])]]
      BY <2>2 DEF Done, Kept
    <3>2. \A g \in Generations, id \in Ids : Kept(session[g][id]) \in SessionSet
      BY <1>2 DEF LocalInv, Good
    <3> QED  BY <3>1, <3>2, IdleFacts DEF Good
  <2> QED  BY <2>1, <2>2
<1>7. /\ outrun' \in BOOLEAN /\ (outrun' => outrun)
      /\ \A g \in Generations \ {bundles} : Retired(g) \/ outrun' = outrun
  BY DEF Done, LifeType
<1>8. LifeType'
  BY <1>1, <1>4, <1>6, <1>7 DEF LifeType
<1>9. LocalInv'
  <2>1. ASSUME NEW g \in Generations, NEW id \in Ids
        PROVE  Good(session[g][id])' /\ (id \notin Primaries(g) => Still(session[g][id]))'
    <3>1. CASE Retired(g)
      <4>1. Still(session[g][id])
        BY <1>1, <3>1 DEF Quiet, Still
      <4> QED  BY <1>3, <3>1, <4>1, IdleFacts DEF LocalInv
    <3>2. CASE ~Retired(g)
      BY <1>2, <1>3, <1>5, <3>2 DEF LocalInv
    <3> QED  BY <3>1, <3>2
  <2> QED  BY <2>1 DEF LocalInv
<1>10. ASSUME NEW g \in Generations \ {bundles}, NEW id \in Ids PROVE Gone(session'[g][id], outrun')
  <2>1. CASE Retired(g)
    <3>1. Still(session[g][id]) /\ Good(session[g][id])
      BY <1>1, <2>1 DEF Quiet, Still, LocalInv
    <3>2. Gone(session[g][id], outrun') /\ Gone(Idle, outrun')
      BY <1>7, <3>1, IdleFacts DEF Still, Good, Gone
    <3> QED  BY <1>3, <2>1, <3>2
  <2>2. CASE ~Retired(g)
    <3>1. Good(session[g][id]) /\ Gone(session[g][id], outrun) /\ outrun' = outrun
      BY <1>1, <1>7, <2>2 DEF LocalInv, PhaseInv
    <3> QED  BY <1>2, <1>3, <1>7, <2>2, <3>1
  <2> QED  BY <2>1, <2>2
<1>11. PhaseInv'
  BY <1>1, <1>10 DEF PhaseInv, Building
<1>12. ASSUME ending = "no"
       PROVE  Every(bundles, StartSettled)' /\ (parked \/ Every(bundles, Serving)')
  <2>1. Primaries(bundles)' = Primaries(bundles) /\ Primaries(bundles) \subseteq Ids /\ (bundles \in Generations => ~Retired(bundles))
    BY <1>1, <1>5, PrimaryIds, NoPrimaries DEF LifeType, Primaries
  <2>2. \A id \in Primaries(bundles) :
          bundles \in Generations /\ session'[bundles][id] = Kept(session[bundles][id]) /\ Good(session[bundles][id])
    BY <1>1, <1>3, <1>12, <2>1, NoPrimaries DEF LocalInv
  <2> QED  BY <1>1, <1>2, <1>12, <2>1, <2>2 DEF ServiceInv, Every, StartSettled
<1>13. ServiceInv'
  BY <1>1, <1>12 DEF ServiceInv, Building
<1> QED  BY <1>8, <1>9, <1>11, <1>13

LEMMA ShutdownStep ==
    ASSUME LifeInv, Shutdown
    PROVE  LifeInv'
<1> USE DEF LifeInv
<1>1. /\ StopAll(bundles) /\ UNCHANGED <<config, bundles, previous, wasRunning, pc, parked>>
      /\ ending' = "stop" /\ Current' = Current
      /\ bundles \in Generations \cup {0} /\ previous \in Generations \cup {0}
  BY DEF Shutdown, LifeType, Current
<1>2. \A h \in Generations \cup {0} : Primaries(h)' = Primaries(h) /\ Primaries(h) \subseteq Ids
  BY <1>1, PrimaryIds DEF Primaries, LifeType
<1>3. LifeType' /\ LocalInv'
  BY <1>1, StopAllStep
<1>4. \A id \in Primaries(bundles) :
        /\ bundles \in Generations /\ id \in Ids /\ Good(session[bundles][id])
        /\ session'[bundles][id] = Stopped(session[bundles][id])
  BY <1>1, <1>2, NoPrimaries, StopAllFacts DEF LocalInv
<1>5. /\ Every(bundles, Down) => Every(bundles, Down)'
      /\ Every(bundles, Falling) => Every(bundles, Falling)'
      /\ Every(bundles, LAMBDA s : s.start # "await") => Every(bundles, LAMBDA s : s.start # "await")'
      /\ Every(bundles, StartSucceeded) => Every(bundles, StartSucceeded)'
  BY <1>1, <1>2, <1>4, StoppedFacts DEF Every, Down, Falling, StartSucceeded
<1>6. \A h \in Generations, id \in Ids : h # bundles => session'[h][id] = session[h][id]
  BY <1>1, StopAllFacts
<1>7. bundles # previous =>
        /\ Every(previous, Down) => Every(previous, Down)'
        /\ Every(previous, LAMBDA s : Sinking(s, outrun)) => Every(previous, LAMBDA s : Sinking(s, outrun))'
  <2> SUFFICES ASSUME bundles # previous PROVE
        /\ Every(previous, Down) => Every(previous, Down)'
        /\ Every(previous, LAMBDA s : Sinking(s, outrun)) => Every(previous, LAMBDA s : Sinking(s, outrun))'
    OBVIOUS
  <2>1. \A id \in Primaries(previous) : session'[previous][id] = session[previous][id]
    BY <1>1, <1>2, <1>6, NoPrimaries
  <2>2. outrun => outrun'
    BY <1>1, StopAllFacts
  <2> QED  BY <1>1, <1>2, <2>1, <2>2 DEF Every, Sinking
<1>8. ASSUME NEW h \in Generations \ {Current}, NEW id \in Ids PROVE Gone(session'[h][id], outrun')
  <2>1. CASE h # bundles \/ id \notin Primaries(bundles)
    <3>1. session'[h][id] = session[h][id] /\ (outrun => outrun')
      BY <1>1, <2>1, StopAllFacts
    <3> QED  BY <1>8, <3>1, GoneLater DEF PhaseInv
  <2>2. CASE h = bundles /\ id \in Primaries(bundles)
    <3>1. pc = "orphans"
      BY <1>8, <2>2 DEF Current
    <3>2. Every(bundles, Down)'
      BY <1>5, <3>1 DEF PhaseInv
    <3>3. Down(session'[bundles][id])
      BY <1>1, <1>2, <2>2, <3>2 DEF Every
    <3> QED  BY <2>2, <3>3 DEF Down, Gone
  <2> QED  BY <2>1, <2>2
<1>9. PhaseInv'
  BY <1>1, <1>5, <1>7, <1>8 DEF PhaseInv, Building
<1>10. ServiceInv'
  BY <1>1 DEF ServiceInv
<1> QED  BY <1>3, <1>9, <1>10

\* The process exits, or the last phase of its end begins.
LEMMA ExitStep ==
    ASSUME LifeInv, UNCHANGED <<sessions, pc, outrun, parked>>, ending' = ending \/ ending' # "no"
    PROVE  LifeInv'
<1> USE DEF LifeInv
<1>1. \A h \in Generations \cup {0} : Primaries(h)' = Primaries(h)
  BY DEF Primaries, sessions
<1>2. LifeType' /\ LocalInv'
  BY <1>1 DEF LifeType, LocalInv, sessions
<1>3. /\ bundles' = bundles /\ previous' = previous /\ wasRunning' = wasRunning /\ session' = session
      /\ bundles \in Generations \cup {0} /\ previous \in Generations \cup {0}
  BY DEF LifeType, sessions
<1>4. ASSUME NEW h \in {bundles, previous} PROVE
      /\ Every(h, Falling) => Every(h, Falling)'
      /\ Every(h, Down) => Every(h, Down)'
      /\ Every(h, LAMBDA s : s.start # "await") => Every(h, LAMBDA s : s.start # "await")'
      /\ Every(h, StartSettled) => Every(h, StartSettled)'
      /\ Every(h, StartSucceeded) => Every(h, StartSucceeded)'
      /\ Every(h, LAMBDA s : Sinking(s, outrun)) => Every(h, LAMBDA s : Sinking(s, outrun))'
      /\ Every(h, Rising) => Every(h, Rising)'
      /\ Every(h, Serving) => Every(h, Serving)'
  BY <1>1, <1>3 DEF Every
<1>5. PhaseInv'
  BY <1>3, <1>4 DEF PhaseInv, Current
<1>6. ServiceInv'
  BY <1>3, <1>4 DEF ServiceInv
<1> QED  BY <1>2, <1>5, <1>6

LEMMA LifeStep ==
    ASSUME LifeInv, [Next]_vars
    PROVE  LifeInv'
<1>1. ASSUME NEW g \in Generations, NEW id \in Ids, SessionStep(g, id) \/ Tick(g, id) PROVE LifeInv'
  <2> DEFINE Taken(t) == StepOf(session[g][id], t) /\ session' = [session EXCEPT ![g][id] = t]
  <2>1. \E t : Taken(t)
    <3>1. CASE Tick(g, id)
      <4>1. Taken([session[g][id] EXCEPT !.cycle = TRUE])
        BY <3>1 DEF Tick, StepOf, LifeInv, LifeType
      <4> QED  BY <4>1
    <3>2. CASE SessionStep(g, id)
      BY <3>2 DEF SessionStep, StepOf
    <3> QED  BY <1>1, <3>1, <3>2
  <2>2. UNCHANGED <<config, bundles, previous, wasRunning, pc, ending, outrun, parked>>
    BY <1>1 DEF SessionStep, Tick, exiting
  <2> QED  BY <2>1, <2>2, OwnStep
<1>2. CASE StartsEnd
  <2>1. CASE Fail
    BY <1>2, <2>1, FailStep DEF StartsEnd, Building
  <2>2. ASSUME NEW found, Every(bundles, StartSucceeded), ReconcileSideServer(found)
        PROVE  LifeInv'
    <3>1. CASE found = "invalid"
      BY <2>1, <2>2, <3>1 DEF ReconcileSideServer
    <3>2. CASE found # "invalid" /\ active = found
      BY <1>2, <2>2, <3>2, FinishStep DEF ReconcileSideServer, StartsEnd, Building
    <3>3. CASE found # "invalid" /\ active # found
      BY <1>2, <2>2, <3>3, WaitStep DEF ReconcileSideServer, StartsEnd, Building, sessions, exiting
    <3> QED  BY <3>1, <3>2, <3>3
  <2> QED  BY <1>2, <2>1, <2>2 DEF StartsEnd
<1>3. CASE ServerClosed
  BY <1>3, WaitStep DEF ServerClosed, Building, sessions, exiting, LifeInv, PhaseInv
<1>4. CASE ServerNotRunning
  BY <1>4, FailStep DEF ServerNotRunning, Building
<1>5. CASE ServerStarts
  BY <1>5, FinishStep DEF ServerStarts, Building, LifeInv, PhaseInv
<1>6. CASE ServerFails
  <2>1. CASE Fail
    BY <1>6, <2>1, FailStep DEF ServerFails, Building
  <2>2. CASE ~Fail
    BY <1>6, <2>2, WaitStep DEF ServerFails, Building, sessions, exiting, LifeInv, PhaseInv
  <2> QED  BY <2>1, <2>2
<1>7. CASE ServerRestored
  BY <1>7, FailStep DEF ServerRestored, Building
<1>8. CASE Parked
  <2>1. CASE Fail
    BY <1>8, <2>1, FailStep DEF Parked
  <2>2. CASE ~Fail
    <3>1. Every(bundles, StartSettled)
      BY <1>8 DEF Parked, LifeInv, PhaseInv, Every, Falling, StartSettled
    <3> QED  BY <1>8, <2>2, <3>1, LastWaitStep DEF Parked, sessions, exiting
  <2> QED  BY <2>1, <2>2
<1>9. CASE Restored
  BY <1>9, LastWaitStep DEF Restored, sessions, exiting
<1>10. CASE Abandon \/ CloseServer \/ Exit
  BY <1>10, ExitStep DEF Abandon, CloseServer, Exit
<1>11. CASE UNCHANGED vars
  BY <1>11, ExitStep DEF vars, exiting
<1>12. CASE StopsEnd \/ StartAccounts \/ OrphansStopped \/ Done \/ Reload \/ Shutdown
  BY <1>12, StopsEndStep, StartAccountsStep, OrphansStoppedStep, DoneStep, ReloadStep, ShutdownStep
<1> QED
  BY <1>1, <1>2, <1>3, <1>4, <1>5, <1>6, <1>7, <1>8, <1>9, <1>10, <1>11, <1>12 DEF Next, Control

LEMMA Life == Spec => []LifeInv
BY LifeInit, LifeStep, PTL DEF Spec

\* The accounts of a generation do not share a file, if no account's history file is
\* another's state file, which nobody checks.
NoCrossing ==
    \A list \in Files : \A a, b \in LoadedAccounts(list, ProcessEnv) :
        a # b /\ a.stateFile = b.historyFile => a.stateFile = NoFile

LEMMA OwnFiles ==
    ASSUME NoCrossing, NEW c \in Configs, NEW a \in c, NEW b \in c, NEW f,
           f \in {a.stateFile, a.historyFile}, f \in {b.stateFile, b.historyFile}, f # NoFile
    PROVE  a = b
<1>1. PICK list \in Files : Loads(list, ProcessEnv) /\ c = LoadedAccounts(list, ProcessEnv)
  BY DEF Configs
<1>2. UniquePaths(c)
  BY <1>1 DEF Loads
<1>3. a # b => ~(a["stateFile"] = b["stateFile"] /\ f = a["stateFile"])
  BY <1>2 DEF UniquePaths, Managed
<1>4. a # b => ~(a["historyFile"] = b["historyFile"] /\ f = a["historyFile"])
  BY <1>2 DEF UniquePaths, Managed
<1>5. a # b => ~(a.stateFile = b.historyFile /\ f = a.stateFile) /\ ~(b.stateFile = a.historyFile /\ f = b.stateFile)
  BY <1>1 DEF NoCrossing
<1> QED  BY <1>3, <1>4, <1>5

\* OneWriterPerFile: no two cycles share a state or history file, unless a stop() overtook
\* a start(): all generations but one are quiet, through reloads that fail and are undone
\* and shutdowns that race them, and the accounts of one do not share files.
THEOREM FilesHaveOneWriter == ASSUME NoCrossing PROVE Spec => []OneWriterPerFile
<1>1. LifeInv => OneWriterPerFile
  <2> SUFFICES ASSUME LifeInv, ~outrun, NEW g \in Generations, NEW h \in Generations,
                      NEW i \in Ids, NEW j \in Ids, session[g][i].cycle, session[h][j].cycle,
                      NEW f \in FilesOf(g, i) \cap FilesOf(h, j)
               PROVE  g = h /\ i = j
    BY DEF OneWriterPerFile
  <2>1. g = Current /\ h = Current
    BY DEF LifeInv, PhaseInv, Gone
  <2>2. PICK a \in config[g] : a.id = i /\ f \in {a.stateFile, a.historyFile} /\ f # NoFile
    BY DEF FilesOf
  <2>3. PICK b \in config[h] : b.id = j /\ f \in {b.stateFile, b.historyFile}
    BY DEF FilesOf
  <2>4. config[g] \in Configs
    BY DEF LifeInv, LifeType
  <2>5. a = b
    BY <2>1, <2>2, <2>3, <2>4, OwnFiles
  <2> QED  BY <2>1, <2>2, <2>3, <2>5
<1> QED  BY <1>1, Life, PTL

\* ReloadKeepsService: between reloads exactly the sessions the daemon works with run,
\* whether the last reload succeeded or was undone.
THEOREM ServiceIsKept == Spec => []ReloadKeepsService
<1>1. LifeInv => ReloadKeepsService
  <2> SUFFICES ASSUME LifeInv, pc = "idle", ending = "no" PROVE
        /\ \A g \in Generations \ {bundles}, id \in Ids :
             ~session[g][id].timer /\ (outrun \/ ~session[g][id].cycle)
        /\ parked \/ Every(bundles, LAMBDA s : s.timer \/ s.start = "failed")
    BY DEF ReloadKeepsService
  <2>1. \A g \in Generations \ {bundles}, id \in Ids : Gone(session[g][id], outrun)
    BY DEF LifeInv, PhaseInv, Current
  <2>2. parked \/ Every(bundles, Serving)
    BY DEF LifeInv, ServiceInv
  <2> QED  BY <2>1, <2>2 DEF Gone, Every, Serving
<1> QED  BY <1>1, Life, PTL

-----------------------------------------------------------------------------
(***************************************************************************)
(* The types                                                               *)
(***************************************************************************)

\* What LifeType leaves out.
RestType ==
    /\ stopped \in Generations \cup {0}
    /\ pc \in {"boot", "start", "close", "close again", "listen", "relisten", "done", "idle",
               "stop", "park", "orphans", "restore", "abandon"}
    /\ {active, former, sideServer, health} \subseteq Healths \cup {"off", "invalid", "none"}
    /\ ending \in {"no", "stop", "close", "exited"}
    /\ code \in {0, 1}

LEMMA FailTyped ==
    ASSUME RestType, Fail
    PROVE  pc' \in {"abandon", "orphans", "restore", "done"} /\ UNCHANGED exiting
BY DEF Fail, Restore

LEMMA RestStep ==
    ASSUME LifeType, RestType, [Next]_vars
    PROVE  RestType'
<1> USE DEF RestType, exiting, server, sessions
<1>1. ASSUME NEW g \in Generations, NEW id \in Ids, SessionStep(g, id) \/ Tick(g, id) PROVE RestType'
  BY <1>1 DEF SessionStep, Tick
<1>2. CASE Fail /\ UNCHANGED server
  BY <1>2, FailTyped
<1>3. CASE Reload \/ Shutdown
  BY <1>3 DEF Reload, Shutdown, LifeType
<1>4. CASE StopsEnd \/ Parked
  BY <1>2, <1>4 DEF StopsEnd, Parked
<1>5. CASE StartAccounts
  BY <1>2, <1>5 DEF StartAccounts
<1>6. CASE StartsEnd
  <2>1. ASSUME NEW found \in Healths \cup {"off", "invalid"}, ReconcileSideServer(found)
        PROVE  RestType'
    BY <1>2, <2>1 DEF ReconcileSideServer, Finish, ForgetActive
  <2> QED  BY <1>2, <1>6, <2>1 DEF StartsEnd
<1>7. CASE ServerClosed \/ ServerStarts
  BY <1>7 DEF ServerClosed, ServerStarts, Finish
<1>8. CASE ServerNotRunning \/ ServerFails \/ ServerRestored
  BY <1>8, FailTyped DEF ServerNotRunning, ServerFails, ServerRestored
<1>9. CASE OrphansStopped \/ Restored \/ Done
  BY <1>9 DEF OrphansStopped, Restore, Restored, Done
<1>10. CASE Abandon \/ CloseServer \/ Exit \/ UNCHANGED vars
  BY <1>10 DEF Abandon, CloseServer, Exit, vars
<1> QED
  BY <1>1, <1>3, <1>4, <1>5, <1>6, <1>7, <1>8, <1>9, <1>10 DEF Next, Control

\* Every state of the daemon is well typed: sessions, phases, settings of the server and
\* exit code, for any accounts files, settings and generations.
THEOREM TypeCorrect == Spec => []TypeOK
<1>1. Init => RestType
  BY DEF Init, RestType
<1>2. LifeInv /\ RestType => TypeOK
  BY DEF LifeInv, LifeType, RestType, SessionSet, TypeOK
<1>3. LifeInv /\ RestType /\ [Next]_vars => RestType'
  BY RestStep DEF LifeInv
<1> QED  BY <1>1, <1>2, <1>3, Life, PTL DEF Spec

-----------------------------------------------------------------------------
(***************************************************************************)
(* The exit                                                                *)
(***************************************************************************)

\* Main and a failure before its end; a shutdown that no reload crosses: it waits for the
\* sessions the daemon works with, and nobody starts one again.
EndInv ==
    /\ bundles = 0 => previous = 0 /\ pc \in {"boot", "abandon"}
    /\ previous = 0 =>
         /\ pc \in {"boot", "abandon", "done"} \cup Building
         /\ ending = "no" \/ (pc = "abandon" /\ ending = "exited")
    /\ pc = "abandon" => previous = 0 /\ Every(bundles, LAMBDA s : Sinking(s, outrun))
    /\ ending # "no" /\ ~overlapped =>
         \/ /\ pc = "idle" /\ stopped = bundles
            /\ Every(bundles, Falling)
            /\ ending # "stop" => Every(bundles, Down)
         \/ /\ pc = "abandon" /\ ending = "exited"
            /\ outrun \/ Every(bundles, LAMBDA s : ~s.cycle)

LEMMA EndInit == Init => EndInv
BY DEF Init, EndInv, Building

\* A failure, also the first, which has the process exit once the sessions are stopped.
LEMMA FailEnds ==
    ASSUME LifeInv, EndInv, Fail, pc \in {"stop", "boot", "park"} \cup Building
    PROVE  EndInv'
<1> USE DEF LifeInv
<1>1. /\ config' = config /\ ending' = ending /\ overlapped' = overlapped
      /\ bundles \in Generations \cup {0} /\ previous \in Generations \cup {0}
      /\ pc \notin {"idle", "abandon"}
  BY DEF Fail, exiting, LifeType, Building
<1>2. \A h \in Generations \cup {0} : Primaries(h)' = Primaries(h) /\ Primaries(h) \subseteq Ids
  BY <1>1, PrimaryIds DEF Primaries, LifeType
<1>3. ~(ending # "no" /\ ~overlapped)
  BY <1>1 DEF EndInv
<1>4. CASE previous = 0
  <2>1. StopAll(bundles) /\ pc' = "abandon" /\ bundles' = bundles /\ previous' = previous
    BY <1>4 DEF Fail
  <2>2. bundles = 0 \/ pc \in Building
    BY <1>1, <1>4 DEF EndInv, PhaseInv
  <2>3. ASSUME NEW id \in Primaries(bundles) PROVE Sinking(session'[bundles][id], outrun')
    <3>1. bundles \in Generations /\ id \in Ids /\ Good(session[bundles][id])
      BY <1>1, <1>2, NoPrimaries DEF LocalInv
    <3>2. session[bundles][id].start # "await"
      BY <2>2, <3>1, GenerationAssumption DEF PhaseInv, Every
    <3>3. session'[bundles][id] = Stopped(session[bundles][id])
      BY <2>1, <3>1, StopAllFacts
    <3>4. session[bundles][id].start = "load" => outrun'
      BY <1>1, <2>1, StopAllFacts
    <3> QED  BY <3>1, <3>2, <3>3, <3>4, StoppedFacts DEF Sinking
  <2>4. Every(bundles, LAMBDA s : Sinking(s, outrun))'
    BY <1>1, <1>2, <2>1, <2>3 DEF Every
  <2> QED  BY <1>1, <1>3, <1>4, <2>1, <2>4 DEF EndInv
<1>5. CASE previous # 0
  <2>1. /\ bundles' = previous /\ previous' \in {previous, bundles}
        /\ pc' \in {"orphans", "restore", "done"}
    BY <1>5 DEF Fail, Restore
  <2>2. bundles # 0
    BY <1>5 DEF EndInv
  <2> QED  BY <1>1, <1>3, <1>5, <2>1, <2>2 DEF EndInv
<1> QED  BY <1>4, <1>5

\* Main or a reload goes on: no shutdown has begun, or one has during the reload.
LEMMA GoesOnEnds ==
    ASSUME EndInv, pc \notin {"idle", "abandon"}, UNCHANGED <<ending, overlapped>>,
           bundles' # 0, previous' \in {previous, bundles}, previous = 0 => ending = "no",
           pc' # "abandon",
           previous' = 0 => pc' \in {"boot", "done"} \cup Building
    PROVE  EndInv'
BY DEF EndInv

LEMMA FinishEnds ==
    ASSUME LifeInv, EndInv, Finish, pc \in Building
    PROVE  EndInv'
<1>1. /\ pc' \in {"park", "done"} /\ (previous = 0 => pc' = "done")
      /\ UNCHANGED <<bundles, previous, ending, overlapped>>
  BY DEF Finish, exiting
<1>2. bundles # 0 /\ pc \notin {"idle", "abandon"}
  BY DEF EndInv, Building
<1> QED  BY <1>1, <1>2, GoesOnEnds DEF EndInv

LEMMA ControlEnds ==
    ASSUME LifeInv, EndInv, Control
    PROVE  EndInv'
<1>1. CASE StopsEnd
  <2>1. CASE Fail
    BY <1>1, <2>1, FailEnds DEF StopsEnd
  <2>2. CASE ~Fail
    <3>1. pc = "stop" /\ pc' = "boot" /\ UNCHANGED <<bundles, previous, ending, overlapped>>
      BY <1>1, <2>2 DEF StopsEnd, sessions, exiting
    <3> QED  BY <3>1, GoesOnEnds DEF EndInv, Building
  <2> QED  BY <2>1, <2>2
<1>2. CASE StartAccounts
  <2>1. CASE Fail
    BY <1>2, <2>1, FailEnds DEF StartAccounts
  <2>2. CASE ~Fail
    <3>1. /\ pc = "boot" /\ pc' = "start" /\ bundles' \in Generations /\ Alive
          /\ UNCHANGED <<previous, ending, overlapped>>
      BY <1>2, <2>2 DEF StartAccounts, exiting
    <3> QED  BY <3>1, GoesOnEnds, GenerationAssumption DEF EndInv, Building
  <2> QED  BY <2>1, <2>2
<1>3. CASE StartsEnd
  <2>1. CASE Fail
    BY <1>3, <2>1, FailEnds DEF StartsEnd, Building
  <2>2. CASE Finish
    BY <1>3, <2>2, FinishEnds DEF StartsEnd, Building
  <2>3. CASE ~Fail /\ ~Finish
    <3>1. /\ pc = "start" /\ pc' \in {"close", "close again", "listen"} /\ Alive
          /\ UNCHANGED <<bundles, previous, ending, overlapped>>
      BY <1>3, <2>3 DEF StartsEnd, ReconcileSideServer, sessions, exiting
    <3> QED  BY <3>1, GoesOnEnds DEF EndInv, Building
  <2> QED  BY <2>1, <2>2, <2>3
<1>4. CASE ServerNotRunning \/ ServerRestored
  BY <1>4, FailEnds DEF ServerNotRunning, ServerRestored, Building
<1>5. CASE ServerStarts
  BY <1>5, FinishEnds DEF ServerStarts, Building
<1>6. CASE ServerFails
  <2>1. CASE Fail
    BY <1>6, <2>1, FailEnds DEF ServerFails, Building
  <2>2. CASE ~Fail
    <3>1. pc = "listen" /\ pc' = "relisten" /\ UNCHANGED <<bundles, previous, ending, overlapped>>
      BY <1>6, <2>2 DEF ServerFails, sessions, exiting
    <3> QED  BY <3>1, GoesOnEnds DEF EndInv, Building
  <2> QED  BY <2>1, <2>2
<1>7. CASE ServerClosed
  <2>1. pc = "close" /\ pc' = "listen" /\ UNCHANGED <<bundles, previous, ending, overlapped>>
    BY <1>7 DEF ServerClosed, sessions, exiting
  <2> QED  BY <2>1, GoesOnEnds DEF EndInv, Building
<1>8. CASE Parked
  <2>1. CASE Fail
    BY <1>8, <2>1, FailEnds DEF Parked
  <2>2. CASE ~Fail
    <3>1. pc = "park" /\ pc' = "done" /\ UNCHANGED <<bundles, previous, ending, overlapped>>
      BY <1>8, <2>2 DEF Parked, sessions, exiting
    <3> QED  BY <3>1, GoesOnEnds DEF EndInv, Building
  <2> QED  BY <2>1, <2>2
<1>9. CASE OrphansStopped \/ Restored
  <2>1. /\ pc \in {"orphans", "restore"} /\ pc' \in {"restore", "done"}
        /\ UNCHANGED <<bundles, previous, ending, overlapped>>
    BY <1>9 DEF OrphansStopped, Restored, Restore, sessions, exiting
  <2> QED  BY <2>1, GoesOnEnds DEF EndInv, Building
<1>10. CASE Done
  <2>1. pc = "done" /\ pc' = "idle" /\ bundles' = bundles /\ previous' = bundles /\ UNCHANGED <<ending, overlapped>>
    BY <1>10 DEF Done, exiting
  <2> QED  BY <2>1, GoesOnEnds DEF EndInv, Building
<1> QED
  BY <1>1, <1>2, <1>3, <1>4, <1>5, <1>6, <1>7, <1>8, <1>9, <1>10 DEF Control

\* A shutdown that finds no reload under way stops sessions that have been started.
LEMMA ShutdownEnds ==
    ASSUME LifeInv, EndInv, Shutdown
    PROVE  EndInv'
<1> USE DEF LifeInv
<1>1. /\ StopAll(bundles) /\ UNCHANGED <<config, bundles, previous, pc>>
      /\ ending = "no" /\ ending' = "stop" /\ stopped' = bundles /\ overlapped' = (pc # "idle")
      /\ bundles \in Generations \cup {0} /\ previous # 0
  BY DEF Shutdown, Booted, LifeType, EndInv, Building
<1>2. \A h \in Generations \cup {0} : Primaries(h)' = Primaries(h) /\ Primaries(h) \subseteq Ids
  BY <1>1, PrimaryIds DEF Primaries, LifeType
<1>3. pc = "idle" => Every(bundles, Falling)'
  <2> SUFFICES ASSUME pc = "idle" PROVE Every(bundles, Falling)'
    OBVIOUS
  <2>1. ASSUME NEW id \in Primaries(bundles) PROVE Falling(session'[bundles][id])
    <3>1. /\ bundles \in Generations /\ id \in Ids /\ Good(session[bundles][id])
          /\ session'[bundles][id] = Stopped(session[bundles][id])
      BY <1>1, <1>2, <2>1, NoPrimaries, StopAllFacts DEF LocalInv
    <3>2. session[bundles][id].start \in {"ok", "failed"}
      BY <1>1, <2>1 DEF ServiceInv, Every, StartSettled
    <3> QED  BY <3>1, <3>2, StoppedFacts DEF Falling
  <2> QED  BY <1>1, <1>2, <2>1 DEF Every
<1> QED  BY <1>1, <1>3 DEF EndInv

\* The end of the process: the stops have settled, so no cycle is left.
LEMMA ExitEnds ==
    ASSUME LifeInv, EndInv, Abandon \/ CloseServer \/ Exit \/ UNCHANGED vars
    PROVE  EndInv'
<1> USE DEF LifeInv
<1>1. /\ UNCHANGED <<session, config, bundles, previous, pc, stopped, overlapped, outrun>>
      /\ bundles \in Generations \cup {0}
  BY DEF Abandon, CloseServer, Exit, vars, sessions, exiting, LifeType
<1>2. Primaries(bundles)' = Primaries(bundles) /\ Primaries(bundles) \subseteq Ids
  BY <1>1, PrimaryIds DEF Primaries, LifeType
<1>3. /\ Every(bundles, Falling)' <=> Every(bundles, Falling)
      /\ Every(bundles, Down)' <=> Every(bundles, Down)
      /\ Every(bundles, LAMBDA s : Sinking(s, outrun))' <=> Every(bundles, LAMBDA s : Sinking(s, outrun))
      /\ Every(bundles, LAMBDA s : ~s.cycle)' <=> Every(bundles, LAMBDA s : ~s.cycle)
  BY <1>1, <1>2 DEF Every
<1>4. CASE Abandon
  <2>1. /\ pc = "abandon" /\ ending # "exited" /\ ending' = "exited"
        /\ Every(bundles, StopSettled) /\ Every(bundles, LAMBDA s : Sinking(s, outrun))
    BY <1>4 DEF Abandon, Alive, EndInv
  <2>2. outrun \/ Every(bundles, LAMBDA s : ~s.cycle)
    BY <2>1 DEF Every, StopSettled, Sinking
  <2> QED  BY <1>1, <1>3, <2>1, <2>2 DEF EndInv
<1>5. CASE CloseServer
  <2>1. ending = "stop" /\ ending' \in {"close", "exited"} /\ Every(stopped, StopSettled)
    BY <1>5 DEF CloseServer
  <2>2. stopped = bundles /\ Every(bundles, Falling) => Every(bundles, Down)
    BY <2>1 DEF Every, StopSettled, Falling, Down
  <2> QED  BY <1>1, <1>3, <2>1, <2>2 DEF EndInv
<1>6. CASE Exit
  BY <1>1, <1>3, <1>6 DEF Exit, EndInv
<1>7. CASE UNCHANGED vars
  BY <1>1, <1>3, <1>7 DEF vars, exiting, EndInv
<1> QED  BY <1>4, <1>5, <1>6, <1>7

LEMMA EndStep ==
    ASSUME LifeInv, EndInv, [Next]_vars
    PROVE  EndInv'
<1>1. ASSUME NEW g \in Generations, NEW id \in Ids, SessionStep(g, id) \/ Tick(g, id) PROVE EndInv'
  <2> DEFINE Taken(t) == StepOf(session[g][id], t) /\ session' = [session EXCEPT ![g][id] = t]
  <2>1. PICK t : Taken(t)
    <3>1. CASE Tick(g, id)
      <4>1. Taken([session[g][id] EXCEPT !.cycle = TRUE])
        BY <3>1 DEF Tick, StepOf, LifeInv, LifeType
      <4> QED  BY <4>1
    <3>2. CASE SessionStep(g, id)
      BY <3>2 DEF SessionStep, StepOf
    <3> QED  BY <1>1, <3>1, <3>2
  <2>2. /\ UNCHANGED <<config, bundles, previous, wasRunning, pc, ending, outrun, parked>>
        /\ UNCHANGED <<stopped, overlapped>> /\ ending # "exited"
        /\ bundles \in Generations \cup {0}
    BY <1>1 DEF SessionStep, Tick, exiting, Alive, LifeInv, LifeType
  <2>3. /\ Every(bundles, Falling) => Every(bundles, Falling)'
        /\ Every(bundles, Down) => Every(bundles, Down)'
        /\ Every(bundles, LAMBDA s : Sinking(s, outrun)) => Every(bundles, LAMBDA s : Sinking(s, outrun))'
    BY <2>1, <2>2, OwnEvery
  <2> QED  BY <2>2, <2>3 DEF EndInv
<1>2. CASE Reload
  <2>1. /\ pc = "idle" /\ pc' = "stop" /\ ending = "no" /\ ending' = ending
        /\ previous' = bundles /\ bundles' = bundles
    BY <1>2 DEF Reload, exiting
  <2> QED  BY <2>1 DEF EndInv, Building
<1>3. CASE Control
  BY <1>3, ControlEnds
<1>4. CASE Shutdown
  BY <1>4, ShutdownEnds
<1>5. CASE Abandon \/ CloseServer \/ Exit \/ UNCHANGED vars
  BY <1>5, ExitEnds
<1> QED  BY <1>1, <1>2, <1>3, <1>4, <1>5 DEF Next

\* QuietExit: the process exits under no cycle, at its first failure or at a shutdown that
\* comes between reloads, unless a stop() overtook a start(): the stops that shutdown
\* waits for are those of every session that may run one.
THEOREM ExitIsQuiet == Spec => []QuietExit
<1>1. ASSUME LifeInv, EndInv PROVE QuietExit
  <2> SUFFICES ASSUME ending = "exited", ~overlapped, ~outrun, NEW g \in Generations, NEW id \in Ids
               PROVE  ~session[g][id].cycle
    BY DEF QuietExit
  <2>1. pc # "orphans" /\ Every(bundles, LAMBDA s : ~s.cycle)
    BY <1>1 DEF EndInv, Every, Down
  <2>2. CASE g # bundles
    BY <1>1, <2>1, <2>2 DEF LifeInv, PhaseInv, Current, Gone
  <2>3. CASE g = bundles /\ id \in Primaries(g)
    BY <2>1, <2>3 DEF Every
  <2>4. CASE id \notin Primaries(g)
    BY <1>1, <2>4 DEF LifeInv, LocalInv, Still
  <2> QED  BY <2>2, <2>3, <2>4
<1> QED  BY <1>1, Life, EndInit, EndStep, PTL DEF Spec

-----------------------------------------------------------------------------
(***************************************************************************)
(* Each session keeps the promise of module Session.                       *)
(***************************************************************************)

\* What the daemon may make of a session in one step: nothing, a step of its own, a call,
\* or another life, when it is still.
Moved(s, t) ==
    \/ t = s
    \/ StepOf(s, t)
    \/ t = Stopped(s)
    \/ t = Started(s)
    \/ StopSettled(s) /\ t = [s EXCEPT !.stop = "none"]
    \/ Still(s) /\ t \in {Idle, Started(Idle)}

LEMMA StoppedKeepsPromise ==
    ASSUME NEW g \in Generations, NEW id \in Ids, Good(session[g][id]),
           session'[g][id] = Stopped(session[g][id])
    PROVE  [SessionOf(g, id)!Next]_(SessionOf(g, id)!vars)
<1> DEFINE s == session[g][id]
           t == session'[g][id]
<1>1. CASE s.stop = "drain"
  <2>1. t = s
    BY <1>1 DEF Stopped
  <2> QED  BY <2>1 DEF SessionOf!vars
<1>2. CASE s.stop # "drain"
  <2>1. /\ t.stopping = TRUE /\ t.timer = FALSE /\ t.cycle = s.cycle
        /\ t.stop = IF s.cycle THEN "drain" ELSE "ok"
    BY <1>2 DEF Stopped, Good, SessionSet
  <2>2. s.cycle \in BOOLEAN
    BY DEF Good, SessionSet
  <2>3. SessionOf(g, id)!Stop
    BY <1>2, <2>1, <2>2 DEF SessionOf!Stop
  <2> QED  BY <2>3 DEF SessionOf!Next
<1> QED  BY <1>1, <1>2

LEMMA StartedKeepsPromise ==
    ASSUME NEW g \in Generations, NEW id \in Ids, Good(session[g][id]),
           session'[g][id] = Started(session[g][id])
    PROVE  [SessionOf(g, id)!Next]_(SessionOf(g, id)!vars)
<1> DEFINE s == session[g][id]
           t == session'[g][id]
<1>1. t.timer = s.timer /\ t.cycle = s.cycle /\ t.stop = s.stop
  BY DEF Started, Good, SessionSet
<1>2. CASE s.stop = "drain"
  <2>1. t.stopping = s.stopping
    BY <1>2 DEF Started, Good, SessionSet
  <2> QED  BY <1>1, <2>1 DEF SessionOf!vars
<1>3. CASE s.stop # "drain"
  <2>1. t.stopping = FALSE
    BY <1>3 DEF Started, Good, SessionSet
  <2>2. SessionOf(g, id)!Start
    BY <1>1, <1>3, <2>1 DEF SessionOf!Start
  <2> QED  BY <2>2 DEF SessionOf!Next
<1> QED  BY <1>2, <1>3

LEMMA LoadedKeepsPromise ==
    ASSUME NEW g \in Generations, NEW id \in Ids, Good(session[g][id]),
           session'[g][id] = StateLoaded(session[g][id])
    PROVE  [SessionOf(g, id)!Next]_(SessionOf(g, id)!vars)
<1> DEFINE s == session[g][id]
           t == session'[g][id]
<1>1. t.stopping = s.stopping /\ t.stop = s.stop
  BY DEF StateLoaded, Good, SessionSet
<1>2. CASE s.cycle
  <2>1. t.cycle = s.cycle /\ t.timer = ~s.stopping
    BY <1>2 DEF StateLoaded, Good, SessionSet
  <2>2. s.stopping => ~s.timer
    BY DEF Good
  <2>3. s.stopping \in BOOLEAN /\ s.timer \in BOOLEAN
    BY DEF Good, SessionSet
  <2>4. SessionOf(g, id)!Schedules
    BY <2>1, <2>2, <2>3 DEF SessionOf!Schedules
  <2>5. SessionOf(g, id)!Arm
    BY <1>1, <2>1, <2>4 DEF SessionOf!Arm
  <2> QED  BY <2>5 DEF SessionOf!Next
<1>3. CASE ~s.cycle
  <2>1. t.cycle = TRUE /\ t.timer = s.timer
    BY <1>3 DEF StateLoaded, Good, SessionSet
  <2>2. SessionOf(g, id)!Begin
    BY <1>1, <1>3, <2>1 DEF SessionOf!Begin
  <2> QED  BY <2>2 DEF SessionOf!Next
<1> QED  BY <1>2, <1>3

LEMMA SettledKeepsPromise ==
    ASSUME NEW g \in Generations, NEW id \in Ids, Good(session[g][id]), session[g][id].cycle,
           NEW ok \in BOOLEAN, session'[g][id] = CycleSettled(session[g][id], ok)
    PROVE  [SessionOf(g, id)!Next]_(SessionOf(g, id)!vars)
<1> DEFINE s == session[g][id]
           t == session'[g][id]
<1>1. /\ t.timer = (s.timer \/ (s.start = "cycle" /\ ok /\ ~s.stopping))
      /\ t.cycle = FALSE
      /\ t.stopping = (s.stopping /\ ~(s.start = "await" /\ ok))
      /\ t.stop = IF s.stop # "drain" THEN s.stop ELSE IF ok THEN "ok" ELSE "failed"
  BY DEF CycleSettled
<1>2. s.timer \in BOOLEAN /\ s.stopping \in BOOLEAN /\ t.stop # "drain"
  BY <1>1 DEF Good, SessionSet
<1>3. SessionOf(g, id)!Schedules
  BY <1>1, <1>2 DEF SessionOf!Schedules
<1>4. CASE s.stop = "drain"
  <2>1. t.stopping \in {s.stopping, FALSE}
    BY <1>1, <1>2
  <2>2. SessionOf(g, id)!Settle
    BY <1>1, <1>2, <1>3, <1>4, <2>1 DEF SessionOf!Settle, SessionOf!Returns
  <2> QED  BY <2>2 DEF SessionOf!Next
<1>5. CASE s.stop # "drain"
  <2>1. t.stopping = s.stopping
    BY <1>1, <1>2, <1>5 DEF Good
  <2>2. SessionOf(g, id)!Settle
    BY <1>1, <1>2, <1>3, <1>5, <2>1 DEF SessionOf!Settle
  <2> QED  BY <2>2 DEF SessionOf!Next
<1> QED  BY <1>4, <1>5

LEMMA MovedKeepsPromise ==
    ASSUME NEW g \in Generations, NEW id \in Ids, Good(session[g][id]),
           Moved(session[g][id], session'[g][id])
    PROVE  [SessionOf(g, id)!Next]_(SessionOf(g, id)!vars)
<1> DEFINE s == session[g][id]
           t == session'[g][id]
<1>1. CASE t = s
  BY <1>1 DEF SessionOf!vars
<1>2. CASE StepOf(s, t)
  <2>1. CASE t = StateLoaded(s)
    BY <2>1, LoadedKeepsPromise
  <2>2. CASE s.cycle /\ \E ok \in BOOLEAN : t = CycleSettled(s, ok)
    BY <2>2, SettledKeepsPromise
  <2>3. CASE ~s.cycle /\ t = [s EXCEPT !.cycle = TRUE]
    <3>1. t.cycle = TRUE /\ t.timer = s.timer /\ t.stopping = s.stopping /\ t.stop = s.stop
      BY <2>3 DEF Good, SessionSet
    <3>2. SessionOf(g, id)!Begin
      BY <2>3, <3>1 DEF SessionOf!Begin
    <3> QED  BY <3>2 DEF SessionOf!Next
  <2> QED  BY <1>2, <2>1, <2>2, <2>3 DEF StepOf
<1>3. CASE t = Stopped(s)
  BY <1>3, StoppedKeepsPromise
<1>4. CASE t = Started(s)
  BY <1>4, StartedKeepsPromise
<1>5. CASE StopSettled(s) /\ t = [s EXCEPT !.stop = "none"]
  <2>1. t.timer = s.timer /\ t.cycle = s.cycle /\ t.stopping = s.stopping /\ s.stop # "drain" /\ t.stop # "drain"
    BY <1>5 DEF StopSettled, Good, SessionSet
  <2> QED  BY <2>1 DEF SessionOf!vars
<1>6. CASE Still(s) /\ t \in {Idle, Started(Idle)}
  <2>1. ~s.timer /\ ~s.cycle /\ s.stop # "drain" /\ s.timer \in BOOLEAN /\ s.cycle \in BOOLEAN
    BY <1>6 DEF Still, Good, SessionSet
  <2>2. t.timer = FALSE /\ t.cycle = FALSE /\ t.stopping = FALSE /\ t.stop = "none"
    <3>1. CASE t = Idle
      BY <3>1 DEF Idle
    <3>2. CASE t = Started(Idle)
      <4>1. /\ Idle \in SessionSet /\ Idle.timer = FALSE /\ Idle.cycle = FALSE
            /\ Idle.stop = "none"
        BY DEF Idle, SessionSet
      <4>2. t = [Idle EXCEPT !.stopping = FALSE, !.start = IF Idle.timer THEN "ok" ELSE "load"]
        BY <3>2, <4>1 DEF Started
      <4> QED  BY <4>1, <4>2 DEF SessionSet
    <3> QED  BY <1>6, <3>1, <3>2
  <2>3. SessionOf(g, id)!Start
    BY <2>1, <2>2 DEF SessionOf!Start
  <2> QED  BY <2>3 DEF SessionOf!Next
<1> QED  BY <1>1, <1>2, <1>3, <1>4, <1>5, <1>6 DEF Moved

\* What the calls of main, reload and shutdown do to the sessions.
Calls == UNCHANGED session \/ \E h \in Generations \cup {0} : StopAll(h) \/ StartAll(h)

LEMMA FailCalls ==
    ASSUME LifeType, Fail
    PROVE  Calls
BY DEF LifeType, Fail, Restore, Calls

LEMMA CallsMove ==
    ASSUME LifeType, LocalInv, Calls, NEW g \in Generations, NEW id \in Ids
    PROVE  Moved(session[g][id], session'[g][id])
<1>1. ASSUME NEW h \in Generations \cup {0}, StopAll(h) PROVE Moved(session[g][id], session'[g][id])
  BY <1>1, StopAllFacts DEF Moved
<1>2. ASSUME NEW h \in Generations \cup {0}, StartAll(h) PROVE Moved(session[g][id], session'[g][id])
  BY <1>2, StartAllFacts DEF Moved
<1> QED  BY <1>1, <1>2 DEF Calls, Moved

LEMMA FinishCalls ==
    ASSUME LifeType, Finish
    PROVE  Calls
BY DEF LifeType, Finish, Calls

LEMMA StartsEndCalls ==
    ASSUME LifeType, StartsEnd
    PROVE  Calls
<1>1. CASE Fail
  BY <1>1, FailCalls
<1>2. ASSUME NEW found, ReconcileSideServer(found) PROVE Calls
  <2>1. Fail \/ Finish \/ UNCHANGED session
    BY <1>2 DEF ReconcileSideServer, sessions
  <2> QED  BY <2>1, FailCalls, FinishCalls DEF Calls
<1> QED  BY <1>1, <1>2 DEF StartsEnd

\* A new generation takes the place of one that is still.
LEMMA StartAccountsMoves ==
    ASSUME LifeType, LocalInv, StartAccounts, NEW g \in Generations, NEW id \in Ids
    PROVE  Moved(session[g][id], session'[g][id])
<1>1. CASE Fail
  BY <1>1, FailCalls, CallsMove
<1>2. ASSUME NEW h \in Generations, Quiet(h), NEW Chosen,
             session' = [session EXCEPT ![h] =
                 [i \in Ids |-> IF i \in Chosen THEN Started(Idle) ELSE Idle]]
      PROVE  Moved(session[g][id], session'[g][id])
  <2>1. CASE g # h
    BY <1>2, <2>1 DEF LifeType, Moved
  <2>2. CASE g = h
    <3>1. Still(session[g][id])
      BY <1>2, <2>2 DEF Quiet, Still
    <3>2. session'[g][id] \in {Idle, Started(Idle)}
      BY <1>2, <2>2 DEF LifeType
    <3> QED  BY <3>1, <3>2 DEF Moved
  <2> QED  BY <2>1, <2>2
<1> QED  BY <1>1, <1>2 DEF StartAccounts

LEMMA DoneMoves ==
    ASSUME LifeType, Done, NEW g \in Generations, NEW id \in Ids
    PROVE  Moved(session[g][id], session'[g][id])
<1> DEFINE s == session[g][id]
<1>1. CASE ending # "no"
  BY <1>1 DEF Done, Moved
<1>2. CASE ending = "no"
  <2>1. session'[g][id] = IF Retired(g) THEN Idle
                          ELSE IF StopSettled(s) THEN [s EXCEPT !.stop = "none"] ELSE s
    BY <1>2 DEF Done
  <2>2. Retired(g) => Still(s)
    BY DEF Retired, Quiet, Still
  <2> QED  BY <2>1, <2>2 DEF Moved
<1> QED  BY <1>1, <1>2

LEMMA SessionsMove ==
    ASSUME LifeInv, [Next]_vars, NEW g \in Generations, NEW id \in Ids
    PROVE  Moved(session[g][id], session'[g][id])
<1> USE DEF LifeInv
<1>1. ASSUME NEW h \in Generations, NEW i \in Ids, SessionStep(h, i) \/ Tick(h, i)
      PROVE  Moved(session[g][id], session'[g][id])
  <2> DEFINE Taken(t) == StepOf(session[h][i], t) /\ session' = [session EXCEPT ![h][i] = t]
  <2>1. PICK t : Taken(t)
    <3>1. CASE Tick(h, i)
      <4>1. Taken([session[h][i] EXCEPT !.cycle = TRUE])
        BY <3>1 DEF Tick, StepOf, LifeType
      <4> QED  BY <4>1
    <3>2. CASE SessionStep(h, i)
      BY <3>2 DEF SessionStep, StepOf
    <3> QED  BY <1>1, <3>1, <3>2
  <2>2. CASE g = h /\ id = i
    BY <2>1, <2>2 DEF LifeType, Moved
  <2>3. CASE ~(g = h /\ id = i)
    BY <2>1, <2>3 DEF LifeType, Moved
  <2> QED  BY <2>2, <2>3
<1>2. CASE Calls
  BY <1>2, CallsMove
<1>3. CASE Fail \/ Finish
  BY <1>2, <1>3, FailCalls, FinishCalls
<1>4. CASE Reload \/ Shutdown
  BY <1>2, <1>4 DEF Reload, Shutdown, Calls, LifeType
<1>5. CASE StopsEnd \/ Parked \/ OrphansStopped
  BY <1>2, <1>3, <1>5 DEF StopsEnd, Parked, OrphansStopped, Restore, Calls, LifeType, sessions
<1>6. CASE StartAccounts \/ Done
  BY <1>6, StartAccountsMoves, DoneMoves
<1>7. CASE StartsEnd
  BY <1>2, <1>7, StartsEndCalls
<1>8. CASE ServerNotRunning \/ ServerStarts \/ ServerFails \/ ServerRestored
  BY <1>3, <1>8 DEF ServerNotRunning, ServerStarts, ServerFails, ServerRestored, sessions, Moved
<1>9. CASE ServerClosed \/ Restored \/ Abandon \/ CloseServer \/ Exit \/ UNCHANGED vars
  BY <1>9 DEF ServerClosed, Restored, Abandon, CloseServer, Exit, vars, sessions, Moved
<1> QED
  BY <1>1, <1>4, <1>5, <1>6, <1>7, <1>8, <1>9 DEF Next, Control

\* SessionsKeepPromise: whatever the daemon does to a session of any generation, through
\* reloads, restorations and shutdowns that race its cycles, it starts and stops it the
\* way the promise of module Session allows, which is all that UpdaterLoop grants.
THEOREM SessionsAreSessions == Spec => SessionsKeepPromise
<1>1. Init => \A g \in Generations, id \in Ids : SessionOf(g, id)!Init
  BY DEF Init, Idle, SessionOf!Init
<1>2. ASSUME LifeInv, [Next]_vars
      PROVE  [\A g \in Generations, id \in Ids : [SessionOf(g, id)!Next]_(SessionOf(g, id)!vars)]_session
  <2>1. ASSUME NEW g \in Generations, NEW id \in Ids
        PROVE  [SessionOf(g, id)!Next]_(SessionOf(g, id)!vars)
    <3>1. Good(session[g][id])
      BY <1>2 DEF LifeInv, LocalInv
    <3> QED  BY <1>2, <3>1, SessionsMove, MovedKeepsPromise
  <2> QED  BY <2>1
<1> QED  BY <1>1, <1>2, Life, PTL DEF Spec, SessionsKeepPromise
===============================================================================
