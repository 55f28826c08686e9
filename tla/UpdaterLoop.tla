----------------------------- MODULE UpdaterLoop -----------------------------
(***************************************************************************)
(* The life cycle of one updater session (lib/updater.ts, createUpdater):  *)
(* start(), stop(), setIntervalMs(), checkOnceGuarded() and the interval   *)
(* timer, as they interleave at the awaits of the code.                    *)
(*                                                                         *)
(* A client is a caller of the session (an MCP tool call, the daemon's     *)
(* startup, reload or shutdown) with at most one call in progress; Ticker  *)
(* is the callback of the interval.  One action is the code run between    *)
(* two awaits, pc[p] names the await at which call p is suspended.         *)
(*                                                                         *)
(* What a cycle reads and writes (addresses, checkpoints, the state file)  *)
(* is the business of module UpdateCycle; here a cycle is the sequence of  *)
(* its awaits.  A leg is one provider tried for one host, with its own     *)
(* retry budget: the primary of a host or one of its failover targets.     *)
(***************************************************************************)
EXTENDS Naturals, FiniteSets

CONSTANTS
    Clients,      \* callers of the session's methods
    Ticker,       \* the interval's callback
    Timers,       \* handles setIntervalFn may return
    Intervals,    \* interval lengths accepted by setIntervalMs
    MaxAttempts,  \* retryAttempts
    MaxLegs,      \* bound on the legs of one cycle
    NoTimer,      \* timer === null
    NoProc        \* inFlightPromise, stopPromise or interruptRetry === null

ASSUME ProcAssumption  == Ticker \notin Clients /\ NoProc \notin Clients \cup {Ticker}
ASSUME TimerAssumption == NoTimer \notin Timers /\ IsFiniteSet(Timers) /\ Cardinality(Timers) > 1
ASSUME BoundAssumption == MaxAttempts \in Nat \ {0} /\ MaxLegs \in Nat \ {0}
ASSUME IntervalAssumption == Intervals # {}

Procs == Clients \cup {Ticker}

VARIABLES
    pc,           \* where each call is suspended
    via,          \* what a call's cycle returns to: start() or the caller
    timer,        \* the handle the session holds
    every,        \* the period of each interval the environment still fires
    intervalMs,
    inFlight,
    inFlightPromise, \* the call whose checkOnce() promise it is
    stopping,
    stopPromise,  \* the stop() call that created the promise
    interruptRetry,  \* the call whose retry delay it resolves
    woken,        \* that delay has been resolved by stop()
    legs,         \* legs each cycle has left, the current one included
    attempt,
    \* History, for the properties only.
    latest,       \* the client that made the latest start() or stop() call
    halted        \* how that call ended, if it was a stop()

loopVars  == <<timer, every, intervalMs>>
cycleVars == <<legs, attempt>>
retryVars == <<interruptRetry, woken>>
history   == <<latest, halted>>
vars == <<pc, via, loopVars, inFlight, inFlightPromise, stopping, stopPromise,
          retryVars, cycleVars, history>>

\* Suspended inside checkOnce.
CyclePcs == {"load", "discover", "call", "final", "transient", "backoff", "finish", "throw"}
\* Suspended inside start(), before the point where it looks at `stopping`.
EarlyStartPcs == {"start_await_stop", "start_load"}
StopPcs == {"stop_drain", "stop_drained", "stop_failed"}
Pcs == {"idle", "start_schedule", "stop_await"} \cup CyclePcs \cup EarlyStartPcs \cup StopPcs

Init ==
    /\ pc = [p \in Procs |-> "idle"]
    /\ via = [p \in Procs |-> "check"]
    /\ timer = NoTimer
    /\ intervalMs \in Intervals
    /\ every = [t \in {} |-> intervalMs]
    /\ inFlight = FALSE
    /\ inFlightPromise = NoProc
    /\ stopping = FALSE
    /\ stopPromise = NoProc
    /\ interruptRetry = NoProc
    /\ woken = FALSE
    /\ legs = [p \in Procs |-> 0]
    /\ attempt = [p \in Procs |-> 1]
    /\ latest = NoProc
    /\ halted = "no"

Goto(p, label) == pc' = [pc EXCEPT ![p] = label]

\* The intervals that fire.
Live == DOMAIN every

(***************************************************************************)
(* Timer                                                                   *)
(***************************************************************************)

\* Mutant of Cleared: the handle is forgotten, its interval keeps firing.
ClearedNot == every

\* clearIntervalFn(timer), also when there is none to clear.
Cleared == [u \in Live \ {timer} |-> every[u]]

\* scheduleTimer: drop the old interval, create a new one unless stopping.
ScheduleTimer(ms) ==
    IF stopping
      THEN /\ timer' = NoTimer
           /\ every' = Cleared
      ELSE \E t \in Timers \ Live :
              /\ timer' = t
              /\ every' = [u \in (Live \ {timer}) \cup {t} |-> IF u = t THEN ms ELSE every[u]]

\* Mutant of SetIntervalMs: the new length waits for the next start().
SetIntervalMsLazily(c) ==
    /\ pc[c] = "idle"
    /\ intervalMs' \in Intervals
    /\ UNCHANGED <<pc, via, timer, every, inFlight, inFlightPromise, stopping,
                   stopPromise, retryVars, cycleVars, history>>

\* setIntervalMs with a length in range (any other throws and changes nothing).
SetIntervalMs(c) ==
    /\ pc[c] = "idle"
    /\ \E ms \in Intervals :
         /\ intervalMs' = ms
         /\ IF timer # NoTimer THEN ScheduleTimer(ms)
                               ELSE UNCHANGED <<timer, every>>
    /\ UNCHANGED <<pc, via, inFlight, inFlightPromise, stopping, stopPromise,
                   retryVars, cycleVars, history>>

(***************************************************************************)
(* checkOnceGuarded: a cycle starts only when none is in flight.           *)
(***************************************************************************)

\* Mutant of BeginCycle: no guard.
BeginCycleUnguarded(p, how, first) ==
    /\ inFlight' = TRUE
    /\ inFlightPromise' = p
    /\ via' = [via EXCEPT ![p] = how]
    /\ Goto(p, first)

\* The guard passed: record the promise and run checkOnce to its first await
\* (loadState), or to the throw when the requested hosts are not acceptable.
BeginCycle(p, how, first) ==
    /\ ~inFlight
    /\ inFlight' = TRUE
    /\ inFlightPromise' = p
    /\ via' = [via EXCEPT ![p] = how]
    /\ Goto(p, first)

CheckOnceGuarded(c) ==
    /\ pc[c] = "idle"
    /\ \/ BeginCycle(c, "check", "load")
       \/ BeginCycle(c, "check", "throw")
    /\ UNCHANGED <<loopVars, stopping, stopPromise, retryVars, cycleVars, history>>

\* An interval fires; a tick that finds a cycle in flight returns busy and
\* changes nothing.
Tick ==
    /\ Live # {}
    /\ pc[Ticker] = "idle"
    /\ BeginCycle(Ticker, "check", "load")
    /\ UNCHANGED <<loopVars, stopping, stopPromise, retryVars, cycleVars, history>>

(***************************************************************************)
(* checkOnce, from await to await                                          *)
(***************************************************************************)

\* loadState() and the discovery of the public address.
LoadState(p) ==
    /\ pc[p] = "load"
    /\ Goto(p, "discover")
    /\ UNCHANGED <<via, loopVars, inFlight, inFlightPromise, stopping, stopPromise,
                   retryVars, cycleVars, history>>

\* No address, nothing pending or a dry run: straight to the cycle's report.
SkipUpdate(p) ==
    /\ pc[p] = "discover"
    /\ Goto(p, "finish")
    /\ UNCHANGED <<via, loopVars, inFlight, inFlightPromise, stopping, stopPromise,
                   retryVars, cycleVars, history>>

\* Binding a host's configuration can throw, outside every try of the cycle.
BeginLeg(p, n) ==
    /\ legs' = [legs EXCEPT ![p] = n]
    /\ attempt' = [attempt EXCEPT ![p] = 1]
    /\ \/ Goto(p, "call")
       \/ Goto(p, "throw")

BeginUpdate(p) ==
    /\ pc[p] = "discover"
    /\ \E n \in 1..MaxLegs : BeginLeg(p, n)
    /\ UNCHANGED <<via, loopVars, inFlight, inFlightPromise, stopping, stopPromise,
                   retryVars, history>>

\* provider.update settles: with a result or an error worth retrying, or not.
ProviderAnswers(p) ==
    /\ pc[p] = "call"
    /\ \E answer \in {"final", "transient"} : Goto(p, answer)
    /\ UNCHANGED <<via, loopVars, inFlight, inFlightPromise, stopping, stopPromise,
                   retryVars, cycleVars, history>>

\* Mutant of MayRetry: the stopping session is not consulted.
MayRetryStopping(p) == pc[p] = "transient" /\ attempt[p] < MaxAttempts

\* isRetryableResult or isRetryableError, attempts left, and not stopping.
MayRetry(p) == pc[p] = "transient" /\ attempt[p] < MaxAttempts /\ ~stopping

\* waitBeforeRetry: race the delay against a promise stop() can resolve.
WaitBeforeRetry(p) ==
    /\ MayRetry(p)
    /\ interruptRetry' = p
    /\ woken' = FALSE
    /\ Goto(p, "backoff")
    /\ UNCHANGED <<via, loopVars, inFlight, inFlightPromise, stopping, stopPromise,
                   cycleVars, history>>

\* The race is over, by the clock or by stop(); the attempt is made either way.
RetryAfterWait(p) ==
    /\ pc[p] = "backoff"
    /\ interruptRetry' = NoProc
    /\ woken' = FALSE
    /\ attempt' = [attempt EXCEPT ![p] = @ + 1]
    /\ Goto(p, "call")
    /\ UNCHANGED <<via, loopVars, inFlight, inFlightPromise, stopping, stopPromise,
                   legs, history>>

Interrupted(p)  == woken /\ RetryAfterWait(p)
SleepElapsed(p) == ~woken /\ RetryAfterWait(p)

\* The leg is over: the next target of this host or the next pending host
\* (a success skips the host's remaining targets), or the cycle's report.
NextLeg(p) ==
    /\ pc[p] \in {"final", "transient"}
    /\ ~MayRetry(p)
    /\ \/ \E n \in 1..MaxLegs : n < legs[p] /\ BeginLeg(p, n)
       \/ Goto(p, "finish") /\ UNCHANGED cycleVars
    /\ UNCHANGED <<via, loopVars, inFlight, inFlightPromise, stopping, stopPromise,
                   retryVars, history>>

\* Mutant of CycleSettles: the guard is released on success only.
CycleSettlesStuck(p, ok) ==
    /\ inFlight' = ~ok
    /\ inFlightPromise' = NoProc
    /\ pc' = [q \in Procs |->
                IF q = p THEN IF ok /\ via[p] = "start" THEN "start_schedule" ELSE "idle"
                ELSE IF pc[q] = "stop_drain" THEN IF ok THEN "stop_drained" ELSE "stop_failed"
                ELSE pc[q]]
    /\ via' = [via EXCEPT ![p] = "check"]
    /\ legs' = [legs EXCEPT ![p] = 0]
    /\ attempt' = [attempt EXCEPT ![p] = 1]
    /\ UNCHANGED <<loopVars, stopping, stopPromise, retryVars, history>>

\* The promise of checkOnce settles: the guard is released and a stop() that
\* waits for it resumes.  A rejection is passed on to both callers.
CycleSettles(p, ok) ==
    /\ inFlight' = FALSE
    /\ inFlightPromise' = NoProc
    /\ pc' = [q \in Procs |->
                IF q = p THEN IF ok /\ via[p] = "start" THEN "start_schedule" ELSE "idle"
                ELSE IF pc[q] = "stop_drain" THEN IF ok THEN "stop_drained" ELSE "stop_failed"
                ELSE pc[q]]
    /\ via' = [via EXCEPT ![p] = "check"]
    /\ legs' = [legs EXCEPT ![p] = 0]
    /\ attempt' = [attempt EXCEPT ![p] = 1]
    /\ UNCHANGED <<loopVars, stopping, stopPromise, retryVars, history>>

FinishCycle(p) == pc[p] = "finish" /\ CycleSettles(p, TRUE)
ThrowCycle(p)  == pc[p] = "throw"  /\ CycleSettles(p, FALSE)

(***************************************************************************)
(* start()                                                                 *)
(***************************************************************************)

StartCall(c) ==
    /\ pc[c] = "idle"
    /\ latest' = c
    /\ halted' = "no"
    /\ IF stopPromise # NoProc
         THEN /\ Goto(c, "start_await_stop")
              /\ UNCHANGED stopping
         ELSE /\ stopping' = FALSE
              /\ IF timer = NoTimer THEN Goto(c, "start_load") ELSE UNCHANGED pc
    /\ UNCHANGED <<via, loopVars, inFlight, inFlightPromise, stopPromise, retryVars, cycleVars>>

\* loadState() is over: run the first cycle, or find one already in flight.
StartCycle(c) ==
    /\ pc[c] = "start_load"
    /\ \/ BeginCycle(c, "start", "load")
       \/ /\ inFlight
          /\ Goto(c, "start_schedule")
          /\ UNCHANGED <<via, inFlight, inFlightPromise>>
    /\ UNCHANGED <<loopVars, stopping, stopPromise, retryVars, cycleVars, history>>

StartSchedule(c) ==
    /\ pc[c] = "start_schedule"
    /\ IF stopping THEN UNCHANGED <<timer, every>> ELSE ScheduleTimer(intervalMs)
    /\ Goto(c, "idle")
    /\ UNCHANGED <<via, intervalMs, inFlight, inFlightPromise, stopping, stopPromise,
                   retryVars, cycleVars, history>>

(***************************************************************************)
(* stop()                                                                  *)
(***************************************************************************)

\* A stop() is already under way: share its promise.
StopJoin(c) ==
    /\ pc[c] = "idle"
    /\ stopPromise # NoProc
    /\ Goto(c, "stop_await")
    /\ latest' = c
    /\ halted' = "no"
    /\ UNCHANGED <<via, loopVars, inFlight, inFlightPromise, stopping, stopPromise,
                   retryVars, cycleVars>>

\* Mutant of InterruptRetry: the delay is left to run its course.
InterruptRetryNot == UNCHANGED woken

\* interruptRetry?.(): a delay in progress is resolved.
InterruptRetry == woken' = (interruptRetry # NoProc)

\* Mutant of ActiveCycle: stop() does not look for one.
ActiveCycleIgnored == NoProc

\* The cycle stop() waits for.
ActiveCycle == inFlightPromise

\* How the latest lifecycle call stands once the stop() calls in S return.
HaltedBy(S) ==
    IF latest' \notin S THEN halted
    ELSE IF \E q \in Procs : pc[q] \in EarlyStartPcs THEN "contested"
    ELSE "clean"

\* Cut a retry delay short, clear the interval, then wait for the cycle in
\* flight.  With none in flight the promise settles before any other call
\* gets to run, and the stop() is over.
StopCall(c) ==
    /\ pc[c] = "idle"
    /\ stopPromise = NoProc
    /\ stopping' = TRUE
    /\ InterruptRetry
    /\ timer' = NoTimer
    /\ every' = Cleared
    /\ latest' = c
    /\ IF ActiveCycle = NoProc
         THEN /\ halted' = HaltedBy({c})
              /\ UNCHANGED <<pc, stopPromise>>
         ELSE /\ halted' = "no"
              /\ stopPromise' = c
              /\ Goto(c, "stop_drain")
    /\ UNCHANGED <<via, intervalMs, inFlight, inFlightPromise, interruptRetry, cycleVars>>

\* stopPromise settles.  Its stop() forgets it first; the calls that awaited it
\* resume in the same run of the job queue: a joined stop() returns, and a
\* start() clears `stopping` and goes on to loadState (the timer is null
\* here), or rejects with the promise.
StopSettles(c) ==
    /\ pc[c] \in {"stop_drained", "stop_failed"}
    /\ stopPromise' = NoProc
    /\ LET ok       == pc[c] = "stop_drained"
           joined   == {q \in Procs : pc[q] = "stop_await"}
           starting == {q \in Procs : pc[q] = "start_await_stop"}
       IN  /\ stopping' = (stopping /\ ~(ok /\ starting # {}))
           /\ pc' = [q \in Procs |->
                       IF q = c \/ q \in joined THEN "idle"
                       ELSE IF q \in starting THEN IF ok THEN "start_load" ELSE "idle"
                       ELSE pc[q]]
           /\ latest' = latest
           /\ halted' = IF ok THEN HaltedBy(joined \cup {c}) ELSE halted
    /\ UNCHANGED <<via, loopVars, inFlight, inFlightPromise, retryVars, cycleVars>>

-----------------------------------------------------------------------------

ClientStep(c) ==
    \/ SetIntervalMs(c) \/ CheckOnceGuarded(c)
    \/ StartCall(c) \/ StartCycle(c) \/ StartSchedule(c)
    \/ StopJoin(c) \/ StopCall(c) \/ StopSettles(c)

CycleStep(p) ==
    \/ LoadState(p) \/ SkipUpdate(p) \/ BeginUpdate(p)
    \/ ProviderAnswers(p) \/ WaitBeforeRetry(p) \/ Interrupted(p) \/ SleepElapsed(p)
    \/ NextLeg(p) \/ FinishCycle(p) \/ ThrowCycle(p)

Next ==
    \/ Tick
    \/ \E c \in Clients : ClientStep(c)
    \/ \E p \in Procs : CycleStep(p)

Spec == Init /\ [][Next]_vars

\* What the runtime owes the code: a call that can run on does (I/O settles,
\* provider requests time out, the job queue is served) and intervals fire.
\* That a retry delay ends by itself is kept apart (DelaysEnd): retryMaxDelayMs
\* may outlast any shutdown deadline, so stop() must not depend on it.
Proceeds(p) ==
    LoadState(p) \/ SkipUpdate(p) \/ BeginUpdate(p) \/ ProviderAnswers(p)
    \/ WaitBeforeRetry(p) \/ Interrupted(p) \/ NextLeg(p) \/ FinishCycle(p) \/ ThrowCycle(p)
Resumes(c) == StartCycle(c) \/ StartSchedule(c) \/ StopSettles(c)

FairSpec ==
    /\ Spec
    /\ \A p \in Procs : WF_vars(Proceeds(p))
    /\ \A c \in Clients : WF_vars(Resumes(c))
    /\ WF_vars(Tick)

DelaysEnd == \A p \in Procs : WF_vars(SleepElapsed(p))

-----------------------------------------------------------------------------
(***************************************************************************)
(* Properties                                                              *)
(***************************************************************************)

TypeOK ==
    /\ pc \in [Procs -> Pcs]
    /\ via \in [Procs -> {"start", "check"}]
    /\ timer \in Timers \cup {NoTimer}
    /\ Live \subseteq Timers /\ every \in [Live -> Intervals]
    /\ intervalMs \in Intervals
    /\ inFlight \in BOOLEAN
    /\ inFlightPromise \in Procs \cup {NoProc}
    /\ stopping \in BOOLEAN
    /\ stopPromise \in Procs \cup {NoProc}
    /\ interruptRetry \in Procs \cup {NoProc}
    /\ woken \in BOOLEAN
    /\ legs \in [Procs -> 0..MaxLegs]
    /\ attempt \in [Procs -> 1..MaxAttempts]
    /\ latest \in Clients \cup {NoProc}
    /\ halted \in {"no", "contested", "clean"}

\* Cycles never overlap: whoever asks for one (a start, a tick, a tool call), at
\* most one call at a time is inside checkOnce (comment at updater.ts:199-203).
NoOverlap ==
    \A p, q \in Procs : pc[p] \in CyclePcs /\ pc[q] \in CyclePcs => p = q

\* No interval leaks: whatever the order of starts, stops and interval changes,
\* the environment fires exactly the interval whose handle the session holds, so
\* that stop() can clear it (scheduleTimer and stop).
OneLiveTimer == Live = {timer} \ {NoTimer}

\* The interval that fires was created with the length last set, however
\* setIntervalMs interleaves with a start that has yet to schedule it.
ArmedWithCurrentInterval == timer # NoTimer => every[timer] = intervalMs

\* A retry delay that stop() has to wait for has been cut short: once the session
\* is stopping no delay begins, and the one in progress is resolved
\* (updateWithRetry's and stop's halves of the protocol).
NoSleepWhileStopping == stopping /\ interruptRetry # NoProc => woken

\* stop() quiesces: when the latest start or stop call is a stop that returned, and
\* no start() was before its first cycle at that moment, no interval is alive
\* and no cycle started by one is running.
StoppedIsQuiet ==
    halted = "clean" => timer = NoTimer /\ Live = {} /\ pc[Ticker] = "idle"

InStop(c) == pc[c] \in StopPcs \cup {"stop_await"}

\* stop() returns, even if no retry delay ever ends by itself.
StopReturns == \A c \in Clients : InStop(c) ~> ~InStop(c)

\* A session that stays started keeps checking: if retry delays end, cycles begin
\* and end for ever, also after cycles that throw.
LoopKeepsChecking == DelaysEnd /\ <>[](timer # NoTimer) => []<>inFlight /\ []<>~inFlight

\* To its callers the session is a simple machine: armed or not, in a cycle or not, and a
\* stop() under way or not.
Looping == INSTANCE Session WITH
    armed    <- timer # NoTimer,
    cycle    <- \E p \in Procs : pc[p] \in CyclePcs,
    halting  <- stopPromise # NoProc,
    draining <- \E c \in Procs : pc[c] = "stop_drain"

\* Whatever calls meet, the session behaves as one whose steps are atomic: no cycle begins
\* during another, none is left running when a stop() that found it returns, and neither
\* a start() nor an interval slips in between (createUpdater's awaits and flags).
ImplementsSession == Looping!Spec

\* What docs/mcp.md:74 says of stop_loop ("stop scheduling and wait for an active
\* cycle"), for the latest of the session's start and stop calls: once it has
\* returned, no interval is scheduled and no loop cycle runs.
StopMeansStopped ==
    halted # "no" =>
        /\ timer = NoTimer
        /\ \A p \in Procs : pc[p] \in CyclePcs => p # Ticker /\ via[p] # "start"

\* What docs/providers.md:47-54 says of retries (a transient failure is retried, up
\* to UDDNS_RETRY_ATTEMPTS attempts), for a cycle that no stop() is waiting for.
RetriesUntilExhausted ==
    [][\A p \in Procs :
         pc[p] = "transient" /\ attempt[p] < MaxAttempts
         /\ stopPromise = NoProc /\ pc'[p] # pc[p] => pc'[p] = "backoff"]_vars
=============================================================================
