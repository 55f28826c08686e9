-------------------------- MODULE UpdaterLoopProofs --------------------------
(***************************************************************************)
(* Proofs about UpdaterLoop, for every set of clients, every number of     *)
(* retries and legs, every set of interval lengths.                        *)
(***************************************************************************)
EXTENDS UpdaterLoop, TLAPS

\* The guard names the one cycle there is.
GuardInv ==
    /\ inFlightPromise # NoProc => inFlight /\ pc[inFlightPromise] \in CyclePcs
    /\ \A p \in Procs : pc[p] \in CyclePcs => inFlightPromise = p

\* The interval's callback only ever runs cycles.
TickerInv ==
    /\ pc[Ticker] \in CyclePcs \cup {"idle"}
    /\ via[Ticker] = "check"

\* A stopping session holds no timer, a pending stop keeps the session stopping,
\* and it waits for the tick in flight, if there is one.
StopInv ==
    /\ stopping => timer = NoTimer
    /\ \A c \in Procs : pc[c] \in StopPcs => stopPromise = c
    /\ stopPromise # NoProc =>
         /\ stopping
         /\ pc[Ticker] \in CyclePcs => pc[stopPromise] = "stop_drain"

\* Nothing is left behind a clean stop that could schedule an interval.
CleanInv ==
    halted = "clean" =>
        /\ stopping
        /\ pc[Ticker] = "idle"
        /\ \A p \in Procs : pc[p] \notin EarlyStartPcs

\* A delay is only begun with an attempt left.
BudgetInv == \A p \in Procs : pc[p] = "backoff" => attempt[p] < MaxAttempts

IInv ==
    /\ TypeOK
    /\ BudgetInv
    /\ GuardInv
    /\ TickerInv
    /\ OneLiveTimer
    /\ ArmedWithCurrentInterval
    /\ StopInv
    /\ NoSleepWhileStopping
    /\ CleanInv

-----------------------------------------------------------------------------

\* A step is a tick, a step of a client's call, a step of a cycle, or a stutter.
LEMMA StepCases ==
    ASSUME [Next]_vars
    PROVE  \/ Tick
           \/ \E c \in Clients :
                 \/ SetIntervalMs(c) \/ CheckOnceGuarded(c)
                 \/ StartCall(c) \/ StartCycle(c) \/ StartSchedule(c)
                 \/ StopJoin(c) \/ StopCall(c) \/ StopSettles(c)
           \/ \E p \in Procs :
                 \/ LoadState(p) \/ SkipUpdate(p) \/ BeginUpdate(p)
                 \/ ProviderAnswers(p) \/ WaitBeforeRetry(p) \/ RetryAfterWait(p)
                 \/ NextLeg(p) \/ FinishCycle(p) \/ ThrowCycle(p)
           \/ UNCHANGED vars
BY DEF Next, ClientStep, CycleStep, Interrupted, SleepElapsed

\* Scheduling keeps the handle and the interval it names together.
LEMMA ScheduleFacts ==
    ASSUME TypeOK, OneLiveTimer, NEW ms \in Intervals, ScheduleTimer(ms)
    PROVE  /\ timer' \in Timers \cup {NoTimer}
           /\ Live' = {timer'} \ {NoTimer}
           /\ every' \in [Live' -> Intervals]
           /\ timer' # NoTimer => every'[timer'] = ms
<1> USE TimerAssumption DEF TypeOK, OneLiveTimer, Live
<1>1. CASE stopping
  BY <1>1 DEF ScheduleTimer, Cleared
<1>2. CASE ~stopping
  <2>1. PICK t \in Timers \ Live :
          /\ timer' = t
          /\ every' = [u \in (Live \ {timer}) \cup {t} |-> IF u = t THEN ms ELSE every[u]]
    BY <1>2 DEF ScheduleTimer
  <2>2. Live \ {timer} = {}
    OBVIOUS
  <2> QED  BY <2>1, <2>2
<1> QED  BY <1>1, <1>2

\* Every variable keeps its type.
LEMMA TypingStep ==
    ASSUME TypeOK, BudgetInv, OneLiveTimer, [Next]_vars
    PROVE  TypeOK'
<1> USE ProcAssumption, TimerAssumption, BoundAssumption
    DEF TypeOK, BudgetInv, Live, Pcs, CyclePcs, EarlyStartPcs, StopPcs, Procs, Goto,
        vars, loopVars, cycleVars, retryVars, history
<1>1. CASE Tick
  BY <1>1 DEF Tick, BeginCycle
<1>2. ASSUME NEW c \in Clients, SetIntervalMs(c) PROVE TypeOK'
  <2>1. PICK ms \in Intervals :
          /\ intervalMs' = ms
          /\ IF timer # NoTimer THEN ScheduleTimer(ms) ELSE UNCHANGED <<timer, every>>
    BY <1>2 DEF SetIntervalMs
  <2> QED  BY <1>2, <2>1, ScheduleFacts DEF SetIntervalMs, TypeOK
<1>3. ASSUME NEW c \in Clients, CheckOnceGuarded(c) PROVE TypeOK'
  BY <1>3 DEF CheckOnceGuarded, BeginCycle
<1>4. ASSUME NEW c \in Clients, StartCall(c) PROVE TypeOK'
  BY <1>4 DEF StartCall
<1>5. ASSUME NEW c \in Clients, StartCycle(c) PROVE TypeOK'
  BY <1>5 DEF StartCycle, BeginCycle
<1>6. ASSUME NEW c \in Clients, StartSchedule(c) PROVE TypeOK'
  <2>1. IF stopping THEN UNCHANGED <<timer, every>> ELSE ScheduleTimer(intervalMs)
    BY <1>6 DEF StartSchedule
  <2>2. intervalMs \in Intervals
    BY DEF TypeOK
  <2> QED  BY <1>6, <2>1, <2>2, ScheduleFacts DEF StartSchedule, TypeOK
<1>7. ASSUME NEW c \in Clients, StopJoin(c) PROVE TypeOK'
  BY <1>7 DEF StopJoin
<1>8. ASSUME NEW c \in Clients, StopCall(c) PROVE TypeOK'
  BY <1>8 DEF StopCall, InterruptRetry, ActiveCycle, HaltedBy, Cleared
<1>9. ASSUME NEW c \in Clients, StopSettles(c) PROVE TypeOK'
  BY <1>9 DEF StopSettles, HaltedBy
<1>10. ASSUME NEW p \in Procs, LoadState(p) PROVE TypeOK'
  BY <1>10 DEF LoadState
<1>11. ASSUME NEW p \in Procs, SkipUpdate(p) PROVE TypeOK'
  BY <1>11 DEF SkipUpdate
<1>12. ASSUME NEW p \in Procs, BeginUpdate(p) PROVE TypeOK'
  BY <1>12 DEF BeginUpdate, BeginLeg
<1>13. ASSUME NEW p \in Procs, ProviderAnswers(p) PROVE TypeOK'
  BY <1>13 DEF ProviderAnswers
<1>14. ASSUME NEW p \in Procs, WaitBeforeRetry(p) PROVE TypeOK'
  BY <1>14 DEF WaitBeforeRetry, MayRetry
<1>15. ASSUME NEW p \in Procs, RetryAfterWait(p) PROVE TypeOK'
  <2>1. attempt[p] \in 1..MaxAttempts /\ attempt[p] < MaxAttempts
    BY <1>15 DEF RetryAfterWait
  <2>2. attempt[p] + 1 \in 1..MaxAttempts
    BY <2>1
  <2>3. attempt' \in [Procs -> 1..MaxAttempts] /\ pc' \in [Procs -> Pcs]
    BY <1>15, <2>2 DEF RetryAfterWait
  <2> QED  BY <1>15, <2>3 DEF RetryAfterWait
<1>16. ASSUME NEW p \in Procs, NextLeg(p) PROVE TypeOK'
  BY <1>16 DEF NextLeg, BeginLeg, MayRetry
<1>17. ASSUME NEW p \in Procs, FinishCycle(p) PROVE TypeOK'
  <2>1. pc' \in [Procs -> Pcs]
    BY <1>17 DEF FinishCycle, CycleSettles, TypeOK, Pcs
  <2>2. via' \in [Procs -> {"start", "check"}] /\ legs' \in [Procs -> 0..MaxLegs]
        /\ attempt' \in [Procs -> 1..MaxAttempts]
    BY <1>17 DEF FinishCycle, CycleSettles, TypeOK
  <2> QED  BY <1>17, <2>1, <2>2 DEF FinishCycle, CycleSettles, TypeOK
<1>18. ASSUME NEW p \in Procs, ThrowCycle(p) PROVE TypeOK'
  <2>1. pc' \in [Procs -> Pcs]
    BY <1>18 DEF ThrowCycle, CycleSettles, TypeOK, Pcs
  <2>2. via' \in [Procs -> {"start", "check"}] /\ legs' \in [Procs -> 0..MaxLegs]
        /\ attempt' \in [Procs -> 1..MaxAttempts]
    BY <1>18 DEF ThrowCycle, CycleSettles, TypeOK
  <2> QED  BY <1>18, <2>1, <2>2 DEF ThrowCycle, CycleSettles, TypeOK
<1>19. CASE UNCHANGED vars
  BY <1>19
<1> QED
  BY StepCases, <1>1, <1>2, <1>3, <1>4, <1>5, <1>6, <1>7, <1>8, <1>9,
     <1>10, <1>11, <1>12, <1>13, <1>14, <1>15, <1>16, <1>17, <1>18, <1>19

\* A retry never exceeds the configured attempts.
LEMMA BudgetStep ==
    ASSUME TypeOK, GuardInv, BudgetInv, [Next]_vars
    PROVE  BudgetInv'
<1> USE ProcAssumption, BoundAssumption
    DEF TypeOK, GuardInv, BudgetInv, CyclePcs, EarlyStartPcs, StopPcs, Procs, Goto,
        vars, loopVars, cycleVars, retryVars, history
<1>1. CASE Tick
  BY <1>1 DEF Tick, BeginCycle
<1>2. ASSUME NEW c \in Clients, SetIntervalMs(c) PROVE BudgetInv'
  BY <1>2 DEF SetIntervalMs, ScheduleTimer
<1>3. ASSUME NEW c \in Clients, CheckOnceGuarded(c) PROVE BudgetInv'
  BY <1>3 DEF CheckOnceGuarded, BeginCycle
<1>4. ASSUME NEW c \in Clients, StartCall(c) PROVE BudgetInv'
  BY <1>4 DEF StartCall
<1>5. ASSUME NEW c \in Clients, StartCycle(c) PROVE BudgetInv'
  BY <1>5 DEF StartCycle, BeginCycle
<1>6. ASSUME NEW c \in Clients, StartSchedule(c) PROVE BudgetInv'
  BY <1>6 DEF StartSchedule
<1>7. ASSUME NEW c \in Clients, StopJoin(c) PROVE BudgetInv'
  BY <1>7 DEF StopJoin
<1>8. ASSUME NEW c \in Clients, StopCall(c) PROVE BudgetInv'
  BY <1>8 DEF StopCall, InterruptRetry, ActiveCycle, HaltedBy, Cleared
<1>9. ASSUME NEW c \in Clients, StopSettles(c) PROVE BudgetInv'
  BY <1>9 DEF StopSettles, HaltedBy
<1>10. ASSUME NEW p \in Procs, LoadState(p) PROVE BudgetInv'
  BY <1>10 DEF LoadState
<1>11. ASSUME NEW p \in Procs, SkipUpdate(p) PROVE BudgetInv'
  BY <1>11 DEF SkipUpdate
<1>12. ASSUME NEW p \in Procs, BeginUpdate(p) PROVE BudgetInv'
  BY <1>12 DEF BeginUpdate, BeginLeg
<1>13. ASSUME NEW p \in Procs, ProviderAnswers(p) PROVE BudgetInv'
  BY <1>13 DEF ProviderAnswers
<1>14. ASSUME NEW p \in Procs, WaitBeforeRetry(p) PROVE BudgetInv'
  BY <1>14 DEF WaitBeforeRetry, MayRetry
<1>15. ASSUME NEW p \in Procs, RetryAfterWait(p) PROVE BudgetInv'
  BY <1>15 DEF RetryAfterWait
<1>16. ASSUME NEW p \in Procs, NextLeg(p) PROVE BudgetInv'
  BY <1>16 DEF NextLeg, BeginLeg, MayRetry
<1>17. ASSUME NEW p \in Procs, FinishCycle(p) PROVE BudgetInv'
  BY <1>17 DEF FinishCycle, CycleSettles
<1>18. ASSUME NEW p \in Procs, ThrowCycle(p) PROVE BudgetInv'
  BY <1>18 DEF ThrowCycle, CycleSettles
<1>19. CASE UNCHANGED vars
  BY <1>19
<1> QED
  BY StepCases, <1>1, <1>2, <1>3, <1>4, <1>5, <1>6, <1>7, <1>8, <1>9,
     <1>10, <1>11, <1>12, <1>13, <1>14, <1>15, <1>16, <1>17, <1>18, <1>19

\* The guard keeps naming the one cycle there is.
LEMMA GuardStep ==
    ASSUME TypeOK, GuardInv, [Next]_vars
    PROVE  GuardInv'
<1> USE ProcAssumption
    DEF TypeOK, GuardInv, CyclePcs, EarlyStartPcs, StopPcs, Procs, Goto,
        vars, loopVars, cycleVars, retryVars, history
<1>1. CASE Tick
  BY <1>1 DEF Tick, BeginCycle
<1>2. ASSUME NEW c \in Clients, SetIntervalMs(c) PROVE GuardInv'
  BY <1>2 DEF SetIntervalMs
<1>3. ASSUME NEW c \in Clients, CheckOnceGuarded(c) PROVE GuardInv'
  BY <1>3 DEF CheckOnceGuarded, BeginCycle
<1>4. ASSUME NEW c \in Clients, StartCall(c) PROVE GuardInv'
  BY <1>4 DEF StartCall
<1>5. ASSUME NEW c \in Clients, StartCycle(c) PROVE GuardInv'
  BY <1>5 DEF StartCycle, BeginCycle
<1>6. ASSUME NEW c \in Clients, StartSchedule(c) PROVE GuardInv'
  BY <1>6 DEF StartSchedule
<1>7. ASSUME NEW c \in Clients, StopJoin(c) PROVE GuardInv'
  BY <1>7 DEF StopJoin
<1>8. ASSUME NEW c \in Clients, StopCall(c) PROVE GuardInv'
  BY <1>8 DEF StopCall, InterruptRetry, ActiveCycle, HaltedBy, Cleared
<1>9. ASSUME NEW c \in Clients, StopSettles(c) PROVE GuardInv'
  BY <1>9 DEF StopSettles, HaltedBy
<1>10. ASSUME NEW p \in Procs, LoadState(p) PROVE GuardInv'
  BY <1>10 DEF LoadState
<1>11. ASSUME NEW p \in Procs, SkipUpdate(p) PROVE GuardInv'
  BY <1>11 DEF SkipUpdate
<1>12. ASSUME NEW p \in Procs, BeginUpdate(p) PROVE GuardInv'
  BY <1>12 DEF BeginUpdate, BeginLeg
<1>13. ASSUME NEW p \in Procs, ProviderAnswers(p) PROVE GuardInv'
  BY <1>13 DEF ProviderAnswers
<1>14. ASSUME NEW p \in Procs, WaitBeforeRetry(p) PROVE GuardInv'
  BY <1>14 DEF WaitBeforeRetry, MayRetry
<1>15. ASSUME NEW p \in Procs, RetryAfterWait(p) PROVE GuardInv'
  BY <1>15 DEF RetryAfterWait
<1>16. ASSUME NEW p \in Procs, NextLeg(p) PROVE GuardInv'
  BY <1>16 DEF NextLeg, BeginLeg, MayRetry
<1>17. ASSUME NEW p \in Procs, FinishCycle(p) PROVE GuardInv'
  BY <1>17 DEF FinishCycle, CycleSettles
<1>18. ASSUME NEW p \in Procs, ThrowCycle(p) PROVE GuardInv'
  BY <1>18 DEF ThrowCycle, CycleSettles
<1>19. CASE UNCHANGED vars
  BY <1>19
<1> QED
  BY StepCases, <1>1, <1>2, <1>3, <1>4, <1>5, <1>6, <1>7, <1>8, <1>9,
     <1>10, <1>11, <1>12, <1>13, <1>14, <1>15, <1>16, <1>17, <1>18, <1>19

\* The interval callback keeps to its cycles.
LEMMA TickerStep ==
    ASSUME TypeOK, TickerInv, [Next]_vars
    PROVE  TickerInv'
<1> USE ProcAssumption
    DEF TypeOK, TickerInv, CyclePcs, EarlyStartPcs, StopPcs, Procs, Goto,
        vars, loopVars, cycleVars, retryVars, history
<1>1. CASE Tick
  BY <1>1 DEF Tick, BeginCycle
<1>2. ASSUME NEW c \in Clients, SetIntervalMs(c) PROVE TickerInv'
  BY <1>2 DEF SetIntervalMs
<1>3. ASSUME NEW c \in Clients, CheckOnceGuarded(c) PROVE TickerInv'
  BY <1>3 DEF CheckOnceGuarded, BeginCycle
<1>4. ASSUME NEW c \in Clients, StartCall(c) PROVE TickerInv'
  BY <1>4 DEF StartCall
<1>5. ASSUME NEW c \in Clients, StartCycle(c) PROVE TickerInv'
  BY <1>5 DEF StartCycle, BeginCycle
<1>6. ASSUME NEW c \in Clients, StartSchedule(c) PROVE TickerInv'
  BY <1>6 DEF StartSchedule
<1>7. ASSUME NEW c \in Clients, StopJoin(c) PROVE TickerInv'
  BY <1>7 DEF StopJoin
<1>8. ASSUME NEW c \in Clients, StopCall(c) PROVE TickerInv'
  BY <1>8 DEF StopCall, InterruptRetry, ActiveCycle, HaltedBy, Cleared
<1>9. ASSUME NEW c \in Clients, StopSettles(c) PROVE TickerInv'
  BY <1>9 DEF StopSettles, HaltedBy
<1>10. ASSUME NEW p \in Procs, LoadState(p) PROVE TickerInv'
  BY <1>10 DEF LoadState
<1>11. ASSUME NEW p \in Procs, SkipUpdate(p) PROVE TickerInv'
  BY <1>11 DEF SkipUpdate
<1>12. ASSUME NEW p \in Procs, BeginUpdate(p) PROVE TickerInv'
  BY <1>12 DEF BeginUpdate, BeginLeg
<1>13. ASSUME NEW p \in Procs, ProviderAnswers(p) PROVE TickerInv'
  BY <1>13 DEF ProviderAnswers
<1>14. ASSUME NEW p \in Procs, WaitBeforeRetry(p) PROVE TickerInv'
  BY <1>14 DEF WaitBeforeRetry, MayRetry
<1>15. ASSUME NEW p \in Procs, RetryAfterWait(p) PROVE TickerInv'
  BY <1>15 DEF RetryAfterWait
<1>16. ASSUME NEW p \in Procs, NextLeg(p) PROVE TickerInv'
  BY <1>16 DEF NextLeg, BeginLeg, MayRetry
<1>17. ASSUME NEW p \in Procs, FinishCycle(p) PROVE TickerInv'
  BY <1>17 DEF FinishCycle, CycleSettles
<1>18. ASSUME NEW p \in Procs, ThrowCycle(p) PROVE TickerInv'
  BY <1>18 DEF ThrowCycle, CycleSettles
<1>19. CASE UNCHANGED vars
  BY <1>19
<1> QED
  BY StepCases, <1>1, <1>2, <1>3, <1>4, <1>5, <1>6, <1>7, <1>8, <1>9,
     <1>10, <1>11, <1>12, <1>13, <1>14, <1>15, <1>16, <1>17, <1>18, <1>19

\* One interval at most fires, and at the current length.
LEMMA TimerStep ==
    ASSUME TypeOK, StopInv, OneLiveTimer, ArmedWithCurrentInterval, [Next]_vars
    PROVE  (OneLiveTimer /\ ArmedWithCurrentInterval)'
<1> USE ProcAssumption, TimerAssumption
    DEF TypeOK, OneLiveTimer, ArmedWithCurrentInterval, Live, StopInv, CyclePcs, EarlyStartPcs, StopPcs, Procs, Goto,
        vars, loopVars, cycleVars, retryVars, history
<1>1. CASE Tick
  BY <1>1 DEF Tick, BeginCycle
<1>2. ASSUME NEW c \in Clients, SetIntervalMs(c) PROVE (OneLiveTimer /\ ArmedWithCurrentInterval)'
  <2>1. PICK ms \in Intervals :
          /\ intervalMs' = ms
          /\ IF timer # NoTimer THEN ScheduleTimer(ms) ELSE UNCHANGED <<timer, every>>
    BY <1>2 DEF SetIntervalMs
  <2> QED  BY <1>2, <2>1, ScheduleFacts DEF SetIntervalMs, TypeOK
<1>3. ASSUME NEW c \in Clients, CheckOnceGuarded(c) PROVE (OneLiveTimer /\ ArmedWithCurrentInterval)'
  BY <1>3 DEF CheckOnceGuarded, BeginCycle
<1>4. ASSUME NEW c \in Clients, StartCall(c) PROVE (OneLiveTimer /\ ArmedWithCurrentInterval)'
  BY <1>4 DEF StartCall
<1>5. ASSUME NEW c \in Clients, StartCycle(c) PROVE (OneLiveTimer /\ ArmedWithCurrentInterval)'
  BY <1>5 DEF StartCycle, BeginCycle
<1>6. ASSUME NEW c \in Clients, StartSchedule(c) PROVE (OneLiveTimer /\ ArmedWithCurrentInterval)'
  <2>1. IF stopping THEN UNCHANGED <<timer, every>> ELSE ScheduleTimer(intervalMs)
    BY <1>6 DEF StartSchedule
  <2>2. intervalMs \in Intervals
    BY DEF TypeOK
  <2> QED  BY <1>6, <2>1, <2>2, ScheduleFacts DEF StartSchedule, TypeOK
<1>7. ASSUME NEW c \in Clients, StopJoin(c) PROVE (OneLiveTimer /\ ArmedWithCurrentInterval)'
  BY <1>7 DEF StopJoin
<1>8. ASSUME NEW c \in Clients, StopCall(c) PROVE (OneLiveTimer /\ ArmedWithCurrentInterval)'
  BY <1>8 DEF StopCall, InterruptRetry, ActiveCycle, HaltedBy, Cleared
<1>9. ASSUME NEW c \in Clients, StopSettles(c) PROVE (OneLiveTimer /\ ArmedWithCurrentInterval)'
  BY <1>9 DEF StopSettles, HaltedBy
<1>10. ASSUME NEW p \in Procs, LoadState(p) PROVE (OneLiveTimer /\ ArmedWithCurrentInterval)'
  BY <1>10 DEF LoadState
<1>11. ASSUME NEW p \in Procs, SkipUpdate(p) PROVE (OneLiveTimer /\ ArmedWithCurrentInterval)'
  BY <1>11 DEF SkipUpdate
<1>12. ASSUME NEW p \in Procs, BeginUpdate(p) PROVE (OneLiveTimer /\ ArmedWithCurrentInterval)'
  BY <1>12 DEF BeginUpdate, BeginLeg
<1>13. ASSUME NEW p \in Procs, ProviderAnswers(p) PROVE (OneLiveTimer /\ ArmedWithCurrentInterval)'
  BY <1>13 DEF ProviderAnswers
<1>14. ASSUME NEW p \in Procs, WaitBeforeRetry(p) PROVE (OneLiveTimer /\ ArmedWithCurrentInterval)'
  BY <1>14 DEF WaitBeforeRetry, MayRetry
<1>15. ASSUME NEW p \in Procs, RetryAfterWait(p) PROVE (OneLiveTimer /\ ArmedWithCurrentInterval)'
  BY <1>15 DEF RetryAfterWait
<1>16. ASSUME NEW p \in Procs, NextLeg(p) PROVE (OneLiveTimer /\ ArmedWithCurrentInterval)'
  BY <1>16 DEF NextLeg, BeginLeg, MayRetry
<1>17. ASSUME NEW p \in Procs, FinishCycle(p) PROVE (OneLiveTimer /\ ArmedWithCurrentInterval)'
  BY <1>17 DEF FinishCycle, CycleSettles
<1>18. ASSUME NEW p \in Procs, ThrowCycle(p) PROVE (OneLiveTimer /\ ArmedWithCurrentInterval)'
  BY <1>18 DEF ThrowCycle, CycleSettles
<1>19. CASE UNCHANGED vars
  BY <1>19
<1> QED
  BY StepCases, <1>1, <1>2, <1>3, <1>4, <1>5, <1>6, <1>7, <1>8, <1>9,
     <1>10, <1>11, <1>12, <1>13, <1>14, <1>15, <1>16, <1>17, <1>18, <1>19

\* A pending stop keeps the session stopping, without a timer.
LEMMA StopStep ==
    ASSUME TypeOK, GuardInv, TickerInv, OneLiveTimer, StopInv, [Next]_vars
    PROVE  StopInv'
<1> USE ProcAssumption
    DEF StopInv, GuardInv, TickerInv, OneLiveTimer, TypeOK, Live, CyclePcs, EarlyStartPcs, StopPcs, Procs, Goto,
        vars, loopVars, cycleVars, retryVars, history
<1>1. CASE Tick
  BY <1>1 DEF Tick, BeginCycle
<1>2. ASSUME NEW c \in Clients, SetIntervalMs(c) PROVE StopInv'
  BY <1>2 DEF SetIntervalMs, ScheduleTimer
<1>3. ASSUME NEW c \in Clients, CheckOnceGuarded(c) PROVE StopInv'
  BY <1>3 DEF CheckOnceGuarded, BeginCycle
<1>4. ASSUME NEW c \in Clients, StartCall(c) PROVE StopInv'
  BY <1>4 DEF StartCall
<1>5. ASSUME NEW c \in Clients, StartCycle(c) PROVE StopInv'
  BY <1>5 DEF StartCycle, BeginCycle
<1>6. ASSUME NEW c \in Clients, StartSchedule(c) PROVE StopInv'
  BY <1>6 DEF StartSchedule, ScheduleTimer
<1>7. ASSUME NEW c \in Clients, StopJoin(c) PROVE StopInv'
  BY <1>7 DEF StopJoin
<1>8. ASSUME NEW c \in Clients, StopCall(c) PROVE StopInv'
  BY <1>8 DEF StopCall, InterruptRetry, ActiveCycle, HaltedBy, Cleared
<1>9. ASSUME NEW c \in Clients, StopSettles(c) PROVE StopInv'
  BY <1>9 DEF StopSettles, HaltedBy
<1>10. ASSUME NEW p \in Procs, LoadState(p) PROVE StopInv'
  BY <1>10 DEF LoadState
<1>11. ASSUME NEW p \in Procs, SkipUpdate(p) PROVE StopInv'
  BY <1>11 DEF SkipUpdate
<1>12. ASSUME NEW p \in Procs, BeginUpdate(p) PROVE StopInv'
  BY <1>12 DEF BeginUpdate, BeginLeg
<1>13. ASSUME NEW p \in Procs, ProviderAnswers(p) PROVE StopInv'
  BY <1>13 DEF ProviderAnswers
<1>14. ASSUME NEW p \in Procs, WaitBeforeRetry(p) PROVE StopInv'
  BY <1>14 DEF WaitBeforeRetry, MayRetry
<1>15. ASSUME NEW p \in Procs, RetryAfterWait(p) PROVE StopInv'
  BY <1>15 DEF RetryAfterWait
<1>16. ASSUME NEW p \in Procs, NextLeg(p) PROVE StopInv'
  BY <1>16 DEF NextLeg, BeginLeg, MayRetry
<1>17. ASSUME NEW p \in Procs, FinishCycle(p) PROVE StopInv'
  BY <1>17 DEF FinishCycle, CycleSettles
<1>18. ASSUME NEW p \in Procs, ThrowCycle(p) PROVE StopInv'
  BY <1>18 DEF ThrowCycle, CycleSettles
<1>19. CASE UNCHANGED vars
  BY <1>19
<1> QED
  BY StepCases, <1>1, <1>2, <1>3, <1>4, <1>5, <1>6, <1>7, <1>8, <1>9,
     <1>10, <1>11, <1>12, <1>13, <1>14, <1>15, <1>16, <1>17, <1>18, <1>19

\* No delay outlives the start of a stop.
LEMMA InterruptStep ==
    ASSUME TypeOK, NoSleepWhileStopping, [Next]_vars
    PROVE  NoSleepWhileStopping'
<1> USE ProcAssumption
    DEF NoSleepWhileStopping, TypeOK, CyclePcs, EarlyStartPcs, StopPcs, Procs, Goto,
        vars, loopVars, cycleVars, retryVars, history
<1>1. CASE Tick
  BY <1>1 DEF Tick, BeginCycle
<1>2. ASSUME NEW c \in Clients, SetIntervalMs(c) PROVE NoSleepWhileStopping'
  BY <1>2 DEF SetIntervalMs
<1>3. ASSUME NEW c \in Clients, CheckOnceGuarded(c) PROVE NoSleepWhileStopping'
  BY <1>3 DEF CheckOnceGuarded, BeginCycle
<1>4. ASSUME NEW c \in Clients, StartCall(c) PROVE NoSleepWhileStopping'
  BY <1>4 DEF StartCall
<1>5. ASSUME NEW c \in Clients, StartCycle(c) PROVE NoSleepWhileStopping'
  BY <1>5 DEF StartCycle, BeginCycle
<1>6. ASSUME NEW c \in Clients, StartSchedule(c) PROVE NoSleepWhileStopping'
  BY <1>6 DEF StartSchedule
<1>7. ASSUME NEW c \in Clients, StopJoin(c) PROVE NoSleepWhileStopping'
  BY <1>7 DEF StopJoin
<1>8. ASSUME NEW c \in Clients, StopCall(c) PROVE NoSleepWhileStopping'
  BY <1>8 DEF StopCall, InterruptRetry, ActiveCycle, HaltedBy, Cleared
<1>9. ASSUME NEW c \in Clients, StopSettles(c) PROVE NoSleepWhileStopping'
  BY <1>9 DEF StopSettles, HaltedBy
<1>10. ASSUME NEW p \in Procs, LoadState(p) PROVE NoSleepWhileStopping'
  BY <1>10 DEF LoadState
<1>11. ASSUME NEW p \in Procs, SkipUpdate(p) PROVE NoSleepWhileStopping'
  BY <1>11 DEF SkipUpdate
<1>12. ASSUME NEW p \in Procs, BeginUpdate(p) PROVE NoSleepWhileStopping'
  BY <1>12 DEF BeginUpdate, BeginLeg
<1>13. ASSUME NEW p \in Procs, ProviderAnswers(p) PROVE NoSleepWhileStopping'
  BY <1>13 DEF ProviderAnswers
<1>14. ASSUME NEW p \in Procs, WaitBeforeRetry(p) PROVE NoSleepWhileStopping'
  BY <1>14 DEF WaitBeforeRetry, MayRetry
<1>15. ASSUME NEW p \in Procs, RetryAfterWait(p) PROVE NoSleepWhileStopping'
  BY <1>15 DEF RetryAfterWait
<1>16. ASSUME NEW p \in Procs, NextLeg(p) PROVE NoSleepWhileStopping'
  BY <1>16 DEF NextLeg, BeginLeg, MayRetry
<1>17. ASSUME NEW p \in Procs, FinishCycle(p) PROVE NoSleepWhileStopping'
  BY <1>17 DEF FinishCycle, CycleSettles
<1>18. ASSUME NEW p \in Procs, ThrowCycle(p) PROVE NoSleepWhileStopping'
  BY <1>18 DEF ThrowCycle, CycleSettles
<1>19. CASE UNCHANGED vars
  BY <1>19
<1> QED
  BY StepCases, <1>1, <1>2, <1>3, <1>4, <1>5, <1>6, <1>7, <1>8, <1>9,
     <1>10, <1>11, <1>12, <1>13, <1>14, <1>15, <1>16, <1>17, <1>18, <1>19

\* A clean stop stays clean until the next start or stop.
LEMMA CleanStep ==
    ASSUME TypeOK, GuardInv, TickerInv, OneLiveTimer, StopInv, CleanInv, [Next]_vars
    PROVE  CleanInv'
<1> USE ProcAssumption
    DEF CleanInv, StopInv, GuardInv, TickerInv, OneLiveTimer, TypeOK, Live, CyclePcs, EarlyStartPcs, StopPcs, Procs, Goto,
        vars, loopVars, cycleVars, retryVars, history
<1>1. CASE Tick
  BY <1>1 DEF Tick, BeginCycle
<1>2. ASSUME NEW c \in Clients, SetIntervalMs(c) PROVE CleanInv'
  BY <1>2 DEF SetIntervalMs
<1>3. ASSUME NEW c \in Clients, CheckOnceGuarded(c) PROVE CleanInv'
  BY <1>3 DEF CheckOnceGuarded, BeginCycle
<1>4. ASSUME NEW c \in Clients, StartCall(c) PROVE CleanInv'
  BY <1>4 DEF StartCall
<1>5. ASSUME NEW c \in Clients, StartCycle(c) PROVE CleanInv'
  BY <1>5 DEF StartCycle, BeginCycle
<1>6. ASSUME NEW c \in Clients, StartSchedule(c) PROVE CleanInv'
  BY <1>6 DEF StartSchedule
<1>7. ASSUME NEW c \in Clients, StopJoin(c) PROVE CleanInv'
  BY <1>7 DEF StopJoin
<1>8. ASSUME NEW c \in Clients, StopCall(c) PROVE CleanInv'
  BY <1>8 DEF StopCall, InterruptRetry, ActiveCycle, HaltedBy, Cleared
<1>9. ASSUME NEW c \in Clients, StopSettles(c) PROVE CleanInv'
  BY <1>9 DEF StopSettles, HaltedBy
<1>10. ASSUME NEW p \in Procs, LoadState(p) PROVE CleanInv'
  BY <1>10 DEF LoadState
<1>11. ASSUME NEW p \in Procs, SkipUpdate(p) PROVE CleanInv'
  BY <1>11 DEF SkipUpdate
<1>12. ASSUME NEW p \in Procs, BeginUpdate(p) PROVE CleanInv'
  BY <1>12 DEF BeginUpdate, BeginLeg
<1>13. ASSUME NEW p \in Procs, ProviderAnswers(p) PROVE CleanInv'
  BY <1>13 DEF ProviderAnswers
<1>14. ASSUME NEW p \in Procs, WaitBeforeRetry(p) PROVE CleanInv'
  BY <1>14 DEF WaitBeforeRetry, MayRetry
<1>15. ASSUME NEW p \in Procs, RetryAfterWait(p) PROVE CleanInv'
  BY <1>15 DEF RetryAfterWait
<1>16. ASSUME NEW p \in Procs, NextLeg(p) PROVE CleanInv'
  BY <1>16 DEF NextLeg, BeginLeg, MayRetry
<1>17. ASSUME NEW p \in Procs, FinishCycle(p) PROVE CleanInv'
  BY <1>17 DEF FinishCycle, CycleSettles
<1>18. ASSUME NEW p \in Procs, ThrowCycle(p) PROVE CleanInv'
  BY <1>18 DEF ThrowCycle, CycleSettles
<1>19. CASE UNCHANGED vars
  BY <1>19
<1> QED
  BY StepCases, <1>1, <1>2, <1>3, <1>4, <1>5, <1>6, <1>7, <1>8, <1>9,
     <1>10, <1>11, <1>12, <1>13, <1>14, <1>15, <1>16, <1>17, <1>18, <1>19

-----------------------------------------------------------------------------

LEMMA InitInv == Init => IInv
<1> SUFFICES ASSUME Init PROVE IInv
  OBVIOUS
<1> USE ProcAssumption, BoundAssumption DEF Init, Procs, Live
<1>1. TypeOK
  <2>1. Live = {} /\ every \in [Live -> Intervals]
    OBVIOUS
  <2>2. pc \in [Procs -> Pcs] /\ via \in [Procs -> {"start", "check"}]
    BY DEF Pcs
  <2>3. legs \in [Procs -> 0..MaxLegs] /\ attempt \in [Procs -> 1..MaxAttempts]
    OBVIOUS
  <2> QED  BY <2>1, <2>2, <2>3 DEF TypeOK
<1>2. OneLiveTimer /\ ArmedWithCurrentInterval /\ NoSleepWhileStopping
  BY DEF OneLiveTimer, ArmedWithCurrentInterval, NoSleepWhileStopping
<1>3. GuardInv /\ TickerInv /\ StopInv /\ CleanInv /\ BudgetInv
  BY DEF GuardInv, TickerInv, StopInv, CleanInv, BudgetInv, CyclePcs, StopPcs
<1> QED  BY <1>1, <1>2, <1>3 DEF IInv

LEMMA StepInv == IInv /\ [Next]_vars => IInv'
<1> SUFFICES ASSUME IInv, [Next]_vars PROVE IInv'
  OBVIOUS
<1>1. TypeOK'
  BY TypingStep DEF IInv
<1>2. BudgetInv' /\ GuardInv' /\ TickerInv'
  BY BudgetStep, GuardStep, TickerStep DEF IInv
<1>3. (OneLiveTimer /\ ArmedWithCurrentInterval)'
  BY TimerStep DEF IInv
<1>4. StopInv' /\ NoSleepWhileStopping' /\ CleanInv'
  BY StopStep, InterruptStep, CleanStep DEF IInv
<1> QED  BY <1>1, <1>2, <1>3, <1>4 DEF IInv

\* The inductive invariant holds of every behaviour of the session.
LEMMA Invariance == Spec => []IInv
BY InitInv, StepInv, PTL DEF Spec

\* Type correctness of the session's state.
THEOREM TypeCorrect == Spec => []TypeOK
<1>1. IInv => TypeOK
  BY DEF IInv
<1> QED  BY <1>1, Invariance, PTL

\* Cycles never overlap, for any number of callers.
THEOREM CyclesNeverOverlap == Spec => []NoOverlap
<1>1. IInv => NoOverlap
  BY DEF IInv, GuardInv, NoOverlap
<1> QED  BY <1>1, Invariance, PTL

\* OneLiveTimer: the session never leaks an interval (scheduleTimer, clearTimer).
THEOREM TimerIsTheLiveOne == Spec => []OneLiveTimer
<1>1. IInv => OneLiveTimer
  BY DEF IInv
<1> QED  BY <1>1, Invariance, PTL

\* ArmedWithCurrentInterval: the interval it holds has the length of its latest setting,
\* also when setIntervalMs meets a start that has not armed it yet.
THEOREM ArmedIsCurrent == Spec => []ArmedWithCurrentInterval
<1>1. IInv => ArmedWithCurrentInterval
  BY DEF IInv
<1> QED  BY <1>1, Invariance, PTL

\* No stop() ever waits for a retry delay to run its course.
THEOREM StopNeverSleeps == Spec => []NoSleepWhileStopping
<1>1. IInv => NoSleepWhileStopping
  BY DEF IInv
<1> QED  BY <1>1, Invariance, PTL

\* After an uncontested stop() nothing of the loop is left.
THEOREM CleanStopIsQuiet == Spec => []StoppedIsQuiet
<1>1. IInv => StoppedIsQuiet
  BY DEF IInv, CleanInv, StopInv, OneLiveTimer, StoppedIsQuiet
<1> QED  BY <1>1, Invariance, PTL

-----------------------------------------------------------------------------
(***************************************************************************)
(* The session implements the abstract one.                                *)
(***************************************************************************)

Armed    == timer # NoTimer
Cycling  == \E p \in Procs : pc[p] \in CyclePcs
Halting  == stopPromise # NoProc
Draining == \E c \in Procs : pc[c] = "stop_drain"

LEMMA CycleIsInFlight == IInv => (Cycling <=> inFlightPromise # NoProc)
BY ProcAssumption DEF IInv, TypeOK, GuardInv, Cycling, Procs

LEMMA DrainIsHalting == IInv /\ Draining => Halting
BY ProcAssumption DEF IInv, TickerInv, StopInv, Draining, Halting, StopPcs, CyclePcs, Procs

\* A step that none of the promises is about.
LEMMA Unseen ==
    ASSUME Armed' = Armed, Cycling' = Cycling, stopping' = stopping, Halting' = Halting, Draining' = Draining
    PROVE  UNCHANGED Looping!vars
BY DEF Looping!vars, Armed, Cycling, Halting, Draining

\* A step of a call that stays outside the cycles and the drains.
LEMMA Elsewhere ==
    ASSUME TypeOK, NEW p \in Procs, NEW label, pc' = [pc EXCEPT ![p] = label],
           pc[p] \in CyclePcs <=> label \in CyclePcs, pc[p] # "stop_drain", label # "stop_drain"
    PROVE  Cycling' = Cycling /\ Draining' = Draining
<1>1. \A q \in Procs : (pc'[q] \in CyclePcs <=> pc[q] \in CyclePcs)
                       /\ (pc'[q] = "stop_drain" <=> pc[q] = "stop_drain")
  BY DEF TypeOK
<1>2. (Cycling' <=> Cycling) /\ (Draining' <=> Draining)
  BY <1>1 DEF Cycling, Draining
<1> QED  BY <1>2 DEF Cycling, Draining

LEMMA BeginStarts ==
    ASSUME IInv, NEW p \in Procs, pc[p] \notin CyclePcs \cup {"stop_drain"}, NEW how,
           NEW first \in CyclePcs, BeginCycle(p, how, first),
           UNCHANGED <<timer, stopping, stopPromise>>
    PROVE  Looping!Begin
<1>1. ~Cycling
  BY CycleIsInFlight DEF BeginCycle, IInv, GuardInv
<1>2. pc' = [pc EXCEPT ![p] = first] /\ pc \in [Procs -> Pcs] /\ first # "stop_drain"
  BY DEF BeginCycle, Goto, IInv, TypeOK, CyclePcs
<1>3. Cycling'
  BY <1>2 DEF Cycling
<1>4. Draining' = Draining
  BY <1>2 DEF Draining
<1> QED  BY <1>1, <1>3, <1>4 DEF Looping!Begin, Cycling, Draining

\* The end of a cycle releases the stop() that waits for it.
LEMMA SettleSettles ==
    ASSUME IInv, NEW p \in Procs, pc[p] \in CyclePcs, NEW ok \in BOOLEAN, CycleSettles(p, ok)
    PROVE  Looping!Settle
<1>1. /\ pc' = [q \in Procs |->
                  IF q = p THEN IF ok /\ via[p] = "start" THEN "start_schedule" ELSE "idle"
                  ELSE IF pc[q] = "stop_drain" THEN IF ok THEN "stop_drained" ELSE "stop_failed"
                  ELSE pc[q]]
      /\ UNCHANGED <<timer, stopping, stopPromise>>
  BY DEF CycleSettles, loopVars
<1>2. \A q \in Procs : pc[q] \in CyclePcs => q = p
  BY DEF IInv, GuardInv
<1>3. Cycling
  BY DEF Cycling
<1>4. ~Cycling'
  BY <1>1, <1>2 DEF Cycling, CyclePcs
<1>5. ~Draining'
  BY <1>1 DEF Draining
<1> QED  BY <1>1, <1>3, <1>4, <1>5 DEF Looping!Settle, Looping!Schedules, Cycling, Draining

LEMMA StopStops ==
    ASSUME IInv, NEW c \in Clients, StopCall(c)
    PROVE  Looping!Stop
<1>1. /\ pc[c] = "idle" /\ stopPromise = NoProc /\ stopping' = TRUE /\ timer' = NoTimer
      /\ IF inFlightPromise = NoProc
           THEN UNCHANGED <<pc, stopPromise>>
           ELSE stopPromise' = c /\ pc' = [pc EXCEPT ![c] = "stop_drain"]
  BY DEF StopCall, ActiveCycle, Goto
<1>2. c \in Procs /\ c # NoProc /\ pc \in [Procs -> Pcs]
  BY ProcAssumption DEF Procs, IInv, TypeOK
<1>3. Cycling <=> inFlightPromise # NoProc
  BY CycleIsInFlight
<1>4. ~Draining /\ ~Halting
  BY <1>1, DrainIsHalting DEF Halting
<1>5. Cycling' <=> Cycling
  BY <1>1, <1>2 DEF Cycling, CyclePcs
<1>6. (Halting' <=> Cycling) /\ (Draining' <=> Cycling)
  BY <1>1, <1>2, <1>3, <1>4 DEF Halting, Draining
<1> HIDE DEF Cycling, Draining
<1>7. ~Armed' /\ Cycling' = Cycling /\ Halting' = Cycling /\ Draining' = Cycling
  BY <1>1, <1>5, <1>6 DEF Armed, Cycling, Halting, Draining
<1> QED  BY <1>1, <1>4, <1>7 DEF Looping!Stop, Armed, Cycling, Halting, Draining

LEMMA StopReturnsOrStays ==
    ASSUME IInv, NEW c \in Clients, StopSettles(c)
    PROVE  Looping!Return
<1>1. /\ pc[c] \in {"stop_drained", "stop_failed"} /\ stopPromise' = NoProc /\ timer' = timer
      /\ stopping' \in {stopping, FALSE}
  BY DEF StopSettles, loopVars, IInv, TypeOK
<1>2. \A q \in Procs : \/ pc'[q] = pc[q]
                       \/ pc[q] \notin CyclePcs \cup {"stop_drain"} /\ pc'[q] \in {"idle", "start_load"}
  <2>1. c \in Procs
    BY DEF Procs
  <2> QED  BY <1>1, <2>1 DEF StopSettles, CyclePcs
<1>3. \A q \in Procs : pc[q] \in StopPcs => stopPromise = q
  BY DEF IInv, StopInv
<1>4. Halting /\ stopPromise = c
  BY <1>1, <1>3, ProcAssumption DEF Halting, StopPcs, Procs
<1>5. ~Draining
  BY <1>1, <1>3, <1>4 DEF Draining, StopPcs
<1>6. Cycling' <=> Cycling
  BY <1>2 DEF Cycling, CyclePcs
<1>7. ~Draining'
  BY <1>2, <1>5 DEF Draining
<1> QED  BY <1>1, <1>4, <1>5, <1>6, <1>7 DEF Looping!Return, Looping!Returns, Cycling, Halting, Draining

LEMMA SetIntervalUnseen ==
    ASSUME IInv, NEW c \in Clients, SetIntervalMs(c)
    PROVE  UNCHANGED Looping!vars
<1>1. PICK ms \in Intervals : IF timer # NoTimer THEN ScheduleTimer(ms) ELSE UNCHANGED <<timer, every>>
  BY DEF SetIntervalMs
<1>2. timer # NoTimer => ~stopping
  BY DEF IInv, StopInv
<1>3. (timer' # NoTimer) <=> (timer # NoTimer)
  BY <1>1, <1>2, TimerAssumption DEF ScheduleTimer
<1> QED  BY <1>3 DEF SetIntervalMs, Looping!vars

LEMMA ScheduleArms ==
    ASSUME IInv, NEW c \in Clients, StartSchedule(c)
    PROVE  Looping!Arm
<1>1. /\ pc[c] = "start_schedule" /\ pc' = [pc EXCEPT ![c] = "idle"] /\ UNCHANGED <<stopping, stopPromise>>
      /\ IF stopping THEN UNCHANGED timer ELSE ScheduleTimer(intervalMs)
  BY DEF StartSchedule, Goto
<1>2. TypeOK /\ c \in Procs
  BY DEF IInv, Procs
<1>3. Cycling' = Cycling /\ Draining' = Draining
  BY <1>1, <1>2, Elsewhere DEF CyclePcs
<1>4. CASE stopping
  BY <1>1, <1>3, <1>4 DEF Looping!Arm, Looping!Schedules, Cycling, Draining
<1>5. CASE ~stopping
  <2>1. timer' # NoTimer
    BY <1>1, <1>5, TimerAssumption DEF ScheduleTimer
  <2> QED  BY <1>1, <1>3, <1>5, <2>1 DEF Looping!Arm, Looping!Schedules, Cycling, Draining
<1> QED  BY <1>4, <1>5

\* A step inside a cycle.
LEMMA CycleUnseen ==
    ASSUME IInv, NEW p \in Procs,
           \/ LoadState(p) \/ SkipUpdate(p) \/ BeginUpdate(p) \/ ProviderAnswers(p)
           \/ WaitBeforeRetry(p) \/ RetryAfterWait(p) \/ NextLeg(p)
    PROVE  UNCHANGED Looping!vars
<1>1. /\ pc[p] \in CyclePcs /\ UNCHANGED <<timer, stopping, stopPromise>>
      /\ \E label \in CyclePcs : pc' = [pc EXCEPT ![p] = label]
  BY DEF LoadState, SkipUpdate, BeginUpdate, ProviderAnswers, WaitBeforeRetry, RetryAfterWait, NextLeg,
         BeginLeg, MayRetry, Goto, loopVars, CyclePcs
<1>2. TypeOK /\ \A label \in CyclePcs \cup {pc[p]} : label # "stop_drain"
  BY <1>1 DEF IInv, CyclePcs
<1>3. Cycling' = Cycling /\ Draining' = Draining
  BY <1>1, <1>2, Elsewhere
<1> QED  BY <1>1, <1>3, Unseen DEF Armed, Halting

\* The beginning of a start().
LEMMA StartStarts ==
    ASSUME IInv, NEW c \in Clients, StartCall(c)
    PROVE  [Looping!Next]_(Looping!vars)
<1>1. /\ pc[c] = "idle" /\ UNCHANGED <<timer, stopPromise>>
      /\ pc' = pc \/ pc' = [pc EXCEPT ![c] = "start_await_stop"] \/ pc' = [pc EXCEPT ![c] = "start_load"]
      /\ IF stopPromise # NoProc THEN stopping' = stopping ELSE stopping' = FALSE
  BY DEF StartCall, Goto, loopVars
<1>2. TypeOK /\ c \in Procs
  BY DEF IInv, Procs
<1>3. Cycling' = Cycling /\ Draining' = Draining
  BY <1>1, <1>2, Elsewhere DEF CyclePcs, Cycling, Draining
<1>4. CASE Halting
  BY <1>1, <1>3, <1>4, Unseen DEF Armed, Halting
<1>5. CASE ~Halting
  <2>1. Looping!Start
    BY <1>1, <1>3, <1>5 DEF Looping!Start, Cycling, Halting, Draining
  <2> QED  BY <2>1 DEF Looping!Next
<1> QED  BY <1>4, <1>5

\* A start() that finds a cycle, a stop() that joins another.
LEMMA JoinUnseen ==
    ASSUME IInv, NEW c \in Clients,
           \/ StopJoin(c)
           \/ StartCycle(c) /\ pc' = [pc EXCEPT ![c] = "start_schedule"]
    PROVE  UNCHANGED Looping!vars
<1>1. /\ UNCHANGED <<timer, stopping, stopPromise>> /\ pc[c] \in {"idle", "start_load"}
      /\ \E label \in {"stop_await", "start_schedule"} : pc' = [pc EXCEPT ![c] = label]
  BY DEF StopJoin, StartCycle, Goto, loopVars
<1>2. TypeOK /\ c \in Procs
  BY DEF IInv, Procs
<1>3. Cycling' = Cycling /\ Draining' = Draining
  BY <1>1, <1>2, Elsewhere DEF CyclePcs
<1> QED  BY <1>1, <1>3, Unseen DEF Armed, Halting

LEMMA StepImplements ==
    ASSUME IInv, [Next]_vars
    PROVE  [Looping!Next]_(Looping!vars)
<1> USE DEF Looping!Next
<1>1. CASE Tick
  <2>1. Looping!Begin
    BY <1>1, BeginStarts DEF Tick, loopVars, Procs, CyclePcs
  <2> QED  BY <2>1
<1>2. ASSUME NEW c \in Clients, CheckOnceGuarded(c) PROVE Looping!Begin
  BY <1>2, BeginStarts DEF CheckOnceGuarded, loopVars, Procs, CyclePcs
<1>3. ASSUME NEW c \in Clients, StartCycle(c) PROVE [Looping!Next]_(Looping!vars)
  <2>1. CASE BeginCycle(c, "start", "load")
    <3>1. Looping!Begin
      BY <1>3, <2>1, BeginStarts DEF StartCycle, loopVars, Procs, CyclePcs
    <3> QED  BY <3>1
  <2>2. CASE pc' = [pc EXCEPT ![c] = "start_schedule"]
    BY <1>3, <2>2, JoinUnseen
  <2> QED  BY <1>3, <2>1, <2>2 DEF StartCycle, Goto
<1>4. ASSUME NEW c \in Clients, SetIntervalMs(c) \/ StopJoin(c) PROVE UNCHANGED Looping!vars
  BY <1>4, SetIntervalUnseen, JoinUnseen
<1>5. ASSUME NEW c \in Clients, StartCall(c) PROVE [Looping!Next]_(Looping!vars)
  BY <1>5, StartStarts
<1>6. ASSUME NEW c \in Clients, StartSchedule(c) \/ StopCall(c) \/ StopSettles(c)
      PROVE  Looping!Arm \/ Looping!Stop \/ Looping!Return
  BY <1>6, ScheduleArms, StopStops, StopReturnsOrStays
<1>7. ASSUME NEW p \in Procs, FinishCycle(p) \/ ThrowCycle(p) PROVE Looping!Settle
  BY <1>7, SettleSettles DEF FinishCycle, ThrowCycle, CyclePcs
<1>8. ASSUME NEW p \in Procs,
             \/ LoadState(p) \/ SkipUpdate(p) \/ BeginUpdate(p) \/ ProviderAnswers(p)
             \/ WaitBeforeRetry(p) \/ RetryAfterWait(p) \/ NextLeg(p)
      PROVE  UNCHANGED Looping!vars
  BY <1>8, CycleUnseen
<1>9. CASE UNCHANGED vars
  BY <1>9, Unseen DEF vars, loopVars, Armed, Cycling, Halting, Draining
<1> QED  BY StepCases, <1>1, <1>2, <1>3, <1>4, <1>5, <1>6, <1>7, <1>8, <1>9

LEMMA InitImplements == Init => Looping!Init
BY DEF Init, Looping!Init, CyclePcs, Procs

\* ImplementsSession: for any number of callers, timers and retries, the awaits and flags
\* of createUpdater come to the simple session of module Session.
THEOREM LoopImplementsSession == Spec => ImplementsSession
BY InitImplements, StepImplements, Invariance, PTL DEF Spec, ImplementsSession, Looping!Spec
===============================================================================
