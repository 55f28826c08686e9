SPECIFICATION Spec
CONSTANTS
  Clients = {c1, c2}
  Ticker = tick
  Timers = {t1, t2}
  Intervals = {long}
  MaxAttempts = 2
  MaxLegs = 1
  NoTimer = NoTimer
  NoProc = NoProc
INVARIANT
  StopMeansStopped
