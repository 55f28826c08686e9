SPECIFICATION FairSpec
CONSTANTS
  Clients = {c1, c2, c3}
  Ticker = tick
  Timers = {t1, t2}
  Intervals = {short, long}
  MaxAttempts = 3
  MaxLegs = 2
  NoTimer = NoTimer
  NoProc = NoProc
INVARIANTS
  NoOverlap
  OneLiveTimer
  ArmedWithCurrentInterval
  NoSleepWhileStopping
  StoppedIsQuiet
PROPERTIES
  ImplementsSession
  StopReturns
  LoopKeepsChecking
