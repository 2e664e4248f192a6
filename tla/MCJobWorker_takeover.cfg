SPECIFICATION WatchedWorkerSpec
CONSTANTS
  j1 = j1
  j2 = j2
  s1 = s1
  s2 = s2
  p1 = p1
  p2 = p2
  p3 = p3
  NoKey = NoKey
  Jobs <- OneJob
  Slots <- TwoSlots
  Procs <- ThreeProcs
  SlotOf <- SharedSlot
  Concurrency = 1
  MaxThrows = 1
  Executable <- MCExecutable
  TypeOf <- MCTypeOf
  KeyOf <- NoKeys
  StrategyOf <- AllInserted
  Priority <- SamePriority
  Delay <- NoDelay
  MaxRetries <- RetryOnce
  Backoff <- OneTick
  LeaseDuration = 1
  SessionTimeout = 1
  Lag = 0
  MaxTime = 3
  MaxProgress = 1
  MaxFailing = 2
  MaxSessions = 2
CHECK_DEADLOCK FALSE
INVARIANTS OneOutcome StoppedHoldsNoJob
PROPERTIES DrivesQueue LostAttemptNoticed
