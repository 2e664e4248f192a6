SPECIFICATION FairWorkerSpec
CONSTANTS
  j1 = j1
  j2 = j2
  s1 = s1
  s2 = s2
  p1 = p1
  p2 = p2
  p3 = p3
  NoKey = NoKey
  Jobs <- TwoJobs
  Slots <- OneSlot
  Procs <- OneProc
  SlotOf <- OwnSlots
  Concurrency = 2
  MaxThrows = 1
  Executable <- MCExecutable
  TypeOf <- MCTypeOf
  KeyOf <- NoKeys
  StrategyOf <- OneReplaces
  Priority <- SamePriority
  Delay <- NoDelay
  MaxRetries <- RetryOnce
  Backoff <- NoBackoff
  LeaseDuration = 1
  SessionTimeout = 1
  Lag = 0
  MaxTime = 1
  MaxProgress = 0
  MaxFailing = 2
  MaxSessions = 3
CHECK_DEADLOCK FALSE
INVARIANTS NoStrandedClaim
PROPERTIES EveryJobSettles
