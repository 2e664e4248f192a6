SPECIFICATION ReaderSpec
CONSTANTS
  j1 = j1
  j2 = j2
  s1 = s1
  NoKey = NoKey
  Jobs <- TwoJobs
  Slots <- OneSlot
  IdOrder <- MCIdOrder
  PageSize = 1
  Executable <- MCExecutable
  TypeOf <- MCTypeOf
  KeyOf <- NoKeys
  StrategyOf <- AllInserted
  Priority <- SamePriority
  Delay <- NoDelay
  MaxRetries <- RetrySecond
  Backoff <- OneTick
  LeaseDuration = 1
  SessionTimeout = 2
  Lag = 0
  MaxTime = 2
  MaxProgress = 3
  MaxFailing = 1
  MaxSessions = 1
CHECK_DEADLOCK FALSE
INVARIANTS AnnouncedOnce NothingSkipped
