SPECIFICATION Spec
CONSTANTS
  j1 = j1
  j2 = j2
  s1 = s1
  s2 = s2
  NoKey = NoKey
  Jobs <- TwoJobs
  Slots <- TwoSlots
  Executable <- MCExecutable
  TypeOf <- MCTypeOf
  KeyOf <- MCKeyOf
  StrategyOf <- MCStrategyOf
  Priority <- MCPriority
  Delay <- NoDelay
  MaxRetries <- RetryOnce
  Backoff <- MCBackoff
  LeaseDuration = 1
  SessionTimeout = 1
  Lag = 0
  MaxTime = 2
  MaxProgress = 0
  MaxFailing = 1
  MaxSessions = 2
CHECK_DEADLOCK FALSE
INVARIANTS TypeOK AttemptBudget CoalesceSingleActive
PROPERTIES SettledIsFinal LiveAttemptKeepsJob ImplementsLifecycle
