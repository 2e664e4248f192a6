SPECIFICATION SupervisorSpec
CONSTANTS
  Pids <- TwoPids
  NoOwner = NoOwner
  ProbeAttempts = 2
  RestartBudget = 2
  MaxFaults = 2
CHECK_DEADLOCK FALSE
INVARIANTS BlamelessOwnerSpared
