SPECIFICATION FairSupervisorSpec
CONSTANTS
  Pids <- TwoPids
  NoOwner = NoOwner
  ProbeAttempts = 2
  RestartBudget = 2
  MaxFaults = 3
CHECK_DEADLOCK FALSE
INVARIANTS SupervisorTypeOK OneOwner OwnerOutlivesRoles SettledMeansReaped
PROPERTIES ShutdownEnds LostChildReplaced
