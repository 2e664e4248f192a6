SPECIFICATION FairChecks
CONSTANTS
  a1 = a1
  Alerts = {a1}
  Jobs = {1, 2}
  Bodies = {1, 2}
  NoBody = 0
  NoAlert = NoAlert
  NoJob = 0
  MaxRetries = 1
  MaxOccurrences = 2
  MaxFaults = 2
CHECK_DEADLOCK FALSE
INVARIANTS
  ChecksTypeOK
  DeliveredOnce
  HandledBeforeSuccess
PROPERTIES
  ResolvedInOneProcess
  MissedTimeMadeUp
