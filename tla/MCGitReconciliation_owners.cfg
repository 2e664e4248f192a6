SPECIFICATION FairReconciliation
CONSTANTS
  r1 = r1
  r2 = r2
  Recoveries <- TwoReplays
  Budgets <- FewFaults
INVARIANTS
  CheckpointCovered
  ReplayBeforeMutation
  LostWorkIsReported
PROPERTIES
  AdmissionReopens
  PulledIsDelivered
