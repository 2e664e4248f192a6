SPECIFICATION WavesSpec
CONSTANTS
  Sources = {a}
  Rules = {r1, r2}
  RuleJobs = {j1, j2, j3}
  Waves = {w1, w2}
  Callbacks = {callback}
  Roots = {}
  Children = {c1}
  Unscoped = Unscoped
  NoJob = NoJob
  MaxRevision <- Once
  Triggers <- FirstTriggered
  Edges <- Chain
  MaxRuns <- NoRetry
  MaxFaults = 1
  a = a
  b = b
  r1 = r1
  r2 = r2
  w1 = w1
  w2 = w2
  w3 = w3
  callback = callback
  j1 = j1
  j2 = j2
  j3 = j3
  j4 = j4
  c1 = c1
CHECK_DEADLOCK FALSE
INVARIANTS IncidentWillResolve RulesInOrder CompleteMeansDerived
PROPERTIES DrivesStore
