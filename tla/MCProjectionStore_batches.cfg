SPECIFICATION StoreSpec
CONSTANTS
  a = a
  b = b
  r1 = r1
  w1 = w1
  w2 = w2
  w3 = w3
  root = root
  callback = callback
  c1 = c1
  c2 = c2
  job = job
  Sources = {a, b}
  Rules = {r1}
  RuleJobs = {job}
  Waves = {w1, w2}
  Callbacks = {callback}
  Roots = {root}
  Children = {c1, c2}
  Unscoped = Unscoped
  NoJob = NoJob
  MaxRevision <- FirstAgain
SYMMETRY Symmetric
CONSTRAINT OneBatch
CHECK_DEADLOCK FALSE
INVARIANTS
  StoreTypeOK
  NothingForgotten
  ResolvedMeansRecovered
  BatchRecovery
PROPERTIES
  NoResultDuringBatch
