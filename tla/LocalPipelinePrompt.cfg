SPECIFICATION Spec
CONSTANTS
  Jobs = {j1, j2}
  LegacyJobs = {}
  MaxRows = 2
  OldRows = 0
  Workers = {w1, w2}
  Mortal = {w1, w2}
  BatchSize = 1
  Linked = {1}
  MaxRetries = 2
  MaxBatch = 1
  PromptWorkers = TRUE
  NoJob = NoJob
  Nobody = Nobody
INVARIANT UnfinishedHasMessage
INVARIANT AckedMeansSettled
INVARIANT OneRowPerJob
INVARIANT EmptyMeansSettled
PROPERTY StatusFollowsTable
PROPERTY ReplayableUntilReplayed
SYMMETRY WorkerSymmetry
