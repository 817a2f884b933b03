SPECIFICATION Spec
CONSTANTS
  Jobs = {old1}
  LegacyJobs = {old1}
  MaxRows = 2
  OldRows = 1
  Workers = {w1, w2}
  Mortal = {w1, w2}
  BatchSize = 2
  Linked = {1, 2}
  MaxRetries = 1
  MaxBatch = 2
  PromptWorkers = FALSE
  NoJob = NoJob
  Nobody = Nobody
INVARIANT HandleInv
INVARIANT CompletedIsWhole
INVARIANT NeverOvercounts
SYMMETRY WorkerSymmetry
