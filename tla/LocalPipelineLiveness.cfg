SPECIFICATION FairSpec
CONSTANTS
  Jobs = {j1, j2}
  LegacyJobs = {}
  MaxRows = 3
  OldRows = 1
  Workers = {w1, w2}
  Mortal = {}
  BatchSize = 2
  Linked = {2}
  MaxRetries = 2
  MaxBatch = 0
  PromptWorkers = TRUE
  NoJob = NoJob
  Nobody = Nobody
INVARIANT TypeOK
INVARIANT DeadLetterIsReplayable
PROPERTY MessagesSettle
