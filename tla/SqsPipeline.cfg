SPECIFICATION FairSpec
CONSTANTS
  Jobs = {j1}
  MaxCycles = 2
  MaxMessages = 3
  OldMessages = 0
  Workers = {w1, w2}
  Indexers = {i1}
  Unreliable = {w1, w2}
  MaxRetries = 2
  MaxReceives = 2
  MaxBatch = 1
  Outages = FALSE
  Orderly = TRUE
  NoJob = NoJob
  Nobody = Nobody
INVARIANTS NoJobForgotten InDlqIsReplayable
PROPERTIES JobsEnd MessagesDrain
