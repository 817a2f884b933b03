SPECIFICATION Spec
CONSTANTS
  Jobs = {j1}
  MaxCycles = 1
  MaxMessages = 2
  OldMessages = 1
  Workers = {w1}
  Indexers = {i1, i2}
  Unreliable = {w1, i1}
  MaxRetries = 1
  MaxReceives = 2
  MaxBatch = 2
  Outages = TRUE
  Orderly = TRUE
  NoJob = NoJob
  Nobody = Nobody
INVARIANTS NoJobForgotten MalformedIsKept
