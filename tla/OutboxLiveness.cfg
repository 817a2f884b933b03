SPECIFICATION FairSpec
CONSTANTS
  Jobs = {j1}
  MaxEvents = 2
  Publishers = {p1, p2}
  Mortal = {}
  BatchSize = 2
  MaxAttempts = 2
  MaxCopies = 1
  LostResponses = TRUE
  PromptPublishers = TRUE
  Nobody = Nobody
  NoJob = NoJob
PROPERTY EventsSettle
PROPERTY KeepsPromise
