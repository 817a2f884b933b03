SPECIFICATION Spec
CONSTANTS
  Jobs = {j1}
  MaxEvents = 3
  Publishers = {p1, p2}
  Mortal = {p1, p2}
  BatchSize = 2
  MaxAttempts = 1
  MaxCopies = 1
  LostResponses = TRUE
  PromptPublishers = TRUE
  Nobody = Nobody
  NoJob = NoJob
INVARIANT TypeOK
INVARIANT QueuedIsDue
INVARIANT DeadLetterIsRecoverable
INVARIANT PendingReplayHasEvent
PROPERTY SettledIsFinal
SYMMETRY Symmetry
