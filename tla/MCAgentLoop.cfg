SPECIFICATION FairSpec
CONSTANTS
  MaxTurns = 4
  MaxAttempts = 3
  NudgeLimit = 2
  CutoffLimit = 1
  Concurrency = 2
  KeepRecent = 3
  SnipKeep = 2
  Batches <- MixedBatches
  MaxNotes = 1
  MaxSplices = 2
INVARIANTS
  EndsOnUser
  TaskRemembered
  PairsKept
  NewResultsWhole
  WritesRunAlone
PROPERTIES
  NewestKept
  RunEnds
CHECK_DEADLOCK FALSE
