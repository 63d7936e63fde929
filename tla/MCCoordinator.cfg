CONSTANTS
  MaxId = 2
  StepBudget = 2
  MaxCrashes = 2
  MaxExtra = 1
SPECIFICATION FairSpec
INVARIANTS AttemptsBounded CursorTracksTree RefsLostOnlyToDeaths RunningCostDeaths
PROPERTIES ImplementsJournal RunCompletes
