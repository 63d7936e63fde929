CONSTANTS
  MaxId = 16
  StepBudget = 2
  MaxCrashes = 1
  MaxExtra = 4
  NumPapers = 2
  MaxPapers = 2
  MaxFactsPerPaper = 2
  MaxFacts = 2
  MaxFailures = 2
SPECIFICATION FairMinerSpec
INVARIANTS MinerTypeOK StoreTracksTree NamedMinedOnce
PROPERTIES ImplementsCoordinator MiningCompletes
