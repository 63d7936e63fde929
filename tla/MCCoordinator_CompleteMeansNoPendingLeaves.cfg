CONSTANTS
  MaxId = 2
  StepBudget = 1
  MaxCrashes = 1
  MaxExtra = 0
SPECIFICATION Spec
INVARIANT CompleteMeansNoPendingLeaves
