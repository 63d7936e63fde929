SPECIFICATION Spec
CONSTANTS
  n1 = n1
  n2 = n2
  f1 = f1
  f2 = f2
  p1 = p1
  Nodes <- TwoNodes
  Facts <- TwoFacts
  Papers <- OnePaper
  PaperOf <- AllOfP1
  Cites <- Citations
  DatasetFacts <- FirstFact
  Derivations <- FewDerivations
  CallBudget = 3
  MaxRuns = 3
  MaxElsewhere = 3
  MaxFailures = 1
INVARIANTS
  NoPartialPlanOnError
CHECK_DEADLOCK FALSE
