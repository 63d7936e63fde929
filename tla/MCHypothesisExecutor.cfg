CONSTANTS
  c1 = c1
  c2 = c2
  h1 = h1
  h2 = h2
  h3 = h3
  r1 = r1
  r2 = r2
  Cards <- TwoCards
  Hyps <- ThreeHyps
  CardOf <- TwoAndOne
  Regions <- TwoRegions
  MaxRounds = 3
  MaxCards = 2
  MaxCandidates = 2
  EscalateAt = 2
  Threshold = 2
  MaxRuns = 2
  MaxFailures = 1
SPECIFICATION FairSpec
INVARIANTS KillsBounded AcceptancesDocumented NothingLeftOpen JudgedAreSettled ClosedHaveContracts
PROPERTIES ImplementsLifecycle RunEnds
CHECK_DEADLOCK FALSE
