CONSTANTS
  c1 = c1
  c2 = c2
  h1 = h1
  h2 = h2
  h3 = h3
  r1 = r1
  r2 = r2
  Cards <- OneCard
  Hyps <- TwoHyps
  CardOf <- AllOfC1
  Regions <- TwoRegions
  MaxRounds = 3
  MaxCards = 1
  MaxCandidates = 2
  EscalateAt = 2
  Threshold = 2
  MaxRuns = 2
  MaxFailures = 2
SPECIFICATION Spec
CHECK_DEADLOCK FALSE
INVARIANT SkippedWereCritiqued
