SPECIFICATION FairSpec
CONSTANTS
  p1 = p1
  p2 = p2
  p3 = p3
  p4 = p4
  p5 = p5
  i1 = i1
  i2 = i2
  i3 = i3
  i4 = i4
  n1 = n1
  n2 = n2
  n3 = n3
  d1 = d1
  y1 = y1
  y2 = y2
  a1 = a1
  a2 = a2
  NoPaper = NoPaper
  NoId = NoId
  NoYear = NoYear
  NoDoi = NoDoi
  NumSources = 2
  Registered = {1}
  Papers <- MCPapers
  Record <- MCRecord
  NodeId <- MCNodeId
  Ids = {i1, i2, i3, i4}
  Years = {y1, y2}
  Dois = {d1}
  Surnames = {a1, a2}
  Nodes = {n1, n2, n3}
  MaxPapers = 2
  MaxFacts = 1
  MaxRetries = 1
  MaxRuns = 2
INVARIANTS
  StoredMatchRecords
  SettledForCause
PROPERTIES
  NoneLeftOut
  RunEnds
CHECK_DEADLOCK FALSE
