SPECIFICATION Spec
CONSTANTS
  c1 = c1
  c2 = c2
  c3 = c3
  Clients = {c1, c2, c3}
  Nobody = Nobody
  Names <- MCNames
  Paths <- MCPaths
  JenkinsPath <- NestedBranches
  MaxFaults = 1
  MaxEdits = 1
INVARIANTS TypeOK RequestsBounded LoserHasWinner SomeoneSucceeds SegmentsEnsured OwnFootprint
PROPERTIES EveryCallCounts EveryCommandEnds
