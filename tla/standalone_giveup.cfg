SPECIFICATION Spec
CONSTANTS
  c1 = c1
  c2 = c2
  c3 = c3
  Clients = {c1, c2}
  Nobody = Nobody
  Names <- MCNames
  Paths <- MCPaths
  JenkinsPath <- SameBranch
  MaxFaults = 0
  MaxEdits = 0
INVARIANTS GivesUpOnlyOnMissing
