SPECIFICATION ServedCommandSpec
CONSTANTS
  c1 = c1
  c2 = c2
  main = main
  Someone = Someone
  Clients = {c1, c2}
  Branches = {main}
  Main = main
  Branch <- SameBranch
  Mode <- TwoTriggers
  MayTimeOut = FALSE
  MaxFaults = 0
  MaxEdits = 0
  MaxBuilds = 3
  MaxOld = 0
  MaxPurges = 0
  MaxOthers = 1
PROPERTIES SteadyBranchBuilt
