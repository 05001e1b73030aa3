SPECIFICATION CommandSpec
CONSTANTS
  c1 = c1
  c2 = c2
  main = main
  Someone = Someone
  Clients = {c1, c2}
  Branches = {main}
  Main = main
  Branch <- SameBranch
  Mode <- TailAndCancel
  MayTimeOut = TRUE
  MaxFaults = 1
  MaxEdits = 1
  MaxBuilds = 2
  MaxOld = 0
  MaxPurges = 1
  MaxOthers = 0
PROPERTIES ImplementsBuildTrigger EveryCommandEnds
