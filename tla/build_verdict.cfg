SPECIFICATION Spec
CONSTANTS
  c1 = c1
  c2 = c2
  Someone = Someone
  Clients = {c1, c2}
  Mode <- TailAndCancel
  MayTimeOut = FALSE
  MaxBuilds = 3
  MaxOld = 1
  MaxFaults = 1
  MaxPurges = 0
  MaxOthers = 0
INVARIANTS VerdictOnlyOnFinishedBuild
