SPECIFICATION Spec
CONSTANTS
  c1 = c1
  c2 = c2
  Someone = Someone
  Clients = {c1, c2}
  Mode <- TailAndCancel
  MayTimeOut = TRUE
  MaxBuilds = 3
  MaxOld = 1
  MaxFaults = 1
  MaxPurges = 2
  MaxOthers = 1
INVARIANTS TypeOK NewBuildReported RequestNotLost WaitsOnlyWhileQueued OneBuildPerCommand TailOkMeansSuccess OnlyTargetsStop CancelOkMeansStoppedOrNewer
