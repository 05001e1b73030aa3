SPECIFICATION ServedSpec
CONSTANTS
  c1 = c1
  c2 = c2
  main = main
  fix = fix
  Clients = {c1, c2}
  Branches = {main, fix}
  Branch <- TwoBranches
  MayTimeOut = TRUE
  MaxFaults = 1
  MaxEdits = 2
INVARIANTS TypeOK ScanNotLost
PROPERTIES OwedJobComes SteadyBranchFound
