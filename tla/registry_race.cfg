SPECIFICATION Spec
CONSTANTS
  c1 = c1
  c2 = c2
  c3 = c3
  c4 = c4
  Clients = {c1, c2, c3, c4}
  Op <- AddsAndDeletes
  Name <- RaceNames
  Batch <- InBatch
  Names <- MCNames
  ValidName <- MCValidName
  NoName = NoName
  Nobody = Nobody
  Extras = {none, labels}
  NoExtra = none
  MaxFaults = 1
  MaxEdits = 1
INVARIANTS TypeOK NoResurrection ConflictHasWinner OneCreator
PROPERTIES KeepsPromise AddedCanBeDeleted
