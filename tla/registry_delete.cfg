SPECIFICATION Spec
CONSTANTS
  c1 = c1
  c2 = c2
  c3 = c3
  c4 = c4
  Clients = {c1, c2}
  Op <- AddAndDelete
  Name <- SameName
  Batch <- InBatch
  Names <- MCNames
  ValidName <- MCValidName
  NoName = NoName
  Nobody = Nobody
  Extras = {none, labels}
  NoExtra = none
  MaxFaults = 0
  MaxEdits = 0
PROPERTIES AddedNameIsDeletable
