SPECIFICATION Spec
CONSTANTS
  a = a
  b = b
  Names = {a, b}
  Namespaces = {"mine", "theirs"}
  Current = "mine"
  AllOfThem = ""
  NoName = NoName
  None = None
  Items <- SharedNames
  InCluster = TRUE
  MaxFaults = 0
  MaxEdits = 0
INVARIANTS URLConnectsToServer
