SPECIFICATION Spec
CONSTANTS
  a = a
  b = b
  Names = {a, b}
  Namespaces = {"mine", "theirs"}
  Current = "mine"
  AllOfThem = ""
  NoName = NoName
  None = None
  Items <- SharedNames
  InCluster = FALSE
  MaxFaults = 1
  MaxEdits = 2
INVARIANTS TypeOK SteadyServersFound BatchNeverGuesses TailMovesOnlyIfReplaced
