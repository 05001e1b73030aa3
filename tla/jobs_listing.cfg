SPECIFICATION Spec
CONSTANTS
  Names <- MCNames
  Paths <- MCPaths
  Matching <- Rep
  MaxFaults = 1
  MaxEdits = 2
INVARIANTS TypeOK SteadyPipelinesFound ListedWerePipelines ReadOnce
PROPERTIES WalkEnds
