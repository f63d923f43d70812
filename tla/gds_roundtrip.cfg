CONSTANTS
  Stems = {"a", "b"}
  Values = {0, 1}
  Streams <- ForeignStreams
  LibNames <- LibName
  CellNames <- MCNames
  MaxCells = 2
  MaxElements = 2
  MaxRounds = 2
SPECIFICATION RTSpec
CHECK_DEADLOCK FALSE
INVARIANTS RereadKeepsLibrary CutOnlyLoses
