CONSTANTS
  Stems = {"a", "b"}
  Values = {0, 1}
  Streams <- MCStreams
  MaxRecords = 6
  MaxPayloadRecords = 3
  MaxElements = 0
SPECIFICATION Spec
CHECK_DEADLOCK FALSE
INVARIANTS TypeOK IndexMatchesCells ElementsCounted StructuresHoldTheirElements
  OutcomeJustified
