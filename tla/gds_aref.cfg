CONSTANTS
  Stems = {"a", "b"}
  Values = {0, 1}
  Streams <- ArrayDocuments
  MaxRecords = 0
  MaxPayloadRecords = 0
  MaxElements = 2
SPECIFICATION Spec
CHECK_DEADLOCK FALSE
INVARIANT UnknownRecordsSkipped
