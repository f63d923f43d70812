CONSTANTS
  MaxCount = 1
  MaxGates = 3
  Vectors <- SmallVectors
  Certs <- ShortCerts
SPECIFICATION CandidateSpec
CHECK_DEADLOCK FALSE
INVARIANTS Ranking Acceptance
