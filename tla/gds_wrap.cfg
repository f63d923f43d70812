CONSTANTS
  ByteBits = 5
  Base = 32
  P = 32
  Q = 35
  Bias = 8
  Version = 300
  Defaults <- MCDefaults
  Documents <- LongDocuments
  Foreign <- NoFiles
  Rects <- NoFiles
  CutRounds = 0
  MaxRounds = 1
SPECIFICATION ByteSpec
CHECK_DEADLOCK FALSE
INVARIANT WholeReads
