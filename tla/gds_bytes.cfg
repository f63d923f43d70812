CONSTANTS
  ByteBits = 5
  Base = 32
  P = 32
  Q = 35
  Bias = 8
  Version = 300
  Defaults <- MCDefaults
  Documents <- NewDocuments
  Foreign <- MCForeign
  Rects <- MCRects
  CutRounds = 1
  MaxRounds = 4
SPECIFICATION ByteSpec
CHECK_DEADLOCK FALSE
INVARIANTS FramedExactly CutRefused OverflowShows EncodingExact
PROPERTIES RewritesSettle CallsEnd
