CONSTANTS
  ContinueBit = 8
  MaxVarint = 4
  FixedWidth <- MCFixedWidth
  Values <- MCValues
  RawBytes <- MCRaw
  TrailingBytes <- MCSuffixes
SPECIFICATION CodecSpec
CHECK_DEADLOCK FALSE
INVARIANTS
  ReadsAsWhole
  Bijective
