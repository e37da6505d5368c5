CONSTANTS
  ContinueBit = 8
  MaxVarint = 4
  FixedWidth <- MCFixedWidth
  Types <- MCTypes
  Samples <- MCSamples
  Raw <- MCRaw
  Trailers <- MCTrailers
  Decodings <- MCDecodings
  Hops = 2
  MaxTag = 8
SPECIFICATION Spec
CHECK_DEADLOCK FALSE
INVARIANTS
  ValuesExact
  StringsStayText
