CONSTANTS
  ContinueBit = 8
  MaxVarint = 2
  FixedWidth <- MCFixedWidth
  Inputs <- MCInputs
  Messages <- MCMessages
  Oneofs <- MCOneofs
  Roots = {"leaf", "tree", "grove", "mixed", "choice"}
  Restrictions = {0, 1, 2, 3}
  TagLimit = 4
  RecursionLimit = 1
SPECIFICATION Spec
INVARIANTS
  ReadsInBounds
  RespectsMinimum
  DepthAccounted
  AcceptsMessages
  SetsOnce
  CanonicalIsEncoding
  EncodersAgree
  OpaqueReencodes
