CONSTANTS
  ContinueBit = 8
  MaxVarint = 2
  FixedWidth <- MCFixedWidth
  Inputs = {}
  Messages <- MCMessages
  Oneofs <- MCOneofs
  Roots = {"leaf", "tree"}
  Restrictions = {0, 1, 2, 3}
  TagLimit = 4
  RecursionLimit = 1
  MessageValues <- Written
  RawEncodedLen <- MCRawEncodedLen
  RawEncode <- MCRawEncode
  RawPrepend <- MCRawPrepend
  Sessions <- MCSessions
SPECIFICATION ApiSpec
INVARIANTS
  NeverHalfDecoded
  CallsAgree
  EncodesWhole
  StreamsInOrder
