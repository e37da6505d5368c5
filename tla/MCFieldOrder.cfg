CONSTANTS
  Declarations <- MCDeclarations
  MaxTag <- MCMaxTag
  RangeLimit = 6
  ShortDelta = 4
SPECIFICATION Spec
CHECK_DEADLOCK FALSE
INVARIANTS
  AcceptsExactly
  EncodesAscending
  MeasuresKeys
  DerivedDecodes
