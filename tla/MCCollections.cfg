CONSTANTS
  Types <- MCTypes
  Inputs <- MCInputs
  Restrictions = {0, 1, 2, 3}
SPECIFICATION Spec
CHECK_DEADLOCK FALSE
INVARIANTS
  RespectsMinimum
  AcceptsExactly
