CONSTANTS
  Sources = {s1, s2}
  Items = {a, b, c}
  MaxVal = 2
  K = 1
  Leavers = {}
SPECIFICATION Spec
CHECK_DEADLOCK FALSE
INVARIANT RoundTwoComplete
