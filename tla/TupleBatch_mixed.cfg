CONSTANTS
  Tuples = {1, 2, 3, 4, 5, 6}
  Keys = {1, 2, 3}
  KeyOf <- MCKeyOf
  Decisions <- MCMixed
SPECIFICATION Spec
CHECK_DEADLOCK FALSE
INVARIANTS TypeOK EachOnce
