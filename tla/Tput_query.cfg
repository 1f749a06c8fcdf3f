CONSTANTS
  Sources = {s1, s2}
  Items = {a, b, c}
  MaxVal = 2
  K = 1
  Leavers = {s1}
SPECIFICATION FairSpec
CHECK_DEADLOCK FALSE
INVARIANTS TypeOK ExactTotals InStep AnswerSize
PROPERTIES Completes EndsUnlessBusy
