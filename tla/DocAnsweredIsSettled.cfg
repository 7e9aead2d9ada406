CONSTANTS
  Sellers = {s1, s2}
  MaxCalls = 2
SPECIFICATION Spec
INVARIANT AnsweredIsSettled
CHECK_DEADLOCK FALSE
