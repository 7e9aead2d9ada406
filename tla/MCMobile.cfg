CONSTANTS
  Pairs = {p1, p2}
  None = none
  MaxFaults = 1
SPECIFICATION Spec
SYMMETRY PairSymmetry
INVARIANTS NoSpuriousSignOut SignedOutStaysEmpty NothingHangs
CHECK_DEADLOCK FALSE
