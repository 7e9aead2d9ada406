\* One attempt in a pass: an attempt that is never resolved fills the list.
CONSTANTS
  Attempts = 2
  max_count = 1
SPECIFICATION FairSpec
PROPERTY EverySettledIsResolved
CHECK_DEADLOCK FALSE
