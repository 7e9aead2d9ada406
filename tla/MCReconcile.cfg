\* One attempt in a pass, and an older one that can fill it: because the
\* gateway says nothing of it, or because a late answer makes it PENDING again.
CONSTANTS
  Attempts = 2
  max_count = 1
SPECIFICATION FairSpec
PROPERTY ReachedIsResolved
CHECK_DEADLOCK FALSE
