CONSTANTS
  Requests = {r1}
  Cron = cron
  MaxAttempts = 1
SPECIFICATION FairSpec
PROPERTY CancelledAttemptIsResolved
CHECK_DEADLOCK FALSE
