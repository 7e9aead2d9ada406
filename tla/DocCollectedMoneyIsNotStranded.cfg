CONSTANTS
  Requests = {r1}
  Cron = cron
  MaxAttempts = 2
SPECIFICATION FairSpec
PROPERTY CollectedMoneyIsNotStranded
CHECK_DEADLOCK FALSE
