CONSTANTS
  Requests = {r1, r2}
  Cron = cron
  MaxAttempts = 2
SPECIFICATION Spec
SYMMETRY RequestSymmetry
INVARIANTS SuccessIsFunded ExpiredIsSuperseded
PROPERTY OrderKeepsPromise
CHECK_DEADLOCK FALSE
