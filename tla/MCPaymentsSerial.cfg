\* One request at a time, and none is cut short.
CONSTANTS
  Requests = {r1}
  Cron = cron
  MaxAttempts = 2
SPECIFICATION SpecSerial
INVARIANTS
  SettledRowSettlesOrder
  OnePendingAttempt
PROPERTY LostWebhookIsMadeUpFor
CHECK_DEADLOCK FALSE
