CONSTANTS
  Requests = {r1, r2}
  MaxCodes = 2
  MAX_VERIFY_ATTEMPTS = 2
  Tokens = {t1, t2, t3}
  NoToken = none
  MaxPassword = 1
SPECIFICATION MCSpec
SYMMETRY AccountSymmetry
INVARIANTS
  ClosedCodesStayDead
  UndisturbedCodeIsSingleUse
  LogoutEndsSession
  OneTokenPerLogin
  UndoneOnlyByStraddlingWrite
CHECK_DEADLOCK FALSE
