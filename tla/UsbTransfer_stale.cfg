CONSTANTS
  t1 = t1
  t2 = t2
  Transfers = {t1}
  Timeouts <- MCOneTimeouts
  MaxNow = 3
  MaxSubmits = 2
  None = None
SPECIFICATION ChangingSpec
PROPERTY NoTimeoutIsNoTimeout
CHECK_DEADLOCK FALSE
