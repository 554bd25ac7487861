CONSTANTS
  t1 = t1
  t2 = t2
  Transfers = {t1, t2}
  Timeouts <- MCTimeouts
  MaxNow = 3
  MaxSubmits = 3
  None = None
SPECIFICATION TransferFairSpec
INVARIANTS TransferTypeOK TimerCovers FreeWhenAnswered
PROPERTIES RequestSpec AnswerComes
