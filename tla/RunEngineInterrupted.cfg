SPECIFICATION FairSpec
CONSTANTS
  t1 = t1
  t2 = t2
  t3 = t3
  Tasks = {t1}
  Deps <- NoDeps
  NoAttempt = NoAttempt
  MaxConcurrent = 1
  MaxAttempts = 1
  MaxSequence = 1
  MaxCrashes = 1
  HistoryFailures = FALSE
CHECK_DEADLOCK FALSE
PROPERTIES
  NoSilentHang
