SPECIFICATION FairSpec
CONSTANTS
  e1 = e1
  e2 = e2
  e3 = e3
  t1 = t1
  t2 = t2
  Event = {e1, e2}
  Caller = {t1, t2}
  Sender = Sender
  Nobody = Nobody
  Size <- SizeAlike
  MaxBytes = 1
  QueueCap = 2
  MaxStamp = 2
  Shared = FALSE
  Monotonic = FALSE
  Faulty = FALSE
  MaxCrashes = 0
PROPERTIES CapturesSettle ShutdownReturns
CHECK_DEADLOCK FALSE
