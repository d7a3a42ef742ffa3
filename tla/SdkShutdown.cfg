SPECIFICATION Spec
CONSTANTS
  e1 = e1
  e2 = e2
  e3 = e3
  t1 = t1
  t2 = t2
  Event = {e1, e2, e3}
  Caller = {t1, t2}
  Sender = Sender
  Nobody = Nobody
  Size <- SizeOf
  MaxBytes = 3
  QueueCap = 2
  MaxStamp = 3
  Shared = TRUE
  Monotonic = TRUE
  Faulty = FALSE
  MaxCrashes = 0
INVARIANTS ShutdownWaits
