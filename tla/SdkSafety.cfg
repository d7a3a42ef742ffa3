SPECIFICATION Spec
CONSTANTS
  e1 = e1
  e2 = e2
  e3 = e3
  t1 = t1
  t2 = t2
  Event = {e1, e2, e3}
  Caller = {t1, t2}
  Sender = Sender
  Nobody = Nobody
  Size <- SizeOf
  MaxBytes = 3
  QueueCap = 1
  MaxStamp = 3
  Shared = TRUE
  Monotonic = TRUE
  Faulty = TRUE
  MaxCrashes = 1
INVARIANTS NothingVanishes FlushCovers WaitersSeeItDone
PROPERTIES SpilledIsSafe StoreKeepsBound
SYMMETRY Symmetry
