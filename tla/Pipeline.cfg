SPECIFICATION SmallSpec
CONSTANTS
  e1 = e1
  e2 = e2
  c1 = c1
  c2 = c2
  i1 = i1
  Event = {e1, e2}
  Size <- SizeAlike
  MaxBytes = 1
  QueueCap = 1
  Caller = {t1}
  Sender = Sender
  Nobody = Nobody
  Shared = FALSE
  Monotonic = TRUE
  Faulty = FALSE
  MaxStamp = 2
  MaxCrashes = 1
  Issue = {i1}
  IssueOf <- OneIssue
  a1 = a1
  b1 = b1
  a2 = a2
  Body = {a1, b1, a2}
  Captured <- AsCaptured
  Reread <- AsReread
  Client = {c1, c2}
  NoLink = NoLink
  Key = {k}
  AppKey = k
  MaxStatusLog <- SmallStatusLog
SYMMETRY Symmetry
INVARIANTS EndToEnd
PROPERTIES ImplementsCollection
