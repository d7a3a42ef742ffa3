SPECIFICATION Spec
CONSTANTS
  x1 = x1
  x2 = x2
  y = y
  old = old
  c1 = c1
  c2 = c2
  k1 = k1
  Body = {x1, x2, y, old}
  Id = {"x", "y", "o"}
  Issue = {"f", "g"}
  Tag = {"s", "t"}
  EventId <- SmallEventId
  Fingerprint <- SmallFingerprint
  Labels <- SmallLabels
  Legacy = {old}
  MaxTags = 1
  Key = {k1}
  Client = {c1, c2}
  MaxStatusLog <- SmallStatusLog
  MaxTagLog <- SmallTagLog
SYMMETRY Symmetry
INVARIANTS TypeOK StatusHistoryReplays CountsMatchEvents NoticesMatchTransitions TagsStayWithinLimit
PROPERTIES TagEditsAreRecorded
CHECK_DEADLOCK FALSE
