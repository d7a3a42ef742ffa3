SPECIFICATION TeamSpec
CONSTANTS
  u1 = u1
  u2 = u2
  a1 = a1
  a2 = a2
  a3 = a3
  c1 = c1
  c2 = c2
  NoUser = NoUser
  User = {u1, u2}
  Account = {a1, a2, a3}
  Client = {c1, c2}
  MaxComments = 2
  MaxActivity = 4
INVARIANTS TimelineReplays OwnerRemains
PROPERTIES TombstonesAreFinal ModerationIsCurrent PeersAreSafe
SYMMETRY Symmetry
