SPECIFICATION Spec
CONSTANTS
  u1 = u1
  u2 = u2
  p1 = p1
  p2 = p2
  c1 = c1
  c2 = c2
  r1 = r1
  r2 = r2
  k1 = k1
  User = {u1, u2}
  Password = {p1, p2}
  NoPassword = NoPassword
  Cookie = {c1, c2}
  Token = {k1}
  Request = {r1, r2}
  Limit = 2
  LockTime = 2
  SessionTime = 1
  MaxTime = 2
SYMMETRY Symmetry
INVARIANTS TypeOK FailuresAreBounded SessionsFollowPassword
PROPERTIES LockRunsItsTime
