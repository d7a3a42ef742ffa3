SPECIFICATION Spec
CONSTANTS
  u1 = u1
  u2 = u2
  u3 = u3
  c1 = c1
  c2 = c2
  User = {u1, u2, u3}
  Client = {c1, c2}
PROPERTIES OnlyOwnersManageOwners
