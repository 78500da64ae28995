CONSTANTS
  Request = {r1}
  Callback = {b1}
  Account = {a1}
  User = {u1}
  Group = {g1, g2}
  Filter = {f1}
  MaxChanges = 1
  Null = Null
SPECIFICATION Spec
PROPERTIES DocMembershipsSet
CHECK_DEADLOCK FALSE
