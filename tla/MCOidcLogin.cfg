CONSTANTS
  Request = {r1}
  Callback = {b1, b2}
  Account = {a1, a2}
  User = {u1, u2, u3}
  Group = {g1}
  Filter = {f1, f2}
  MaxChanges = 1
  Null = Null
SPECIFICATION Spec
SYMMETRY Symmetry
INVARIANTS TypeOK AssociationsConsistent HeldIsIssued
PROPERTIES OnlyDisturbedFails GroupsAsMatched ReplacedOnlyByRacingLogin
CHECK_DEADLOCK FALSE
