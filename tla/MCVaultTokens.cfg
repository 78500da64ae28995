CONSTANTS
  s1 = s1
  Token = {t1, t2}
  Cred = {c1}
  Sess = {s1}
  SessionOf <- OneSession
  Limit = 1
  MaxVersion = 2
  MaxEvents = 2
  MaxRunning = 2
  Null = Null
SPECIFICATION Spec
SYMMETRY Symmetry
CONSTRAINT RaceBeforeSecondEvent
INVARIANTS FinalMeansDead NoTokenForgotten ActiveTokenKept AliveIsDue
PROPERTIES FinalIsFinal
CHECK_DEADLOCK FALSE
