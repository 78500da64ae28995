CONSTANTS
  Session = {s1}
  Conn = {c1,c2,c3}
  Worker = {w1}
  Tofu = {t1,t2}
  ConnectionLimit <- LimitTwo
  MaxVersion = 3
  Null = Null
SPECIFICATION FairSpec
INVARIANTS TerminatedAllClosed ReasonJustified
PROPERTIES ImplementsLifecycle EndedSessionTerminates LateCredentialRevoked
