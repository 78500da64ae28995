CONSTANTS
  Session = {s1}
  Conn = {c1}
  Worker = {w1}
  Tofu = {t1}
  ConnectionLimit <- LimitOne
  MaxVersion = 2
  Null = Null
SPECIFICATION FairSpec
PROPERTIES DocEndedSessionIsTerminated
