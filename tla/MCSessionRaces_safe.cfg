CONSTANTS
  s1 = s1
  a2 = a2
  Session = {s1}
  Tofu = {"t1", "t2"}
  Null = Null
  Activator = {a1, a2}
  Canceler = {k1}
  UserDeleter = {u1}
  HostDeleter = {h1}
  Authorizer = {n1}
  Ticker = {z1}
  On <- OnFirst
  Token <- TokenOf
  ConnectionLimit <- LimitOne
SPECIFICATION Spec
INVARIANTS TypeOK TofuAgreement NoActivationAfterEnd CancelNotLost SecondRowNeedsUnlocked
CHECK_DEADLOCK FALSE
