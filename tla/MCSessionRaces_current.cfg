CONSTANTS
  s1 = s1
  a2 = a2
  Session = {s1}
  Tofu = {"t1", "t2"}
  Null = Null
  Activator = {a1}
  Canceler = {k1}
  UserDeleter = {}
  HostDeleter = {}
  Authorizer = {}
  Ticker = {}
  On <- OnFirst
  Token <- TokenOf
  ConnectionLimit <- Unlimited
SPECIFICATION Spec
INVARIANTS OneCurrentState
CHECK_DEADLOCK FALSE
