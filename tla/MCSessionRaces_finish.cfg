CONSTANTS
  s1 = s1
  a2 = a2
  Session = {s1, s2}
  Tofu = {"t1"}
  Null = Null
  Activator = {a1}
  Canceler = {k1}
  UserDeleter = {}
  HostDeleter = {}
  Authorizer = {}
  Ticker = {z1, z2}
  On <- OnFirst
  Token <- TokenOf
  ConnectionLimit <- Unlimited
SPECIFICATION FairSpec
PROPERTIES TransactionsFinish
CHECK_DEADLOCK FALSE
