CONSTANTS
  c1 = c1
  t1 = t1
  c2 = c2
  t2 = t2
  Conn = {c1, c2}
  Sess = {o1}
  Token = {t1}
  TofuToken <- OneToken
  Visitor = {c2}
  AnyCommand = {}
  Null = Null
SPECIFICATION FairSpec
PROPERTIES EndedSessionIsCut UnreachableWorkerCuts CanceledIsTerminated
