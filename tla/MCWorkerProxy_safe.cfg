CONSTANTS
  c1 = c1
  c2 = c2
  t1 = t1
  t2 = t2
  Conn = {c1, c2}
  Sess = {o1, o2}
  Token = {t1, t2}
  TofuToken <- TwoTokens
  Visitor = {}
  AnyCommand = {c2}
  Null = Null
SPECIFICATION Spec
SYMMETRY Symmetry
CONSTRAINT ExpiryOrGrace
INVARIANTS OnlyBoundTokenProxied
PROPERTIES CutsOnlyTheEnded
