\* A second block soon after the first.
SPECIFICATION Spec
CONSTANTS
  c1 = c1
  c2 = c2
  d1 = d1
  Conns = {c1}
  DenConns = {}
  Dens = {d1}
  DenOf <- NoDens
  OperatorDens = {}
  Lifetime = 2
  SlowNode = FALSE
  MaxTip = 3
  MaxTime = 2
  MaxTemplates = 5
  MaxChecks = 0
INVARIANTS
  OldWorkIsRemoved
CHECK_DEADLOCK FALSE
