\* Everyone gets work.
SPECIFICATION FairSpec
CONSTANTS
  c1 = c1
  c2 = c2
  d1 = d1
  Conns = {c1, c2}
  DenConns = {c2}
  Dens = {d1}
  DenOf <- C2InDen
  OperatorDens = {d1}
  Lifetime = 1
  SlowNode = FALSE
  MaxTip = 2
  MaxTime = 2
  MaxTemplates = 4
  MaxChecks = 0
PROPERTIES
  GetsWork
CHECK_DEADLOCK FALSE
