\* Two connections of which one belongs to a den with its own node.
SPECIFICATION Spec
CONSTANTS
  c1 = c1
  c2 = c2
  d1 = d1
  Conns = {c1, c2}
  DenConns = {c2}
  Dens = {d1}
  DenOf <- C2InDen
  OperatorDens = {d1}
  Lifetime = 1
  SlowNode = TRUE
  MaxTip = 2
  MaxTime = 2
  MaxTemplates = 3
  MaxChecks = 1
INVARIANTS
  TypeOK
  NewestWorkIsAccepted
  JobOutlivesTemplateOnlyByAge
PROPERTIES
  WorkIsTakenOnlyByBlock
CHECK_DEADLOCK FALSE
