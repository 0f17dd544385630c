\* One connection, an interval longer than the grace window.
SPECIFICATION Spec
CONSTANTS
  d1 = d1
  n1 = n1
  n2 = n2
  t1 = t1
  u1 = u1
  t2 = t2
  Names <- SomeNames
  NoDen = NoDen
  Levels = {1, 2}
  Default = 2
  Cpuminer = 1
  Texts = {t1, u1, t2}
  Parsed <- ParsedOf
  Nonces = {n1, n2}
  Proof <- ProofOf
  Grace = 1
  CheckEvery = 2
  MaxMessages = 3
  MaxCalls = 1
  MaxJobs = 2
PROPERTIES
  InFlightSurvives
CHECK_DEADLOCK FALSE
