\* One connection, every order of four messages.
SPECIFICATION Spec
CONSTANTS
  d1 = d1
  n1 = n1
  n2 = n2
  t1 = t1
  u1 = u1
  t2 = t2
  Names <- SomeNames
  NoDen = NoDen
  Levels = {1, 2}
  Default = 2
  Cpuminer = 1
  Texts = {t1, u1, t2}
  Parsed <- ParsedOf
  Nonces = {n1, n2}
  Proof <- ProofOf
  Grace = 0
  CheckEvery = 1
  MaxMessages = 4
  MaxCalls = 1
  MaxJobs = 2
SYMMETRY Spellings
INVARIANTS
  TypeOK
  DifficultyIsKnown
  CreditedOnce
  WorksForItsDen
  SubscribedOnceAndReleased
PROPERTIES
  CreditIsHonest
  LiveTargetCounts
CHECK_DEADLOCK FALSE
