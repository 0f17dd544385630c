\* A payment settles while the process that asked for it is down.
SPECIFICATION Spec
CONSTANTS
  b1 = b1
  b2 = b2
  m1 = m1
  m2 = m2
  m3 = m3
  w1 = w1
  w2 = w2
  Workers = {w1}
  Blocks = {b1}
  Members = {m1, m2, m3}
  Direct <- OneDirect
  Dust <- OneDust
  Departed = {}
  Concurrency = 1
  PageSize = 1
  MaxCrashes = 1
  MaxErrors = 0
  MaxReorgs = 0
PROPERTIES
  RecoveryHonoursPayments
