\* Two worker processes, as in a rolling restart, that may crash.
SPECIFICATION Spec
CONSTANTS
  b1 = b1
  b2 = b2
  m1 = m1
  m2 = m2
  m3 = m3
  w1 = w1
  w2 = w2
  Workers = {w1, w2}
  Blocks = {b1}
  Members = {m1, m2, m3}
  Direct <- OneDirect
  Dust <- TwoDust
  Departed = {}
  Concurrency = 1
  PageSize = 1
  MaxCrashes = 1
  MaxErrors = 0
  MaxReorgs = 0
INVARIANTS
  AtMostOnePayment
PROPERTIES
  KeepsLedger
