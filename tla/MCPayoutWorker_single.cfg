\* One worker process and two blocks in one tick; one crash, one call that throws, one reorg.
SPECIFICATION FairSpec
CONSTANTS
  b1 = b1
  b2 = b2
  m1 = m1
  m2 = m2
  m3 = m3
  w1 = w1
  w2 = w2
  Workers = {w1}
  Blocks = {b1, b2}
  Members = {m1, m2, m3}
  Direct <- SecondDirect
  Dust <- TwoDust
  Departed = {}
  Concurrency = 2
  PageSize = 2
  MaxCrashes = 1
  MaxErrors = 1
  MaxReorgs = 1
INVARIANTS
  TypeOK
  PaidIsBacked
  NothingBeforeMaturity
  OneReceiptPerRow
  FannedOutMeansPaid
PROPERTIES
  StatusMovesForward
  SettledUnlessStranded
  InFlightResolves
  BuriedIsNoticed
