\* One part at a time: an operator, a member, one den, three shares, one tab, two invoices.
SPECIFICATION Spec
CONSTANTS
  o = o
  m = m
  t1 = t1
  i1 = i1
  i2 = i2
  Parts = {"api", "member", "operator", "split", "give"}
  Keys = {o, m}
  Op = o
  Miners = {m}
  CreateEvents <- Creates
  JoinEvents <- Joins
  Freshness = 1
  MaxNow = 1
  MaxRequests = 2
  MemberMoves = 3
  Tabs = {t1}
  OpMoves = 4
  Members = {1, 2, 3}
  Diffs = {1, 2}
  Terms <- SplitTerms
  Reward = 101
  PlatformFee = 5
  Unit = 100
  WindowSize = 2
  MaxShares = 3
  Ids = {i1, i2}
  Window = 2
  Quota = 1
  MaxClock = 2
  MaxHits = 2
  MaxPolls = 2
SYMMETRY InvoicesAlike
INVARIANTS
  TypeOK
  SplitIsExact
  SupportIsSound
PROPERTIES
  RowsStayTheirOwners
  MembershipIsRight
  CredentialsAreKept
CHECK_DEADLOCK FALSE
