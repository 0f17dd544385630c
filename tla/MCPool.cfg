\* One part at a time: two clients, shares at a time and rigs, one den, two payments, two relays.
SPECIFICATION PoolFairSpec
CONSTANTS
  c1 = c1
  c2 = c2
  d1 = d1
  r1 = r1
  r2 = r2
  w1 = w1
  w2 = w2
  Parts = {"registry", "book", "health", "proxy", "wallet", "zap"}
  Clients = {c1, c2}
  Beat = 0
  Dead = 1
  Proofs = {1, 2}
  MaxSlots = 3
  MaxShares = 3
  MaxCalls = 2
  Dens = {d1}
  Ttl = 2
  Retry = 2
  Threshold = 2
  Miners = {r1, r2}
  Configs <- ProxyConfigs
  Lines <- DenLines
  MaxLines = 2
  Calls = {w1, w2}
  Relays = {r1, r2}
INVARIANTS
  PartsOK
  ActiveIsListed
  
  TemplateSourceIsTrue
  PassesWhatItMay
  ReportsAreTrue
PROPERTIES
  GoneIsForgotten
CHECK_DEADLOCK FALSE
