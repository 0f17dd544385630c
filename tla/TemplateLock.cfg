\* Two processes and two blocks; one process may crash once.
SPECIFICATION FairSpec
CONSTANTS
  Procs = {p1, p2}
  MaxTip = 2
  Crashing = {p1}
  MaxCrashes = 1
INVARIANTS
  TypeOK
  TemplatesAreCurrent
PROPERTIES
  EveryoneGetsTheTip
