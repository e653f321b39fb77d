\* Calls on two pools, with commits, crashes, wedges and deadlines.
SPECIFICATION FairSpec
CONSTANTS
  p1 = p1  p2 = p2
  NoPool = NoPool
  NoChild = NoChild
  Configs = {p1, p2}
  ReadOrder <- MCReadOrder
  MaxJobs = 2
  MaxCalls = 3
  MaxChildren = 3
  MaxRevision = 2
INVARIANTS
  OneChild
  PoisonedNeverReused
  JobsAccounted
  StampCoversFacts
PROPERTIES
  WatchdogKeepsToItsOp
  GuardedOpEnds
CHECK_DEADLOCK FALSE
