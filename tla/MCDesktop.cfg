SPECIFICATION Spec
CONSTANTS
  Functions = 2
  Names = {n1, n2}
  FirstName = n1
  NoName = none
  PageSize = 1
  Threads = 2
  MaxInbox = 2
  MaxActions = 2
INVARIANTS
  OneLoad
  OwnJobsEnd
PROPERTIES
  PaneSettles
  CloseEnds
CHECK_DEADLOCK FALSE
