CONSTANTS
  t1 = t1
  t2 = t2
  Callers = {t1, t2}
  Shared = shared
  Failure = Failure
  Asks <- MCAsks
  MaxRequests = 1
  Endpoints = {"e1", "e2"}
  Addresses = {1, 2}
  Counts = {0, 1}
  MaxVersion = 1
  MaxUnread = 2
  PipeCapacity = 1
  MaxOutput = 1
SPECIFICATION Spec
CHECK_DEADLOCK FALSE
INVARIANTS
  LiveReadsAreOwn
  ChildIsSupervised
PROPERTIES
  AnsweredOnce
  CallsEnd
