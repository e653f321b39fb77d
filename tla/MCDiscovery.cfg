SPECIFICATION Spec
CONSTANTS
  Programs <- MCPrograms
  ChunkSize = 2
  MaxHops = 8
  ProbeLength = 1
  MaxRepeat = 2
  WalkLimit = 8
INVARIANTS
  OwnersEnd
  OwnersAreJoined
  ReachIsWalked
  BodiesCover
  PossibleStartsSettle
  ContextsAgree
PROPERTIES
  DiscoveryAdvances
