CONSTANTS
  WordBytes = 2
  DefaultBase = 256
  AddressLimit = 65536
  MaxPatches = 2
  U64 = 16777216
  RawSizes = {2}
SPECIFICATION MCSpec
CHECK_DEADLOCK FALSE
INVARIANTS
  PeTailIsZero
