SPECIFICATION Spec
CONSTANTS
  Addresses = {1, 2}
  Batches <- MCSplitBatches
  Images <- MCSplitImages
  Faults = {}
  Leftover = {}
  MaxRequests = 3
PROPERTIES
  RequestEnds
CHECK_DEADLOCK FALSE
