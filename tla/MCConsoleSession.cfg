SPECIFICATION Spec
CONSTANTS
  Addresses = {1, 2}
  Batches <- MCBatches
  Images <- MCImages
  Faults = {"death", "load", "file", "query", "disk"}
  Leftover = {1}
  MaxRequests = 5
INVARIANTS
  InStep
  ImagesAreKept
PROPERTIES
  FlowAnswers
  RequestEnds
