\* Two connections share a project: commands, undo, pages, operations.
SPECIFICATION Spec
CONSTANTS
  c1 = c1  c2 = c2
  e1 = e1  e2 = e2
  n1 = n1  n2 = n2
  t1 = t1  t2 = t2
  b1 = b1  b2 = b2
  x1 = x1
  NoRow = NoRow
  NoOp = NoOp
  Clients = {c1, c2}
  Entries = {e1, e2}
  Names = {n1, n2}
  Texts = {t1, t2}
  Bins = {b1, b2}
  Edits = {x1}
  InitBin = b1
  OpIds = {rename, comment}
  rename = rename  comment = comment
  OpKind <- MCSharedOpKind
  OpKey <- MCOpKey
  OpName <- MCOpName
  OpText <- MCOpText
  OpEdit <- MCOpEdit
  BinFunctions <- MCBinFunctions
  BinComments <- MCBinComments
  AppendedStates = {"pending"}
  Workload <- SharedCalls
  MaxRevision = 4
INVARIANTS
  CoreTypeOK
  EventsOrdered
  AppliedHadEffect
  PageIsRecent
PROPERTIES
  CommentUndoCaptures
SYMMETRY ClientSymmetry
CHECK_DEADLOCK FALSE
