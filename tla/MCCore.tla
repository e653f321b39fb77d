------------------------------- MODULE MCCore -------------------------------
(***************************************************************************)
(* Small instances of module Core for TLC.                                 *)
(***************************************************************************)
EXTENDS CoreUndo, TLC

CONSTANTS rename, comment, c1, c2, e1, e2, n1, n2, t1, t2, b1, b2, x1

\* The second binary has lost function e1, and its provider knows a comment.
MCBinFunctions ==
  b1 :> (e1 :> n1 @@ e2 :> NoRow) @@ b2 :> (e1 :> NoRow @@ e2 :> n2)
MCBinComments ==
  b1 :> (e1 :> NoRow @@ e2 :> NoRow) @@ b2 :> (e1 :> t2 @@ e2 :> NoRow)

\* One operation of every kind.
MCOps == OpKinds
MCOpKind == [o \in OpKinds |-> o]
MCOpKey == [o \in OpIds |-> e1]
MCOpName == [o \in OpIds |-> n2]
MCOpText == [o \in OpIds |-> t2]
MCOpEdit == [o \in OpIds |-> x1]

\* One address, which the second binary lacks; two operations.
MCSharedOpKind == rename :> "rename" @@ comment :> "comment"
MCOneFunction == b1 :> (e1 :> n1) @@ b2 :> (e1 :> NoRow)
MCOneComment == b1 :> (e1 :> NoRow) @@ b2 :> (e1 :> t2)
SharedCalls ==
  [c \in Clients |->
     {"rename_command", "comment_command", "undo_last", "functions_page",
      "functions_page_filtered", "append_collaboration_op",
      "apply_collaboration_op"}]
ClientSymmetry == Permutations(Clients)

\* The lone analyst: commands, their undo, and operations that carry commands.
LoneCalls ==
  [c \in Clients |->
     {"rename_command", "comment_command", "undo_last", "annotate",
      "append_trace_event", "append_collaboration_op", "apply_collaboration_op"}]

\* One client re-imports while the other reads and renames.
ImportCalls ==
  c1 :> {"import_native", "import_program", "refresh_from_bridge"} @@
  c2 :> {"functions_page", "rename_function", "rename_command"}

\* The calls of the runs that look for one disagreement each.
PageCalls == [c \in Clients |-> {"functions_page", "rename_command"}]
RenameCalls == [c \in Clients |-> {"rename_command", "undo_last"}]
OpCalls ==
  [c \in Clients |-> {"append_collaboration_op", "apply_collaboration_op"}]
=============================================================================
