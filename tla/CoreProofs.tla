----------------------------- MODULE CoreProofs -----------------------------
(***************************************************************************)
(* Theorems about module Core, for every number of clients, every project  *)
(* content and every set of collaboration operations.                      *)
(***************************************************************************)
EXTENDS Core, FiniteSetTheorems, SequenceTheorems, TLAPS

-----------------------------------------------------------------------------
(* The shape of a step, as far as the log is concerned. *)

Recorded == \E kind \in EventKinds : BumpAndRecord(kind)

\* A step leaves the store alone, records an event with the next revision, or
\* is one of the two unlogged statements of upsert_program.
LoggedStep ==
  \/ UNCHANGED storeVars
  \/ Recorded
  \/ UpsertProgram
  \/ UpsertProvenance

LEMMA BumpIsRecorded ==
  \A kind \in EventKinds : BumpAndRecord(kind) => Recorded
BY DEF Recorded

LEMMA EditShape ==
  ASSUME NEW o, ApplyEdit(o)
  PROVE  Recorded
BY BumpIsRecorded DEF EventKinds, ApplyEdit, SetBookmark, SetPatch, SetTypeDef, SetTypeField, SetPrototype,
       SetStackVariable, SetTypeLink, UpsertRow

LEMMA StepShape ==
  ASSUME NEW c \in Clients, Step(c)
  PROVE  LoggedStep
<1>1. CASE \/ BeginRename(c) \/ BeginComment(c) \/ BeginUndo(c) \/ FunctionGone(c)
           \/ BeginTrace(c) \/ BeginApply(c) \/ ReadMark(c) \/ BeginImport(c)
           \/ CountRows(c) \/ ReadRows(c) \/ ScanRows(c) \/ StampPage(c)
           \/ Busy(c) \/ Abandon(c)
  BY <1>1 DEF BeginRename, BeginComment, BeginUndo, FunctionGone, BeginTrace,
              BeginApply, ReadMark, BeginImport, CountRows, ReadRows, ScanRows,
              StampPage, Busy, Abandon, LoggedStep
<1>2. CASE CommitRename(c)
  BY <1>2, BumpIsRecorded DEF EventKinds, CommitRename, RenameCommand, LoggedStep
<1>3. CASE CommitComment(c)
  BY <1>3, BumpIsRecorded DEF EventKinds, CommitComment, CommentCommand, LoggedStep
<1>4. CASE CommitUndo(c)
  BY <1>4, BumpIsRecorded DEF EventKinds, CommitUndo, UndoRename, UndoComment, LoggedStep
<1>5. CASE RenameRaw(c)
  BY <1>5, BumpIsRecorded DEF EventKinds, RenameRaw, RenameFunction, LoggedStep
<1>6. CASE Annotate(c)
  BY <1>6, BumpIsRecorded DEF EventKinds, Annotate, SetBookmark, SetPatch, SetTypeDef, SetTypeField,
              SetPrototype, SetStackVariable, SetTypeLink, DeleteBookmark,
              DeletePatch, UpsertRow, ReplaceTable, LoggedStep
<1>7. CASE CommitTrace(c)
  BY <1>7, BumpIsRecorded DEF EventKinds, CommitTrace, AppendTraceEvent, LoggedStep
<1>8. CASE AppendOp(c)
  BY <1>8, BumpIsRecorded DEF EventKinds, AppendOp, AppendCollaborationOp, LoggedStep
<1>9. CASE RouteOp(c)
  <2>1. CASE UNCHANGED storeVars
    BY <2>1 DEF LoggedStep
  <2>2. CASE ApplyEdit(st[c].op)
    BY <2>2, EditShape DEF LoggedStep
  <2> QED
    BY <1>9, <2>1, <2>2 DEF RouteOp
<1>10. CASE CommitMark(c)
  BY <1>10, BumpIsRecorded DEF EventKinds, CommitMark, MarkCollaborationOp, LoggedStep
<1>11. CASE ImportStep(c)
  BY <1>11, BumpIsRecorded DEF EventKinds, ImportStep, ReplaceFunctions, ReplaceComments, ReplaceTable,
               LoggedStep
<1> QED
  BY <1>1, <1>2, <1>3, <1>4, <1>5, <1>6, <1>7, <1>8, <1>9, <1>10, <1>11 DEF Step

-----------------------------------------------------------------------------
(* Types. *)

LEMMA BumpTypes ==
  ASSUME StoreTypeOK, NEW kind \in EventKinds, BumpAndRecord(kind)
  PROVE  /\ revision' \in Nat
         /\ commits' \in Nat
         /\ events' \in Seq([revision : Nat, kind : EventKinds])
BY DEF StoreTypeOK, BumpAndRecord

LEMMA RenameTypes ==
  ASSUME StoreTypeOK, NEW e \in Entries, NEW name \in Names,
         NEW undoName \in Names,
         RenameFunction(e, name) \/ RenameCommand(e, name, undoName)
  PROVE  StoreTypeOK'
<1>1. BumpAndRecord("rename") /\ "rename" \in EventKinds
  BY DEF RenameFunction, RenameCommand, EventKinds
<1>2. functions' \in [Entries -> Names \union {NoRow}]
  BY DEF StoreTypeOK, RenameFunction, RenameCommand
<1>3. journal' \in Seq(JournalEntry)
  <2>1. [kind |-> "rename", key |-> e, undo |-> undoName, done |-> FALSE]
          \in JournalEntry
    BY DEF JournalEntry
  <2>2. CASE RenameFunction(e, name)
    BY <2>2 DEF StoreTypeOK, RenameFunction
  <2>3. CASE RenameCommand(e, name, undoName)
    BY <2>1, <2>3 DEF StoreTypeOK, RenameCommand, JournalPush
  <2> QED
    BY <2>2, <2>3
<1> QED
  BY <1>1, <1>2, <1>3, BumpTypes DEF StoreTypeOK, RenameFunction, RenameCommand

LEMMA CommentTypes ==
  ASSUME StoreTypeOK, NEW e \in Entries, NEW text \in Texts,
         NEW previous \in Texts \union {NoRow},
         CommentCommand(e, text, previous)
  PROVE  StoreTypeOK'
<1>1. BumpAndRecord("comment") /\ "comment" \in EventKinds
  BY DEF CommentCommand, EventKinds
<1>2. comments' \in [Entries -> Texts \union {NoRow}]
  BY DEF StoreTypeOK, CommentCommand
<1>3. journal' \in Seq(JournalEntry)
  <2>1. [kind |-> "comment", key |-> e, undo |-> previous, done |-> FALSE]
          \in JournalEntry
    BY DEF JournalEntry
  <2> QED
    BY <2>1 DEF StoreTypeOK, CommentCommand, JournalPush
<1> QED
  BY <1>1, <1>2, <1>3, BumpTypes DEF StoreTypeOK, CommentCommand

LEMMA DoneEntry ==
  \A entry \in JournalEntry : [entry EXCEPT !.done = TRUE] \in JournalEntry
BY DEF JournalEntry

LEMMA MarkDoneTypes ==
  ASSUME StoreTypeOK, NEW seq, JournalMarkDone(seq)
  PROVE  journal' \in Seq(JournalEntry)
<1>1. journal \in Seq(JournalEntry)
  BY DEF StoreTypeOK
<1>2. CASE seq \in DOMAIN journal
  <2>1. [journal[seq] EXCEPT !.done = TRUE] \in JournalEntry
    BY <1>1, <1>2, DoneEntry
  <2> QED
    BY <1>1, <1>2, <2>1 DEF JournalMarkDone
<1>3. CASE seq \notin DOMAIN journal
  <2> DEFINE done == [journal[seq] EXCEPT !.done = TRUE]
  <2>1. journal' = [journal EXCEPT ![seq] = done]
    BY DEF JournalMarkDone
  <2> HIDE DEF done
  <2>2. journal' = journal
    BY <1>1, <1>3, <2>1
  <2> QED
    BY <1>1, <2>2
<1> QED
  BY <1>2, <1>3

LEMMA UndoTypes ==
  ASSUME StoreTypeOK, NEW e \in Entries, NEW seq, NEW undo,
         \/ undo \in Names \union {NoRow} /\ UndoRename(e, undo, seq)
         \/ undo \in Texts \union {NoRow} /\ UndoComment(e, undo, seq)
  PROVE  StoreTypeOK'
<1>1. journal' \in Seq(JournalEntry)
  BY MarkDoneTypes DEF UndoRename, UndoComment
<1>2. \E kind \in EventKinds : BumpAndRecord(kind)
  BY DEF UndoRename, UndoComment, EventKinds
<1> QED
  BY <1>1, <1>2, BumpTypes DEF StoreTypeOK, UndoRename, UndoComment

LEMMA UpsertRowTypes ==
  ASSUME StoreTypeOK, NEW t \in Tables, NEW row \in Edits \union {NoRow},
         NEW kind \in EventKinds, UpsertRow(t, row, kind)
  PROVE  StoreTypeOK'
BY BumpTypes DEF StoreTypeOK, UpsertRow

LEMMA ReplaceTableTypes ==
  ASSUME StoreTypeOK, NEW t \in Tables, NEW b \in Bins \union Edits,
         ReplaceTable(t, b)
  PROVE  StoreTypeOK'
BY BumpTypes DEF StoreTypeOK, ReplaceTable, EventKinds

LEMMA ReplaceTypes ==
  ASSUME StoreTypeOK, NEW b \in Bins,
         \/ ReplaceFunctions(b)
         \/ ReplaceComments(b)
         \/ \E t \in ImportTables : ReplaceTable(t, b)
  PROVE  StoreTypeOK'
<1>1. CASE ReplaceFunctions(b)
  BY <1>1, BumpTypes, BinAssumption DEF StoreTypeOK, ReplaceFunctions, EventKinds
<1>2. CASE ReplaceComments(b)
  BY <1>2, BumpTypes, BinAssumption DEF StoreTypeOK, ReplaceComments, EventKinds
<1>3. CASE \E t \in ImportTables : ReplaceTable(t, b)
  BY <1>3, ReplaceTableTypes DEF Tables
<1> QED
  BY <1>1, <1>2, <1>3

LEMMA OpTypes ==
  ASSUME StoreTypeOK, NEW o \in OpIds,
         \/ \E state \in {"pending", "applied"} : AppendCollaborationOp(o, state)
         \/ MarkCollaborationOp(o)
  PROVE  StoreTypeOK'
<1>1. \E kind \in EventKinds : BumpAndRecord(kind)
  BY DEF AppendCollaborationOp, MarkCollaborationOp, EventKinds
<1> QED
  BY <1>1, BumpTypes DEF StoreTypeOK, AppendCollaborationOp, MarkCollaborationOp,
                         OpStates

LEMMA TraceTypes ==
  ASSUME StoreTypeOK, AppendTraceEvent("trace")
  PROVE  StoreTypeOK'
<1>1. trace' \in Seq({"trace"})
  BY DEF StoreTypeOK, AppendTraceEvent
<1> QED
  BY <1>1, BumpTypes DEF StoreTypeOK, AppendTraceEvent, EventKinds

LEMMA UpsertTypes ==
  ASSUME StoreTypeOK, UpsertProgram \/ UpsertProvenance
  PROVE  StoreTypeOK'
BY DEF StoreTypeOK, UpsertProgram, UpsertProvenance

\* What a client in the middle of a call remembers.
LEMMA ClientFields ==
  ASSUME NEW s \in ClientState
  PROVE  /\ s.pc = "rename" =>
              /\ s.entry \in Entries /\ s.name \in Names /\ s.undo \in Names
              /\ s.op \in OpOrNone
         /\ s.pc = "comment" =>
              /\ s.entry \in Entries /\ s.text \in Texts
              /\ s.previous \in Texts \union {NoRow}
              /\ s.snap \in Nat /\ s.op \in OpOrNone
         /\ s.pc = "undo" => s.seq \in Nat /\ s.entry \in JournalEntry
         /\ s.pc = "page_rows" => s.total \in Nat /\ s.from \in Nat
         /\ s.pc = "page_revision" =>
              /\ s.total \in Nat /\ s.rows \in FunctionTable /\ s.from \in Nat
         /\ s.pc = "trace" => s.snap \in Nat
         /\ s.pc \in {"apply", "mark", "mark_write"} => s.op \in OpIds
         /\ s.pc = "mark_write" => s.snap \in Nat
         /\ s.pc = "import" =>
              /\ s.bin \in Bins
              /\ s.todo \in Seq(ImportSteps) /\ s.todo # <<>>
BY DEF ClientState, Idle

LEMMA RowCounts == \A table : RowCount(table) \in Nat
BY CoreAssumption, FS_Subset, FS_CardinalityType DEF RowCount

LEMMA GotoTypes ==
  ASSUME st \in [Clients -> ClientState], NEW c \in Clients,
         NEW s \in ClientState, Goto(c, s)
  PROVE  st' \in [Clients -> ClientState]
BY DEF Goto

LEMMA IdleIsState == Idle \in ClientState
BY DEF ClientState

LEMMA ContinueTypes ==
  ASSUME st \in [Clients -> ClientState], NEW c \in Clients,
         NEW op \in OpOrNone, Continue(c, op)
  PROVE  st' \in [Clients -> ClientState]
<1>1. (IF op = NoOp THEN Idle ELSE [pc |-> "mark", op |-> op]) \in ClientState
  BY DEF ClientState, OpOrNone
<1> QED
  BY <1>1, GotoTypes DEF Continue

LEMMA EffectTypes ==
  ASSUME effects \in [OpIds -> Nat], NEW op \in OpOrNone, CountEffect(op)
  PROVE  effects' \in [OpIds -> Nat]
BY DEF CountEffect, OpOrNone

LEMMA ScriptTypes ==
  \A script \in {NativeImport, BridgeImport, BridgeRefresh} :
    script \in Seq(ImportSteps) /\ script # <<>>
<1>1. NativeImport \in Seq(ImportSteps) /\ NativeImport # <<>>
  BY DEF NativeImport, ImportSteps, ImportTables
<1>2. BridgeRefresh \in Seq(ImportSteps) /\ BridgeRefresh # <<>>
  BY DEF BridgeRefresh, ImportSteps, ImportTables
<1>3. BridgeImport \in Seq(ImportSteps) /\ BridgeImport # <<>>
  BY DEF BridgeImport, BridgeRefresh, ImportSteps, ImportTables
<1> QED
  BY <1>1, <1>2, <1>3

LEMMA ReadOldNameTypes ==
  ASSUME CoreTypeOK, NEW c \in Clients, NEW e \in Entries, NEW name \in Names,
         NEW op \in OpOrNone, ReadOldName(c, e, name, op)
  PROVE  st' \in [Clients -> ClientState]
<1>1. functions[e] \in Names
  BY DEF ReadOldName, CoreTypeOK, StoreTypeOK
<1>2. [pc |-> "rename", entry |-> e, name |-> name, undo |-> functions[e],
       op |-> op] \in ClientState
  BY <1>1 DEF ClientState
<1> QED
  BY <1>2, GotoTypes DEF ReadOldName, CoreTypeOK

LEMMA ReadPreviousCommentTypes ==
  ASSUME CoreTypeOK, NEW c \in Clients, NEW e \in Entries, NEW text \in Texts,
         NEW op \in OpOrNone, ReadPreviousComment(c, e, text, op)
  PROVE  st' \in [Clients -> ClientState]
<1>1. [pc |-> "comment", entry |-> e, text |-> text, previous |-> comments[e],
       snap |-> commits, op |-> op] \in ClientState
  BY DEF CoreTypeOK, StoreTypeOK, ClientState
<1> QED
  BY <1>1, GotoTypes DEF ReadPreviousComment, CoreTypeOK

LEMMA AnnotateTypes ==
  ASSUME StoreTypeOK, NEW c, Annotate(c)
  PROVE  StoreTypeOK'
<1>1. \/ \E t \in Tables, row \in Edits \union {NoRow}, kind \in EventKinds :
           UpsertRow(t, row, kind)
      \/ \E t \in Tables, row \in Edits : ReplaceTable(t, row)
  BY DEF Annotate, SetBookmark, SetPatch, SetTypeDef, SetTypeField, SetPrototype,
         SetStackVariable, SetTypeLink, DeleteBookmark, DeletePatch, Tables,
         AnnotationTables, TypeTables, EventKinds
<1> QED
  BY <1>1, UpsertRowTypes, ReplaceTableTypes

LEMMA EditTypes ==
  ASSUME StoreTypeOK, NEW o \in OpIds, ApplyEdit(o)
  PROVE  StoreTypeOK'
<1>1. OpEdit[o] \in Edits
  BY CoreAssumption
<1>2. \E t \in Tables, row \in Edits \union {NoRow}, kind \in EventKinds :
        UpsertRow(t, row, kind)
  BY <1>1 DEF ApplyEdit, SetBookmark, SetPatch, SetTypeDef, SetTypeField,
         SetPrototype, SetStackVariable, SetTypeLink, Tables, AnnotationTables,
         EventKinds
<1> QED
  BY <1>2, UpsertRowTypes

ClientTypes ==
  /\ st' \in [Clients -> ClientState]
  /\ view' \in [Clients -> Page \union {NoPage}]
  /\ effects' \in [OpIds -> Nat]

\* A call that starts, reads or fails.
LEMMA QuietTypes ==
  ASSUME CoreTypeOK, NEW c \in Clients, UNCHANGED <<storeVars, view, effects>>,
         st' \in [Clients -> ClientState]
  PROVE  StoreTypeOK' /\ ClientTypes
BY DEF CoreTypeOK, StoreTypeOK, storeVars, ClientTypes

LEMMA StepTypes ==
  ASSUME CoreTypeOK, NEW c \in Clients, Step(c)
  PROVE  StoreTypeOK' /\ ClientTypes
<1> DEFINE s == st[c]
<1> USE GotoTypes, IdleIsState
<1>0. /\ StoreTypeOK
      /\ st \in [Clients -> ClientState]
      /\ effects \in [OpIds -> Nat]
      /\ s \in ClientState
      /\ NoOp \in OpOrNone /\ OpIds \subseteq OpOrNone
  BY DEF CoreTypeOK, OpOrNone
<1>a. ASSUME view' = view PROVE view' \in [Clients -> Page \union {NoPage}]
  BY <1>a DEF CoreTypeOK
<1>1. CASE BeginRename(c)
  BY <1>0, <1>1, ReadOldNameTypes, QuietTypes DEF BeginRename
<1>2. CASE CommitRename(c)
  <2>1. /\ s.entry \in Entries /\ s.name \in Names /\ s.undo \in Names
        /\ s.op \in OpOrNone
    BY <1>0, <1>2, ClientFields DEF CommitRename
  <2>2. StoreTypeOK'
    BY <1>0, <1>2, <2>1, RenameTypes DEF CommitRename
  <2> QED
    BY <1>0, <1>2, <1>a, <2>1, <2>2, EffectTypes, ContinueTypes
    DEF CommitRename, ClientTypes
<1>3. CASE BeginComment(c)
  BY <1>0, <1>3, ReadPreviousCommentTypes, QuietTypes DEF BeginComment
<1>4. CASE CommitComment(c)
  <2>1. /\ s.entry \in Entries /\ s.text \in Texts
        /\ s.previous \in Texts \union {NoRow} /\ s.op \in OpOrNone
    BY <1>0, <1>4, ClientFields DEF CommitComment
  <2>2. StoreTypeOK'
    BY <1>0, <1>4, <2>1, CommentTypes DEF CommitComment
  <2> QED
    BY <1>0, <1>4, <1>a, <2>1, <2>2, EffectTypes, ContinueTypes
    DEF CommitComment, ClientTypes
<1>5. CASE BeginUndo(c)
  <2>1. PICK seq \in LiveEntries :
          Goto(c, [pc |-> "undo", seq |-> seq, entry |-> journal[seq]])
    BY <1>5 DEF BeginUndo
  <2>2. [pc |-> "undo", seq |-> seq, entry |-> journal[seq]] \in ClientState
    BY <1>0, <2>1 DEF StoreTypeOK, LiveEntries, ClientState
  <2> QED
    BY <1>0, <1>5, <2>1, <2>2, QuietTypes DEF BeginUndo
<1>6. CASE CommitUndo(c)
  <2>1. s.entry \in JournalEntry
    BY <1>0, <1>6, ClientFields DEF CommitUndo
  <2>2. /\ s.entry.key \in Entries
        /\ s.entry.kind = "rename" => s.entry.undo \in Names \union {NoRow}
        /\ s.entry.kind = "comment" => s.entry.undo \in Texts \union {NoRow}
    BY <2>1 DEF JournalEntry
  <2>3. StoreTypeOK'
    BY <1>0, <1>6, <2>2, UndoTypes DEF CommitUndo
  <2> QED
    BY <1>0, <1>6, <1>a, <2>3 DEF CommitUndo, ClientTypes
<1>7. CASE FunctionGone(c) \/ Busy(c) \/ Abandon(c)
  BY <1>0, <1>7, QuietTypes DEF FunctionGone, Busy, Abandon
<1>8. CASE RenameRaw(c)
  <2>1. PICK e \in Entries, name \in Names : RenameFunction(e, name)
    BY <1>8 DEF RenameRaw
  <2>2. StoreTypeOK'
    BY <1>0, <2>1, RenameTypes
  <2> QED
    BY <1>0, <1>8, <1>a, <2>2 DEF RenameRaw, ClientTypes, clientVars
<1>9. CASE Annotate(c)
  BY <1>0, <1>9, <1>a, AnnotateTypes DEF Annotate, ClientTypes, clientVars
<1>10. CASE BeginTrace(c)
  <2>1. [pc |-> "trace", snap |-> commits] \in ClientState
    BY <1>0 DEF StoreTypeOK, ClientState
  <2> QED
    BY <1>0, <1>10, <2>1, QuietTypes DEF BeginTrace
<1>11. CASE CommitTrace(c)
  BY <1>0, <1>11, <1>a, TraceTypes DEF CommitTrace, ClientTypes
<1>12. CASE AppendOp(c)
  <2>1. StoreTypeOK'
    BY <1>0, <1>12, OpTypes, CoreAssumption DEF AppendOp
  <2> QED
    BY <1>0, <1>12, <1>a, <2>1 DEF AppendOp, ClientTypes, clientVars
<1>13. CASE BeginApply(c)
  <2>1. \A o \in OpIds : [pc |-> "apply", op |-> o] \in ClientState
    BY DEF ClientState
  <2> QED
    BY <1>0, <1>13, <2>1, QuietTypes DEF BeginApply
<1>14. CASE RouteOp(c)
  <2> DEFINE o == s.op
  <2>1. /\ o \in OpIds /\ o \in OpOrNone
        /\ OpKey[o] \in Entries /\ OpName[o] \in Names /\ OpText[o] \in Texts
    BY <1>0, <1>14, ClientFields, CoreAssumption DEF RouteOp
  <2>2. CASE ReadOldName(c, OpKey[o], OpName[o], o) /\ UNCHANGED <<storeVars, effects>>
    BY <1>14, <2>1, <2>2, ReadOldNameTypes, QuietTypes DEF RouteOp
  <2>3. CASE /\ ReadPreviousComment(c, OpKey[o], OpText[o], o)
             /\ UNCHANGED <<storeVars, effects>>
    BY <1>14, <2>1, <2>3, ReadPreviousCommentTypes, QuietTypes DEF RouteOp
  <2>4. CASE ApplyEdit(o) /\ CountEffect(o) /\ Continue(c, o)
    BY <1>0, <1>14, <1>a, <2>1, <2>4, EditTypes, EffectTypes, ContinueTypes
    DEF RouteOp, ClientTypes
  <2>5. CASE Continue(c, o) /\ UNCHANGED <<storeVars, effects>>
    BY <1>0, <1>14, <2>1, <2>5, ContinueTypes, QuietTypes DEF RouteOp
  <2> QED
    BY <1>14, <2>2, <2>3, <2>4, <2>5 DEF RouteOp
<1>15. CASE ReadMark(c)
  <2>1. s.op \in OpIds
    BY <1>0, <1>15, ClientFields DEF ReadMark
  <2>2. [pc |-> "mark_write", op |-> s.op, snap |-> commits] \in ClientState
    BY <1>0, <2>1 DEF StoreTypeOK, ClientState
  <2> QED
    BY <1>0, <1>15, <2>2, QuietTypes DEF ReadMark
<1>16. CASE CommitMark(c)
  <2>1. s.op \in OpIds
    BY <1>0, <1>16, ClientFields DEF CommitMark
  <2>2. StoreTypeOK'
    <3>1. CASE MarkCollaborationOp(s.op)
      BY <1>0, <2>1, <3>1, OpTypes
    <3>2. CASE UNCHANGED storeVars
      BY <1>0, <3>2 DEF StoreTypeOK, storeVars
    <3> QED
      BY <1>16, <3>1, <3>2 DEF CommitMark
  <2> QED
    BY <1>0, <1>16, <1>a, <2>2 DEF CommitMark, ClientTypes
<1>17. CASE BeginImport(c)
  <2>1. \A b \in Bins, script \in {NativeImport, BridgeImport, BridgeRefresh} :
          [pc |-> "import", bin |-> b, todo |-> script] \in ClientState
    BY ScriptTypes DEF ClientState
  <2> QED
    BY <1>0, <1>17, <2>1, QuietTypes DEF BeginImport
<1>18. CASE ImportStep(c)
  <2> DEFINE rest == Tail(s.todo)
  <2>1. /\ s.pc = "import" /\ s.bin \in Bins
        /\ s.todo \in Seq(ImportSteps) /\ s.todo # <<>>
    BY <1>0, <1>18, ClientFields DEF ImportStep
  <2>2. StoreTypeOK'
    BY <1>0, <1>18, <2>1, ReplaceTypes, UpsertTypes DEF ImportStep
  <2>3. (IF rest = <<>> THEN Idle ELSE [s EXCEPT !.todo = rest]) \in ClientState
    <3>1. rest \in Seq(ImportSteps)
      BY <2>1, HeadTailProperties
    <3>2. CASE rest # <<>>
      <4> DEFINE imports ==
            [pc : {"import"}, bin : Bins, todo : Seq(ImportSteps) \ {<<>>}]
      <4>1. s \in imports
        BY <1>0, <2>1 DEF ClientState, Idle
      <4>2. [s EXCEPT !.todo = rest] \in imports
        BY <3>1, <3>2, <4>1
      <4> QED
        BY <3>2, <4>2 DEF ClientState
    <3> QED
      BY <3>2
  <2> QED
    BY <1>0, <1>18, <1>a, <2>2, <2>3 DEF ImportStep, ClientTypes
<1>19. CASE CountRows(c)
  <2>1. [pc |-> "page_rows", total |-> RowCount(functions), from |-> revision]
          \in ClientState
    BY <1>0, RowCounts DEF StoreTypeOK, ClientState
  <2> QED
    BY <1>0, <1>19, <2>1, QuietTypes DEF CountRows
<1>20. CASE ReadRows(c)
  <2>1. s.total \in Nat /\ s.from \in Nat
    BY <1>0, <1>20, ClientFields DEF ReadRows
  <2>2. [pc |-> "page_revision", total |-> s.total, rows |-> functions,
         from |-> s.from] \in ClientState
    BY <1>0, <2>1 DEF StoreTypeOK, ClientState, FunctionTable
  <2> QED
    BY <1>0, <1>20, <2>2, QuietTypes DEF ReadRows
<1>21. CASE ScanRows(c)
  <2>1. [pc |-> "page_revision", total |-> RowCount(functions),
         rows |-> functions, from |-> revision] \in ClientState
    BY <1>0, RowCounts DEF StoreTypeOK, ClientState, FunctionTable
  <2> QED
    BY <1>0, <1>21, <2>1, QuietTypes DEF ScanRows
<1>22. CASE StampPage(c)
  <2>1. s.total \in Nat /\ s.rows \in FunctionTable /\ s.from \in Nat
    BY <1>0, <1>22, ClientFields DEF StampPage
  <2>2. [pc |-> "page", total |-> s.total, rows |-> s.rows,
         revision |-> revision, from |-> s.from] \in Page
    BY <1>0, <2>1 DEF StoreTypeOK, Page
  <2>3. view' \in [Clients -> Page \union {NoPage}]
    BY <1>22, <2>2 DEF StampPage, CoreTypeOK
  <2> QED
    BY <1>0, <1>22, <2>3 DEF StampPage, ClientTypes, StoreTypeOK, storeVars
<1> QED
  BY <1>1, <1>2, <1>3, <1>4, <1>5, <1>6, <1>7, <1>8, <1>9, <1>10, <1>11, <1>12,
     <1>13, <1>14, <1>15, <1>16, <1>17, <1>18, <1>19, <1>20, <1>21, <1>22
  DEF Step

LEMMA InitTypes == Init => CoreTypeOK
<1> SUFFICES ASSUME Init PROVE CoreTypeOK
  OBVIOUS
<1>1. BinFunctions[InitBin] \in FunctionTable
  BY BinAssumption, CoreAssumption DEF FunctionTable
<1>2. StoreTypeOK
  <2>1. /\ journal \in Seq(JournalEntry)
        /\ trace \in Seq({"trace"})
        /\ events \in Seq([revision : Nat, kind : EventKinds])
    BY DEF Init, StoreInit, EventKinds
  <2> QED
    BY <1>1, <2>1 DEF Init, StoreInit, StoreTypeOK, OpStates, FunctionTable
<1>3. history \in Seq(FunctionTable)
  BY <1>1 DEF Init, FunctionTable
<1> QED
  BY <1>2, <1>3, IdleIsState DEF Init, CoreTypeOK

LEMMA NextTypes == CoreTypeOK /\ [Next]_vars => CoreTypeOK'
<1> SUFFICES ASSUME CoreTypeOK, [Next]_vars PROVE CoreTypeOK'
  OBVIOUS
<1>1. CASE Next
  <2>1. PICK c \in Clients : Step(c) /\ RecordHistory
    BY <1>1 DEF Next
  <2>2. StoreTypeOK' /\ ClientTypes
    BY <2>1, StepTypes
  <2>3. functions' \in FunctionTable
    BY <2>2 DEF StoreTypeOK, FunctionTable
  <2>4. history' \in Seq(FunctionTable)
    BY <2>1, <2>3 DEF CoreTypeOK, RecordHistory
  <2> QED
    BY <2>2, <2>4 DEF CoreTypeOK, ClientTypes
<1>2. CASE UNCHANGED vars
  BY <1>2 DEF vars, storeVars, clientVars, CoreTypeOK, StoreTypeOK
<1> QED
  BY <1>1, <1>2

\* Every reachable state is well typed: in particular a client never holds
\* part of a row, and only names and texts reach the tables.
THEOREM TypeCorrect == Spec => []CoreTypeOK
BY InitTypes, NextTypes, PTL DEF Spec

-----------------------------------------------------------------------------
(* The event log. *)

LEMMA NextShape ==
  ASSUME Next
  PROVE  LoggedStep
BY StepShape DEF Next

\* Events come in the order of their revisions, none ahead of the program:
\* inductive as it stands, given the types.
THEOREM EventOrder == Spec => []EventsOrdered
<1>1. Init => EventsOrdered
  BY DEF Init, StoreInit, EventsOrdered
<1>2. CoreTypeOK /\ EventsOrdered /\ [Next]_vars => EventsOrdered'
  <2> SUFFICES ASSUME CoreTypeOK, EventsOrdered, [Next]_vars
               PROVE  EventsOrdered'
    OBVIOUS
  <2>0. /\ revision \in Nat
        /\ events \in Seq([revision : Nat, kind : EventKinds])
        /\ \A i \in DOMAIN events : events[i].revision \in Nat
    <3> DEFINE rows == [revision : Nat, kind : EventKinds]
    <3>1. \A row \in rows : row.revision \in Nat
      OBVIOUS
    <3>2. events \in Seq(rows)
      BY DEF CoreTypeOK, StoreTypeOK
    <3> HIDE DEF rows
    <3>3. \A i \in DOMAIN events : events[i] \in rows
      BY <3>2
    <3> QED
      BY <3>1, <3>3 DEF CoreTypeOK, StoreTypeOK
  <2>1. CASE Recorded
    <3>1. PICK kind \in EventKinds :
            /\ revision' = revision + 1
            /\ events' = Append(events, [revision |-> revision + 1, kind |-> kind])
      BY <2>1 DEF Recorded, BumpAndRecord
    <3> DEFINE last == [revision |-> revision + 1, kind |-> kind]
    <3>0. last.revision = revision + 1
      OBVIOUS
    <3> HIDE DEF last
    <3>2. /\ DOMAIN events' = 1 .. Len(events) + 1
          /\ DOMAIN events = 1 .. Len(events)
          /\ \A i \in DOMAIN events : events'[i] = events[i]
          /\ events'[Len(events) + 1] = last
          /\ Len(events) \in Nat
      BY <2>0, <3>1 DEF last
    <3> QED
      BY <2>0, <3>0, <3>1, <3>2 DEF EventsOrdered
  <2>2. CASE UpsertProgram
    <3>1. revision' = revision + 1 /\ events' = events
      BY <2>2 DEF UpsertProgram
    <3> QED
      BY <2>0, <3>1 DEF EventsOrdered
  <2>3. CASE UNCHANGED <<revision, events>>
    BY <2>3 DEF EventsOrdered
  <2> QED
    BY <2>1, <2>2, <2>3, NextShape
    DEF LoggedStep, UpsertProvenance, vars, storeVars
<1> QED
  BY <1>1, <1>2, TypeCorrect, PTL DEF Spec

\* Whatever a step changes in the project is logged by that step.
THEOREM MutationsAreLogged == Spec => LoggedMutations
<1> DEFINE content == <<functions, comments, tables, journal, ops, trace>>
<1> DEFINE A ==
      content' # content
        => /\ revision' = revision + 1
           /\ Len(events') = Len(events) + 1
           /\ events'[Len(events')].revision = revision'
<1>1. CoreTypeOK /\ [Next]_vars => [A]_vars
  <2> SUFFICES ASSUME CoreTypeOK, Next PROVE A
    BY DEF A
  <2>0. revision \in Nat /\ events \in Seq([revision : Nat, kind : EventKinds])
    BY DEF CoreTypeOK, StoreTypeOK
  <2>1. CASE Recorded
    <3>1. PICK kind \in EventKinds :
            /\ revision' = revision + 1
            /\ events' = Append(events, [revision |-> revision + 1, kind |-> kind])
      BY <2>1 DEF Recorded, BumpAndRecord
    <3>2. /\ Len(events') = Len(events) + 1
          /\ events'[Len(events')] = [revision |-> revision + 1, kind |-> kind]
      BY <2>0, <3>1
    <3> QED
      BY <3>1, <3>2
  <2>2. CASE UNCHANGED <<functions, comments, tables, journal, ops, trace>>
    BY <2>2
  <2> QED
    BY <2>1, <2>2, NextShape
    DEF LoggedStep, UpsertProgram, UpsertProvenance, storeVars
<1> QED
  BY <1>1, TypeCorrect, PTL DEF Spec, LoggedMutations

-----------------------------------------------------------------------------
(* What one step does to the client that takes it. *)

LEMMA GotoAt ==
  ASSUME st \in [Clients -> ClientState], NEW c \in Clients, NEW s, Goto(c, s)
  PROVE  st'[c] = s /\ \A d \in Clients \ {c} : st'[d] = st[d]
BY DEF Goto

OpDone(o) == effects[o] > 0 \/ OpKind[o] \in {"note", "trace"}

\* How a client comes to remember a comment, an operation or a page.
ClientMove(c) ==
  /\ \A d \in Clients \ {c} : st'[d] = st[d]
  /\ st'[c].pc = "comment" =>
       \/ st'[c] = st[c]
       \/ /\ UNCHANGED storeVars
          /\ st'[c].snap = commits
          /\ st'[c].previous = comments[st'[c].entry]
  /\ st'[c].pc = "mark" =>
       st'[c] = st[c] \/ \E o \in OpIds : st'[c].op = o /\ OpDone(o)'
  /\ st'[c].pc = "mark_write" =>
       \/ st'[c] = st[c]
       \/ st[c].pc = "mark" /\ st'[c].op = st[c].op
  /\ st'[c].pc = "page_rows" =>
       \/ st'[c] = st[c]
       \/ /\ UNCHANGED storeVars
          /\ st'[c].total = RowCount(functions)
          /\ st'[c].from = revision
  /\ st'[c].pc = "page_revision" =>
       \/ st'[c] = st[c]
       \/ /\ UNCHANGED storeVars
          /\ st'[c].rows = functions
          /\ \/ /\ st[c].pc = "page_rows"
                /\ st'[c].total = st[c].total /\ st'[c].from = st[c].from
             \/ st'[c].total = RowCount(functions) /\ st'[c].from = revision
  /\ view' = view \/ StampPage(c)

LEMMA ContinueDone ==
  ASSUME CoreTypeOK, NEW c \in Clients, NEW op \in OpOrNone, Continue(c, op),
         \/ CountEffect(op)
         \/ op \in OpIds /\ OpKind[op] \in {"note", "trace"}
  PROVE  /\ st'[c].pc = "mark" => \E o \in OpIds : st'[c].op = o /\ OpDone(o)'
         /\ st'[c].pc \in {"idle", "mark"}
         /\ \A d \in Clients \ {c} : st'[d] = st[d]
<1>1. /\ st'[c] = IF op = NoOp THEN Idle ELSE [pc |-> "mark", op |-> op]
      /\ \A d \in Clients \ {c} : st'[d] = st[d]
  BY GotoAt DEF Continue, CoreTypeOK
<1>2. CASE op = NoOp
  BY <1>1, <1>2 DEF Idle
<1>3. CASE op # NoOp
  <2>1. st'[c].op = op /\ st'[c].pc = "mark" /\ op \in OpIds
    BY <1>1, <1>3 DEF OpOrNone
  <2>2. CASE CountEffect(op)
    <3>1. effects' = [effects EXCEPT ![op] = @ + 1] /\ effects \in [OpIds -> Nat]
      BY <1>3, <2>2 DEF CountEffect, CoreTypeOK
    <3>2. effects'[op] > 0
      BY <2>1, <3>1
    <3> QED
      BY <1>1, <2>1, <3>2 DEF OpDone
  <2>3. CASE OpKind[op] \in {"note", "trace"}
    BY <1>1, <2>1, <2>3 DEF OpDone
  <2> QED
    BY <2>2, <2>3
<1> QED
  BY <1>2, <1>3

LEMMA StepMoves ==
  ASSUME CoreTypeOK, NEW c \in Clients, Step(c)
  PROVE  ClientMove(c)
<1>0. /\ st \in [Clients -> ClientState] /\ st[c] \in ClientState
      /\ NoOp \in OpOrNone
  BY DEF CoreTypeOK, OpOrNone
<1>a. ASSUME Goto(c, Idle), view' = view PROVE ClientMove(c)
  BY <1>0, <1>a, GotoAt DEF ClientMove, Idle
<1>b. ASSUME NEW op \in OpOrNone, Continue(c, op), view' = view,
             \/ CountEffect(op)
             \/ op \in OpIds /\ OpKind[op] \in {"note", "trace"}
      PROVE  ClientMove(c)
  BY <1>b, ContinueDone DEF ClientMove
<1>c. ASSUME NEW e, NEW name, NEW op, ReadOldName(c, e, name, op), view' = view
      PROVE  ClientMove(c)
  BY <1>0, <1>c, GotoAt DEF ReadOldName, ClientMove
<1>d. ASSUME NEW e, NEW text, NEW op, ReadPreviousComment(c, e, text, op),
             UNCHANGED <<storeVars, view>>
      PROVE  ClientMove(c)
  BY <1>0, <1>d, GotoAt DEF ReadPreviousComment, ClientMove
<1>1. CASE BeginRename(c)
  BY <1>1, <1>c DEF BeginRename
<1>2. CASE CommitRename(c)
  BY <1>0, <1>2, <1>b, ClientFields DEF CommitRename
<1>3. CASE BeginComment(c)
  BY <1>3, <1>d DEF BeginComment
<1>4. CASE CommitComment(c)
  BY <1>0, <1>4, <1>b, ClientFields DEF CommitComment
<1>5. CASE BeginUndo(c)
  BY <1>0, <1>5, GotoAt DEF BeginUndo, ClientMove
<1>6. CASE CommitUndo(c) \/ FunctionGone(c) \/ Busy(c) \/ Abandon(c)
  BY <1>6, <1>a DEF CommitUndo, FunctionGone, Busy, Abandon
<1>7. CASE RenameRaw(c) \/ Annotate(c) \/ AppendOp(c)
  BY <1>7 DEF RenameRaw, Annotate, AppendOp, clientVars, ClientMove
<1>8. CASE BeginTrace(c) \/ BeginApply(c) \/ BeginImport(c)
  <2>1. /\ \E s : Goto(c, s) /\ s.pc \in {"trace", "apply", "import"}
        /\ view' = view
    <3>1. CASE BeginTrace(c)
      BY <3>1 DEF BeginTrace
    <3>2. CASE BeginApply(c)
      BY <3>2 DEF BeginApply
    <3>3. CASE BeginImport(c)
      <4>1. PICK b \in Bins, script \in {NativeImport, BridgeImport, BridgeRefresh} :
              Goto(c, [pc |-> "import", bin |-> b, todo |-> script])
        BY <3>3 DEF BeginImport
      <4> QED
        BY <3>3, <4>1 DEF BeginImport
    <3> QED
      BY <1>8, <3>1, <3>2, <3>3
  <2> QED
    BY <1>0, <2>1, GotoAt DEF ClientMove
<1>9. CASE CommitTrace(c) \/ CommitMark(c)
  BY <1>9, <1>a DEF CommitTrace, CommitMark
<1>10. CASE RouteOp(c)
  <2>1. st[c].op \in OpIds /\ st[c].op \in OpOrNone
    BY <1>0, <1>10, ClientFields DEF RouteOp, OpOrNone
  <2> QED
    BY <1>10, <2>1, <1>b, <1>c, <1>d DEF RouteOp
<1>11. CASE ReadMark(c)
  BY <1>0, <1>11, GotoAt DEF ReadMark, ClientMove
<1>12. CASE ImportStep(c)
  <2>1. st'[c].pc \in {"idle", "import"} /\ \A d \in Clients \ {c} : st'[d] = st[d]
    BY <1>0, <1>12, GotoAt DEF ImportStep, ClientState, Idle
  <2> QED
    BY <1>12, <2>1 DEF ImportStep, ClientMove
<1>13. CASE CountRows(c)
  BY <1>0, <1>13, GotoAt DEF CountRows, ClientMove
<1>14. CASE ReadRows(c) \/ ScanRows(c)
  BY <1>0, <1>14, GotoAt DEF ReadRows, ScanRows, ClientMove
<1>15. CASE StampPage(c)
  BY <1>0, <1>15, GotoAt DEF StampPage, ClientMove, Idle
<1> QED
  BY <1>1, <1>2, <1>3, <1>4, <1>5, <1>6, <1>7, <1>8, <1>9, <1>10, <1>11, <1>12,
     <1>13, <1>14, <1>15 DEF Step

-----------------------------------------------------------------------------
(* The undo text of a comment. *)

\* A comment command that can still commit (nobody committed since it read)
\* holds the text the comment has now.
CommentInv ==
  \A c \in Clients :
    st[c].pc = "comment" =>
      /\ st[c].snap <= commits
      /\ st[c].snap = commits => st[c].previous = comments[st[c].entry]

LEMMA CommentInvInductive ==
  ASSUME CoreTypeOK, CommentInv, [Next]_vars
  PROVE  CommentInv'
<1>1. CASE UNCHANGED vars
  BY <1>1 DEF vars, clientVars, storeVars, CommentInv
<1>2. CASE Next
  <2>1. PICK c \in Clients : Step(c) /\ RecordHistory
    BY <1>2 DEF Next
  <2>2. ClientMove(c)
    BY <2>1, StepMoves
  <2>3. \/ UNCHANGED <<commits, comments>>
        \/ commits' = commits + 1
    BY <2>1, StepShape DEF LoggedStep, storeVars, Recorded, BumpAndRecord,
       UpsertProgram, UpsertProvenance
  <2>4. commits \in Nat /\ \A d \in Clients : st[d].pc = "comment" => st[d].snap \in Nat
    BY ClientFields DEF CoreTypeOK, StoreTypeOK
  <2> SUFFICES ASSUME NEW d \in Clients, st'[d].pc = "comment"
               PROVE  /\ st'[d].snap <= commits'
                      /\ st'[d].snap = commits' => st'[d].previous = comments'[st'[d].entry]
    BY DEF CommentInv
  <2>5. CASE st'[d] = st[d]
    BY <2>3, <2>4, <2>5 DEF CommentInv
  <2>6. CASE /\ d = c
             /\ UNCHANGED storeVars
             /\ st'[c].snap = commits
             /\ st'[c].previous = comments[st'[c].entry]
    BY <2>4, <2>6 DEF storeVars
  <2> QED
    BY <2>2, <2>5, <2>6 DEF ClientMove
<1> QED
  BY <1>1, <1>2

LEMMA CommentInvHolds == Spec => []CommentInv
<1>1. Init => CommentInv
  BY DEF Init, Idle, CommentInv
<1> QED
  BY <1>1, CommentInvInductive, TypeCorrect, PTL DEF Spec

\* Only the two commands push to the journal.
LEMMA StepJournal ==
  ASSUME CoreTypeOK, NEW c \in Clients, Step(c)
  PROVE  Len(journal') = Len(journal) \/ CommitRename(c) \/ CommitComment(c)
<1>0. journal \in Seq(JournalEntry)
  BY DEF CoreTypeOK, StoreTypeOK
<1>1. CASE UNCHANGED journal
  BY <1>1
<1>2. CASE CommitUndo(c)
  <2>1. \A seq : JournalMarkDone(seq) => Len(journal') = Len(journal)
    BY <1>0 DEF JournalMarkDone
  <2> QED
    BY <1>2, <2>1 DEF CommitUndo, UndoRename, UndoComment
<1>3. CASE \/ BeginRename(c) \/ BeginComment(c) \/ BeginUndo(c) \/ FunctionGone(c)
           \/ BeginTrace(c) \/ BeginApply(c) \/ ReadMark(c) \/ BeginImport(c)
           \/ CountRows(c) \/ ReadRows(c) \/ ScanRows(c) \/ StampPage(c)
           \/ Busy(c) \/ Abandon(c)
  BY <1>3 DEF BeginRename, BeginComment, BeginUndo, FunctionGone, BeginTrace,
              BeginApply, ReadMark, BeginImport, CountRows, ReadRows, ScanRows,
              StampPage, Busy, Abandon, storeVars
<1>4. CASE Annotate(c)
  BY <1>4 DEF Annotate, SetBookmark, SetPatch, SetTypeDef, SetTypeField,
              SetPrototype, SetStackVariable, SetTypeLink, DeleteBookmark,
              DeletePatch, UpsertRow, ReplaceTable
<1>5. CASE RouteOp(c)
  BY <1>5 DEF RouteOp, ApplyEdit, SetBookmark, SetPatch, SetTypeDef, SetTypeField,
              SetPrototype, SetStackVariable, SetTypeLink, UpsertRow, storeVars
<1>6. CASE RenameRaw(c) \/ CommitTrace(c) \/ AppendOp(c) \/ CommitMark(c)
  BY <1>6 DEF RenameRaw, RenameFunction, CommitTrace, AppendTraceEvent, AppendOp,
              AppendCollaborationOp, CommitMark, MarkCollaborationOp, storeVars
<1>7. CASE ImportStep(c)
  BY <1>7 DEF ImportStep, UpsertProgram, UpsertProvenance, ReplaceFunctions,
              ReplaceComments, ReplaceTable
<1> QED
  BY <1>2, <1>3, <1>4, <1>5, <1>6, <1>7 DEF Step

\* comment_command journals the text that its own transaction replaces.
THEOREM CommentUndo == Spec => CommentUndoCaptures
<1> DEFINE A ==
      Len(journal') > Len(journal) =>
        LET new == journal'[Len(journal')] IN
          new.kind = "comment" => new.undo = comments[new.key]
<1>1. CoreTypeOK /\ CommentInv /\ [Next]_vars => [A]_vars
  <2> SUFFICES ASSUME CoreTypeOK, CommentInv, Next, Len(journal') > Len(journal)
               PROVE  A
    OBVIOUS
  <2>0. journal \in Seq(JournalEntry) /\ Len(journal) \in Nat
    BY DEF CoreTypeOK, StoreTypeOK
  <2>1. PICK c \in Clients : Step(c)
    BY DEF Next
  <2>2. CASE CommitRename(c)
    <3> DEFINE new == [kind |-> "rename", key |-> st[c].entry,
                       undo |-> st[c].undo, done |-> FALSE]
    <3>1. journal' = Append(journal, new)
      BY <2>2 DEF CommitRename, RenameCommand, JournalPush
    <3>2. new.kind = "rename"
      OBVIOUS
    <3> HIDE DEF new
    <3>3. journal'[Len(journal')] = new
      BY <2>0, <3>1
    <3> QED
      BY <3>2, <3>3
  <2>3. CASE CommitComment(c)
    <3> DEFINE new == [kind |-> "comment", key |-> st[c].entry,
                       undo |-> st[c].previous, done |-> FALSE]
    <3>1. journal' = Append(journal, new)
      BY <2>3 DEF CommitComment, CommentCommand, JournalPush
    <3>2. new.key = st[c].entry /\ new.undo = comments[st[c].entry]
      BY <2>3 DEF CommitComment, CommentInv
    <3> HIDE DEF new
    <3>3. journal'[Len(journal')] = new
      BY <2>0, <3>1
    <3> QED
      BY <3>2, <3>3
  <2> QED
    BY <2>0, <2>1, <2>2, <2>3, StepJournal
<1> QED
  BY <1>1, TypeCorrect, CommentInvHolds, PTL DEF Spec, CommentUndoCaptures

-----------------------------------------------------------------------------
(* Operations marked applied. *)

\* A client that is about to mark an operation has committed its mutation.
MarkInv ==
  /\ \A o \in OpIds : ops[o] = "applied" => OpDone(o)
  /\ \A c \in Clients : st[c].pc \in {"mark", "mark_write"} => OpDone(st[c].op)

LEMMA EffectsGrow ==
  ASSUME CoreTypeOK, NEW c \in Clients, Step(c), NEW o \in OpIds, OpDone(o)
  PROVE  OpDone(o)'
<1>1. \A op : CountEffect(op) => effects'[o] = effects[o] \/ effects'[o] = effects[o] + 1
  BY DEF CountEffect, CoreTypeOK
<1>2. \/ effects' = effects
      \/ \E op : CountEffect(op)
  BY DEF Step, BeginRename, CommitRename, BeginComment, CommitComment, BeginUndo,
         CommitUndo, FunctionGone, RenameRaw, Annotate, BeginTrace, CommitTrace,
         AppendOp, BeginApply, RouteOp, ReadMark, CommitMark, BeginImport,
         ImportStep, CountRows, ReadRows, ScanRows, StampPage, Busy, Abandon,
         clientVars
<1>3. effects[o] \in Nat
  BY DEF CoreTypeOK
<1> QED
  BY <1>1, <1>2, <1>3 DEF OpDone

LEMMA StepOps ==
  ASSUME AppendedStates = {"pending"}, CoreTypeOK, NEW c \in Clients, Step(c),
         NEW o \in OpIds, ops'[o] = "applied", ops[o] # "applied"
  PROVE  st[c].pc = "mark_write" /\ st[c].op = o
<1>1. CASE UNCHANGED ops
  BY <1>1
<1>2. CASE AppendOp(c)
  BY <1>2 DEF AppendOp, AppendCollaborationOp, CoreTypeOK, StoreTypeOK
<1>3. CASE CommitMark(c)
  BY <1>3 DEF CommitMark, MarkCollaborationOp, CoreTypeOK, StoreTypeOK, storeVars
<1>4. CASE \/ BeginRename(c) \/ BeginComment(c) \/ BeginUndo(c) \/ FunctionGone(c)
           \/ BeginTrace(c) \/ BeginApply(c) \/ ReadMark(c) \/ BeginImport(c)
           \/ CountRows(c) \/ ReadRows(c) \/ ScanRows(c) \/ StampPage(c)
           \/ Busy(c) \/ Abandon(c)
  BY <1>1, <1>4 DEF BeginRename, BeginComment, BeginUndo, FunctionGone, BeginTrace,
              BeginApply, ReadMark, BeginImport, CountRows, ReadRows, ScanRows,
              StampPage, Busy, Abandon, storeVars
<1>5. CASE Annotate(c)
  BY <1>1, <1>5 DEF Annotate, SetBookmark, SetPatch, SetTypeDef, SetTypeField,
              SetPrototype, SetStackVariable, SetTypeLink, DeleteBookmark,
              DeletePatch, UpsertRow, ReplaceTable
<1>6. CASE RouteOp(c)
  BY <1>1, <1>6 DEF RouteOp, ApplyEdit, SetBookmark, SetPatch, SetTypeDef,
              SetTypeField, SetPrototype, SetStackVariable, SetTypeLink, UpsertRow,
              storeVars
<1>7. CASE RenameRaw(c) \/ CommitTrace(c) \/ CommitRename(c) \/ CommitComment(c)
           \/ CommitUndo(c)
  BY <1>1, <1>7 DEF RenameRaw, RenameFunction, CommitTrace, AppendTraceEvent,
              CommitRename, RenameCommand, CommitComment, CommentCommand,
              CommitUndo, UndoRename, UndoComment
<1>8. CASE ImportStep(c)
  BY <1>1, <1>8 DEF ImportStep, UpsertProgram, UpsertProvenance, ReplaceFunctions,
              ReplaceComments, ReplaceTable
<1> QED
  BY <1>2, <1>3, <1>4, <1>5, <1>6, <1>7, <1>8 DEF Step

LEMMA MarkInvInductive ==
  ASSUME AppendedStates = {"pending"}, CoreTypeOK, MarkInv, [Next]_vars
  PROVE  MarkInv'
<1>1. CASE UNCHANGED vars
  BY <1>1 DEF vars, clientVars, storeVars, MarkInv, OpDone
<1>2. CASE Next
  <2>1. PICK c \in Clients : Step(c)
    BY <1>2 DEF Next
  <2>2. ClientMove(c)
    BY <2>1, StepMoves
  <2>3. \A o \in OpIds : OpDone(o) => OpDone(o)'
    BY <2>1, EffectsGrow
  <2>4. \A d \in Clients : st[d].pc \in {"mark", "mark_write"} => st[d].op \in OpIds
    BY ClientFields DEF CoreTypeOK
  <2>5. ASSUME NEW o \in OpIds, ops'[o] = "applied"
        PROVE  OpDone(o)'
    <3>1. CASE ops[o] = "applied"
      BY <2>3, <3>1 DEF MarkInv
    <3>2. CASE ops[o] # "applied"
      <4>1. st[c].pc = "mark_write" /\ st[c].op = o
        BY <2>1, <2>5, <3>2, StepOps
      <4> QED
        BY <2>3, <4>1 DEF MarkInv
    <3> QED
      BY <3>1, <3>2
  <2>6. ASSUME NEW d \in Clients, st'[d].pc \in {"mark", "mark_write"}
        PROVE  \E o \in OpIds : st'[d].op = o /\ OpDone(o)'
    <3>1. CASE st'[d] = st[d]
      BY <2>3, <2>4, <2>6, <3>1 DEF MarkInv
    <3>2. CASE d = c /\ st'[d] # st[d]
      BY <2>2, <2>3, <2>4, <2>6, <3>2 DEF MarkInv, ClientMove
    <3> QED
      BY <2>2, <3>1, <3>2 DEF ClientMove
  <2> QED
    BY <2>5, <2>6 DEF MarkInv, OpDone
<1> QED
  BY <1>1, <1>2

\* When clients append operations as pending, an operation that is marked
\* applied has had its mutation committed, whatever crashed in between.
THEOREM AppliedOpsTookEffect ==
  ASSUME AppendedStates = {"pending"}
  PROVE  Spec => []AppliedHadEffect
<1>1. Init => MarkInv
  BY DEF Init, StoreInit, Idle, MarkInv
<1>2. MarkInv => AppliedHadEffect
  BY DEF MarkInv, OpDone, AppliedHadEffect
<1> QED
  BY <1>1, <1>2, MarkInvInductive, TypeCorrect, PTL DEF Spec

-----------------------------------------------------------------------------
(* Paged reads. *)

\* A window and a total, and the revisions their statements can have seen.
SeenIn(rows, total, from, to) ==
  \E i \in from .. to :
    rows = history[i] /\ \E j \in from .. i : total = RowCount(history[j])

HistoryInv == Len(history) = revision /\ history[revision] = functions /\ revision >= 1

PageInv ==
  \A c \in Clients :
    /\ st[c].pc = "page_rows" =>
         /\ 1 <= st[c].from
         /\ \E j \in st[c].from .. revision : st[c].total = RowCount(history[j])
    /\ st[c].pc = "page_revision" =>
         /\ 1 <= st[c].from
         /\ SeenIn(st[c].rows, st[c].total, st[c].from, revision)
    /\ view[c] # NoPage =>
         /\ 1 <= view[c].from
         /\ view[c].revision <= revision
         /\ SeenIn(view[c].rows, view[c].total, view[c].from, view[c].revision)

\* history only grows, by the table of the next revision.
LEMMA HistoryGrows ==
  ASSUME CoreTypeOK, HistoryInv, Next
  PROVE  /\ HistoryInv'
         /\ revision' >= revision
         /\ \A i \in 1 .. revision : history'[i] = history[i]
<1>0. history \in Seq(FunctionTable) /\ revision \in Nat
  BY DEF CoreTypeOK, StoreTypeOK
<1>1. \/ revision' = revision /\ functions' = functions
      \/ revision' = revision + 1
  BY <1>0, NextShape DEF LoggedStep, storeVars, Recorded, BumpAndRecord,
     UpsertProgram, UpsertProvenance
<1>2. RecordHistory
  BY DEF Next
<1>3. CASE revision' = revision /\ functions' = functions
  BY <1>0, <1>2, <1>3 DEF RecordHistory, HistoryInv
<1>4. CASE revision' = revision + 1
  <2>1. history' = Append(history, functions')
    BY <1>0, <1>2, <1>4 DEF RecordHistory
  <2>2. /\ Len(history') = Len(history) + 1
        /\ history'[Len(history) + 1] = functions'
        /\ \A i \in 1 .. Len(history) : history'[i] = history[i]
    BY <1>0, <2>1
  <2> QED
    BY <1>0, <1>4, <2>2 DEF HistoryInv
<1> QED
  BY <1>1, <1>3, <1>4

\* What was seen stays seen.
LEMMA SeenStays ==
  ASSUME CoreTypeOK, HistoryInv, Next, NEW rows, NEW total,
         NEW from \in Nat, NEW to \in Nat, NEW to2 \in Nat,
         1 <= from, to <= revision, to <= to2,
         SeenIn(rows, total, from, to)
  PROVE  \E i \in from .. to2 :
           rows = history'[i] /\ \E j \in from .. i : total = RowCount(history'[j])
<1>0. revision \in Nat
  BY DEF CoreTypeOK, StoreTypeOK
<1>1. PICK i \in from .. to :
        rows = history[i] /\ \E j \in from .. i : total = RowCount(history[j])
  BY DEF SeenIn
<1>2. \A j \in from .. i : history'[j] = history[j]
  BY <1>0, HistoryGrows
<1> QED
  BY <1>0, <1>1, <1>2

LEMMA PageInvInductive ==
  ASSUME CoreTypeOK, HistoryInv, PageInv, Next
  PROVE  PageInv'
<1>1. PICK c \in Clients : Step(c)
  BY DEF Next
<1>2. ClientMove(c)
  BY <1>1, StepMoves
<1>3. /\ revision' >= revision
      /\ revision \in Nat /\ revision' \in Nat
      /\ \A i \in 1 .. revision : history'[i] = history[i]
      /\ history[revision] = functions /\ revision >= 1
  BY HistoryGrows, NextTypes DEF CoreTypeOK, StoreTypeOK, HistoryInv
<1>4. /\ \A d \in Clients : st[d].pc = "page_rows" => st[d].from \in Nat
      /\ \A d \in Clients : st[d].pc = "page_revision" => st[d].from \in Nat
      /\ \A d \in Clients : view[d] # NoPage =>
           view[d].from \in Nat /\ view[d].revision \in Nat
  BY ClientFields DEF CoreTypeOK, Page
<1>5. ASSUME NEW d \in Clients, st'[d].pc = "page_rows"
      PROVE  /\ 1 <= st'[d].from
             /\ \E j \in st'[d].from .. revision' :
                  st'[d].total = RowCount(history'[j])
  <2>1. CASE st'[d] = st[d]
    <3>1. PICK j \in st[d].from .. revision : st[d].total = RowCount(history[j])
      BY <1>5, <2>1 DEF PageInv
    <3>2. 1 <= st[d].from /\ st[d].from \in Nat
      BY <1>4, <1>5, <2>1 DEF PageInv
    <3>3. j \in 1 .. revision /\ j \in st[d].from .. revision'
      BY <1>3, <3>1, <3>2
    <3> QED
      BY <1>3, <2>1, <3>1, <3>2, <3>3
  <2>2. CASE /\ UNCHANGED storeVars
             /\ st'[d].total = RowCount(functions)
             /\ st'[d].from = revision
    <3>1. history'[revision] = functions /\ revision' = revision
      BY <1>3, <2>2 DEF storeVars
    <3>2. revision \in st'[d].from .. revision'
      BY <1>3, <2>2, <3>1
    <3> QED
      BY <1>3, <2>2, <3>1, <3>2
  <2> QED
    BY <1>2, <1>5, <2>1, <2>2 DEF ClientMove
<1>6. ASSUME NEW d \in Clients, st'[d].pc = "page_revision"
      PROVE  /\ 1 <= st'[d].from
             /\ \E i \in st'[d].from .. revision' :
                  /\ st'[d].rows = history'[i]
                  /\ \E j \in st'[d].from .. i : st'[d].total = RowCount(history'[j])
  <2>1. CASE st'[d] = st[d]
    <3>1. /\ 1 <= st[d].from /\ st[d].from \in Nat
          /\ SeenIn(st[d].rows, st[d].total, st[d].from, revision)
      BY <1>4, <1>6, <2>1 DEF PageInv
    <3> QED
      BY <1>3, <2>1, <3>1, SeenStays
  <2>2. CASE /\ UNCHANGED storeVars
             /\ st'[d].rows = functions
             /\ \/ /\ st[d].pc = "page_rows"
                   /\ st'[d].total = st[d].total /\ st'[d].from = st[d].from
                \/ st'[d].total = RowCount(functions) /\ st'[d].from = revision
    <3>1. history'[revision] = functions /\ revision' = revision
      BY <1>3, <2>2 DEF storeVars
    <3>2. CASE /\ st[d].pc = "page_rows"
               /\ st'[d].total = st[d].total /\ st'[d].from = st[d].from
      <4>1. PICK j \in st[d].from .. revision : st[d].total = RowCount(history[j])
        BY <3>2 DEF PageInv
      <4>2. 1 <= st[d].from /\ st[d].from \in Nat
        BY <1>4, <3>2 DEF PageInv
      <4>3. j \in 1 .. revision /\ revision \in st[d].from .. revision
        BY <1>3, <4>1, <4>2
      <4> QED
        BY <1>3, <2>2, <3>1, <3>2, <4>1, <4>2, <4>3
    <3>3. CASE st'[d].total = RowCount(functions) /\ st'[d].from = revision
      <4>1. revision \in revision .. revision
        BY <1>3
      <4> QED
        BY <1>3, <2>2, <3>1, <3>3, <4>1
    <3> QED
      BY <2>2, <3>2, <3>3
  <2> QED
    BY <1>2, <1>6, <2>1, <2>2 DEF ClientMove
<1>7. ASSUME NEW d \in Clients, view'[d] # NoPage
      PROVE  /\ 1 <= view'[d].from
             /\ view'[d].revision <= revision'
             /\ \E i \in view'[d].from .. view'[d].revision :
                  /\ view'[d].rows = history'[i]
                  /\ \E j \in view'[d].from .. i : view'[d].total = RowCount(history'[j])
  <2>1. CASE view'[d] = view[d]
    <3>1. /\ 1 <= view[d].from /\ view[d].from \in Nat
          /\ view[d].revision \in Nat /\ view[d].revision <= revision
          /\ SeenIn(view[d].rows, view[d].total, view[d].from, view[d].revision)
      BY <1>4, <1>7, <2>1 DEF PageInv
    <3>2. \E i \in view[d].from .. view[d].revision :
            /\ view[d].rows = history'[i]
            /\ \E j \in view[d].from .. i : view[d].total = RowCount(history'[j])
      BY <3>1, SeenStays
    <3> QED
      BY <1>3, <2>1, <3>1, <3>2
  <2>2. CASE d = c /\ StampPage(c)
    <3>1. /\ st[c].pc = "page_revision"
          /\ view'[c] = [pc |-> "page", total |-> st[c].total, rows |-> st[c].rows,
                         revision |-> revision, from |-> st[c].from]
          /\ revision' = revision
      BY <2>2 DEF StampPage, CoreTypeOK, storeVars
    <3>2. /\ 1 <= st[c].from /\ st[c].from \in Nat
          /\ SeenIn(st[c].rows, st[c].total, st[c].from, revision)
      BY <1>4, <3>1 DEF PageInv
    <3>3. \E i \in st[c].from .. revision :
            /\ st[c].rows = history'[i]
            /\ \E j \in st[c].from .. i : st[c].total = RowCount(history'[j])
      BY <1>3, <3>2, SeenStays
    <3>4. /\ view'[c].from = st[c].from /\ view'[c].revision = revision
          /\ view'[c].rows = st[c].rows /\ view'[c].total = st[c].total
      BY <3>1
    <3> QED
      BY <1>3, <2>2, <3>1, <3>2, <3>3, <3>4
  <2> QED
    BY <1>2, <2>1, <2>2 DEF ClientMove, StampPage, CoreTypeOK
<1> QED
  BY <1>5, <1>6, <1>7 DEF PageInv, SeenIn

\* A page shows rows, and a total, of revisions its request overlapped, the
\* total never from later than the rows.
THEOREM PagesAreRecent == Spec => []PageIsRecent
<1>1. Init => HistoryInv /\ PageInv
  BY DEF Init, StoreInit, Idle, HistoryInv, PageInv
<1>2. CoreTypeOK /\ HistoryInv /\ PageInv /\ [Next]_vars => (HistoryInv /\ PageInv)'
  <2>1. CASE UNCHANGED vars
    BY <2>1 DEF vars, storeVars, clientVars, HistoryInv, PageInv, SeenIn
  <2>2. CASE Next
    BY <2>2, HistoryGrows, PageInvInductive
  <2> QED
    BY <2>1, <2>2
<1>3. PageInv => PageIsRecent
  BY DEF PageInv, SeenIn, PageIsRecent
<1> QED
  BY <1>1, <1>2, <1>3, TypeCorrect, PTL DEF Spec
=============================================================================
