-------------------------------- MODULE Core --------------------------------
(***************************************************************************)
(* The Core facade (crates/lre-core/src/lib.rs) over the project store.    *)
(*                                                                         *)
(* Each client is one Core: a CLI run, the API server or the desktop       *)
(* bridge, with its own connection to the same project.sqlite.  Within a   *)
(* client calls are sequential; between clients every interleaving of      *)
(* transactions is possible.  A Core call is split where the code lets go  *)
(* of the database: what it reads in one statement and uses in a later     *)
(* transaction is kept in st[c], so another client may commit in between.  *)
(*                                                                         *)
(* A transaction whose first statement reads (comment_command,             *)
(* append_trace_event, ProjectDb::apply_collaboration_op) works on the     *)
(* snapshot of that read; SQLite refuses to turn a snapshot that is no     *)
(* longer the newest into a write transaction (SQLITE_BUSY_SNAPSHOT), and  *)
(* the call fails without effect.                                          *)
(***************************************************************************)
EXTENDS Store, FiniteSets

CONSTANTS
  Clients,        \* the connections
  InitBin,        \* the binary the project was created from
  OpKind,         \* OpKind[o]: what operation o asks for
  OpKey, OpName, OpText, OpEdit,   \* its decoded payload
  NoOp,           \* stands for "not on behalf of an operation"
  AppendedStates, \* the applied flags clients send with a new operation
  Workload,       \* Workload[c]: the calls client c makes: a bound of the instance
  MaxRevision     \* no call starts at this revision: a bound of the instance

\* Clients call these entry points of Core.
Calls == {"rename_function", "rename_command", "comment_command", "undo_last",
          "functions_page", "functions_page_filtered", "annotate",
          "append_trace_event", "append_collaboration_op",
          "apply_collaboration_op", "import_native", "import_program",
          "refresh_from_bridge"}
EditKinds == {"bookmark", "patch", "set_type_def", "set_type_field",
              "set_prototype", "set_stack_variable", "set_type_link"}
OpKinds == {"rename", "comment", "note", "trace", "unsupported"} \union EditKinds

ASSUME CoreAssumption ==
  /\ IsFiniteSet(Entries)
  /\ InitBin \in Bins
  /\ NoOp \notin OpIds
  /\ OpKind \in [OpIds -> OpKinds]
  /\ OpKey \in [OpIds -> Entries]
  /\ OpName \in [OpIds -> Names]
  /\ OpText \in [OpIds -> Texts]
  /\ OpEdit \in [OpIds -> Edits]
  /\ AppendedStates \subseteq {"pending", "applied"}
  /\ Workload \in [Clients -> SUBSET Calls]
  /\ MaxRevision \in Nat

VARIABLES
  st,       \* st[c]: where client c is in its call, with what it has read
  view,     \* view[c]: the last functions page delivered to client c
  effects,  \* history: mutations committed on behalf of each operation
  history   \* history: history[r] is the function table of revision r

clientVars == <<st, view, effects>>
vars == <<storeVars, clientVars, history>>

Idle == [pc |-> "idle"]
NoPage == [pc |-> "none"]

FunctionTable == [Entries -> Names \union {NoRow}]
RowCount(table) == Cardinality({e \in Entries : table[e] # NoRow})

\* The tables a re-import writes, in the order of the transactions.
NativeImport ==
  <<"upsert", "provenance", "memory_regions", "strings", "functions", "xrefs">>
BridgeRefresh ==
  <<"symbols", "functions", "functions", "xrefs", "comments", "datatypes">>
BridgeImport == <<"upsert", "provenance">> \o BridgeRefresh
ImportSteps == {"upsert", "provenance", "functions", "comments"} \union ImportTables

\* The annotation tables with a replace_* call.
TypeTables ==
  {"type_defs", "type_fields", "prototypes", "stack_variables", "type_links"}

OpOrNone == OpIds \union {NoOp}
ClientState ==
       {Idle}
  \union [pc : {"rename"}, entry : Entries, name : Names, undo : Names, op : OpOrNone]
  \union [pc : {"comment"}, entry : Entries, text : Texts,
          previous : Texts \union {NoRow}, snap : Nat, op : OpOrNone]
  \union [pc : {"undo"}, seq : Nat, entry : JournalEntry]
  \union [pc : {"page_rows"}, total : Nat, from : Nat]
  \union [pc : {"page_revision"}, total : Nat, rows : FunctionTable, from : Nat]
  \union [pc : {"trace"}, snap : Nat]
  \union [pc : {"apply", "mark"}, op : OpIds]
  \union [pc : {"mark_write"}, op : OpIds, snap : Nat]
  \union [pc : {"import"}, bin : Bins, todo : Seq(ImportSteps) \ {<<>>}]

Page == [pc : {"page"}, total : Nat, rows : FunctionTable, revision : Nat, from : Nat]

CoreTypeOK ==
  /\ StoreTypeOK
  /\ st \in [Clients -> ClientState]
  /\ view \in [Clients -> Page \union {NoPage}]
  /\ effects \in [OpIds -> Nat]
  /\ history \in Seq(FunctionTable)

Init ==
  /\ StoreInit(InitBin)
  /\ st = [c \in Clients |-> Idle]
  /\ view = [c \in Clients |-> NoPage]
  /\ effects = [o \in OpIds |-> 0]
  /\ history = <<[e \in Entries |-> NoRow], BinFunctions[InitBin]>>

Goto(c, s) == st' = [st EXCEPT ![c] = s]

\* Fault: every call ends by marking an operation.
ContinueToMark(c, op) == Goto(c, [pc |-> "mark", op |-> op])

\* After the mutation of a collaboration operation comes its mark; a call of
\* a client's own ends.
Continue(c, op) == Goto(c, IF op = NoOp THEN Idle ELSE [pc |-> "mark", op |-> op])
CountEffect(op) ==
  effects' = IF op = NoOp THEN effects ELSE [effects EXCEPT ![op] = @ + 1]

\* Client c starts a call.
Starts(c, call) ==
  /\ st[c] = Idle
  /\ call \in Workload[c]
  /\ revision < MaxRevision

-----------------------------------------------------------------------------
(* Undoable commands. *)

\* rename_command reads the old name outside the transaction that renames.
ReadOldName(c, e, name, op) ==
  /\ functions[e] # NoRow
  /\ Goto(c, [pc |-> "rename", entry |-> e, name |-> name,
              undo |-> functions[e], op |-> op])

BeginRename(c) ==
  /\ Starts(c, "rename_command")
  /\ \E e \in Entries, name \in Names : ReadOldName(c, e, name, NoOp)
  /\ UNCHANGED <<storeVars, view, effects>>

CommitRename(c) ==
  /\ st[c].pc = "rename"
  /\ RenameCommand(st[c].entry, st[c].name, st[c].undo)
  /\ CountEffect(st[c].op)
  /\ Continue(c, st[c].op)
  /\ UNCHANGED view

\* comment_command reads the previous row inside its transaction.
ReadPreviousComment(c, e, text, op) ==
  Goto(c, [pc |-> "comment", entry |-> e, text |-> text,
           previous |-> comments[e], snap |-> commits, op |-> op])

BeginComment(c) ==
  /\ Starts(c, "comment_command")
  /\ \E e \in Entries, text \in Texts : ReadPreviousComment(c, e, text, NoOp)
  /\ UNCHANGED <<storeVars, view, effects>>

\* Fault: the previous text is read before the transaction starts.
CommitCommentUnguarded(c) ==
  /\ st[c].pc = "comment"
  /\ CommentCommand(st[c].entry, st[c].text, st[c].previous)
  /\ CountEffect(st[c].op)
  /\ Continue(c, st[c].op)
  /\ UNCHANGED view

CommitComment(c) ==
  /\ st[c].pc = "comment"
  /\ st[c].snap = commits
  /\ CommentCommand(st[c].entry, st[c].text, st[c].previous)
  /\ CountEffect(st[c].op)
  /\ Continue(c, st[c].op)
  /\ UNCHANGED view

\* undo_last reads the newest live journal row, then undoes it in a
\* transaction of its own.
BeginUndo(c) ==
  /\ Starts(c, "undo_last")
  /\ \E seq \in LiveEntries :
       /\ IsJournalLatest(seq)
       /\ Goto(c, [pc |-> "undo", seq |-> seq, entry |-> journal[seq]])
  /\ UNCHANGED <<storeVars, view, effects>>

CommitUndo(c) ==
  /\ st[c].pc = "undo"
  /\ LET entry == st[c].entry IN
       \/ /\ entry.kind = "rename"
          /\ UndoRename(entry.key, entry.undo, st[c].seq)
       \/ /\ entry.kind = "comment"
          /\ UndoComment(entry.key, entry.undo, st[c].seq)
  /\ Goto(c, Idle)
  /\ UNCHANGED <<view, effects>>

\* The function of a rename or of its undo is gone: ProgramNotFound, and the
\* transaction rolls back.
FunctionGone(c) ==
  /\ \/ /\ st[c].pc = "rename"
        /\ functions[st[c].entry] = NoRow
     \/ /\ st[c].pc = "undo"
        /\ st[c].entry.kind = "rename"
        /\ functions[st[c].entry.key] = NoRow
  /\ Goto(c, Idle)
  /\ UNCHANGED <<storeVars, view, effects>>

-----------------------------------------------------------------------------
(* Mutations without a journal row: one transaction each. *)

RenameRaw(c) ==
  /\ Starts(c, "rename_function")
  /\ \E e \in Entries, name \in Names : RenameFunction(e, name)
  /\ UNCHANGED clientVars

Annotate(c) ==
  /\ Starts(c, "annotate")
  /\ \/ \E row \in Edits :
          \/ SetBookmark(row)   \/ SetPatch(row)     \/ SetTypeDef(row)
          \/ SetTypeField(row)  \/ SetPrototype(row) \/ SetStackVariable(row)
          \/ SetTypeLink(row)
          \/ \E t \in TypeTables : ReplaceTable(t, row)
     \/ DeleteBookmark
     \/ DeletePatch
  /\ UNCHANGED clientVars

BeginTrace(c) ==
  /\ Starts(c, "append_trace_event")
  /\ Goto(c, [pc |-> "trace", snap |-> commits])
  /\ UNCHANGED <<storeVars, view, effects>>

CommitTrace(c) ==
  /\ st[c].pc = "trace"
  /\ st[c].snap = commits
  /\ AppendTraceEvent("trace")
  /\ Goto(c, Idle)
  /\ UNCHANGED <<view, effects>>

-----------------------------------------------------------------------------
(* Collaboration operations. *)

AppendOp(c) ==
  /\ Starts(c, "append_collaboration_op")
  /\ \E o \in OpIds, state \in AppendedStates : AppendCollaborationOp(o, state)
  /\ UNCHANGED clientVars

\* Fault: the operation is marked instead of routed first.
BeginApplyByMark(c) ==
  /\ Starts(c, "apply_collaboration_op")
  /\ \E o \in OpIds : ops[o] = "pending" /\ Goto(c, [pc |-> "mark", op |-> o])
  /\ UNCHANGED <<storeVars, view, effects>>

\* apply_collaboration_op reads the row, ...
BeginApply(c) ==
  /\ Starts(c, "apply_collaboration_op")
  /\ \E o \in OpIds :
       /\ ops[o] = "pending"
       /\ OpKind[o] # "unsupported"
       /\ Goto(c, [pc |-> "apply", op |-> o])
  /\ UNCHANGED <<storeVars, view, effects>>

\* ... routes it to the Core call of its kind, ...
ApplyEdit(o) ==
  LET row == OpEdit[o] IN
    \/ OpKind[o] = "bookmark" /\ SetBookmark(row)
    \/ OpKind[o] = "patch" /\ SetPatch(row)
    \/ OpKind[o] = "set_type_def" /\ SetTypeDef(row)
    \/ OpKind[o] = "set_type_field" /\ SetTypeField(row)
    \/ OpKind[o] = "set_prototype" /\ SetPrototype(row)
    \/ OpKind[o] = "set_stack_variable" /\ SetStackVariable(row)
    \/ OpKind[o] = "set_type_link" /\ SetTypeLink(row)

RouteOp(c) ==
  /\ st[c].pc = "apply"
  /\ LET o == st[c].op IN
       \/ /\ OpKind[o] = "rename"
          /\ ReadOldName(c, OpKey[o], OpName[o], o)
          /\ UNCHANGED <<storeVars, effects>>
       \/ /\ OpKind[o] = "comment"
          /\ ReadPreviousComment(c, OpKey[o], OpText[o], o)
          /\ UNCHANGED <<storeVars, effects>>
       \/ /\ ApplyEdit(o)
          /\ CountEffect(o)
          /\ Continue(c, o)
       \/ /\ OpKind[o] \in {"note", "trace"}
          /\ Continue(c, o)
          /\ UNCHANGED <<storeVars, effects>>
  /\ UNCHANGED view

\* ... and marks the row in another transaction, which reads first.
ReadMark(c) ==
  /\ st[c].pc = "mark"
  /\ Goto(c, [pc |-> "mark_write", op |-> st[c].op, snap |-> commits])
  /\ UNCHANGED <<storeVars, view, effects>>

CommitMark(c) ==
  /\ st[c].pc = "mark_write"
  /\ st[c].snap = commits
  /\ IF ops[st[c].op] = "pending"
       THEN MarkCollaborationOp(st[c].op)
       ELSE UNCHANGED storeVars
  /\ Goto(c, Idle)
  /\ UNCHANGED <<view, effects>>

-----------------------------------------------------------------------------
(* Re-import: a script of transactions. *)

BeginImport(c) ==
  /\ \E b \in Bins, script \in {NativeImport, BridgeImport, BridgeRefresh} :
       /\ Starts(c, CASE script = NativeImport -> "import_native"
                      [] script = BridgeImport -> "import_program"
                      [] script = BridgeRefresh -> "refresh_from_bridge")
       /\ Goto(c, [pc |-> "import", bin |-> b, todo |-> script])
  /\ UNCHANGED <<storeVars, view, effects>>

ImportStep(c) ==
  /\ st[c].pc = "import"
  /\ LET step == Head(st[c].todo)
         rest == Tail(st[c].todo)
         bin == st[c].bin
     IN /\ \/ step = "upsert" /\ UpsertProgram
           \/ step = "provenance" /\ UpsertProvenance
           \/ step = "functions" /\ ReplaceFunctions(bin)
           \/ step = "comments" /\ ReplaceComments(bin)
           \/ step \in ImportTables /\ ReplaceTable(step, bin)
        /\ Goto(c, IF rest = <<>> THEN Idle ELSE [st[c] EXCEPT !.todo = rest])
  /\ UNCHANGED <<view, effects>>

-----------------------------------------------------------------------------
(* Paged reads: no transaction around the statements. *)

\* Unfiltered: COUNT, then the window, then the revision.
CountRows(c) ==
  /\ st[c] = Idle
  /\ "functions_page" \in Workload[c]
  /\ Goto(c, [pc |-> "page_rows", total |-> RowCount(functions), from |-> revision])
  /\ UNCHANGED <<storeVars, view, effects>>

ReadRows(c) ==
  /\ st[c].pc = "page_rows"
  /\ Goto(c, [pc |-> "page_revision", total |-> st[c].total,
              rows |-> functions, from |-> st[c].from])
  /\ UNCHANGED <<storeVars, view, effects>>

\* Filtered: one scan gives the window and the total, then the revision.
ScanRows(c) ==
  /\ st[c] = Idle
  /\ "functions_page_filtered" \in Workload[c]
  /\ Goto(c, [pc |-> "page_revision", total |-> RowCount(functions),
              rows |-> functions, from |-> revision])
  /\ UNCHANGED <<storeVars, view, effects>>

\* Fault: the page carries the revision read before the window.
StampPageEarly(c) ==
  /\ st[c].pc = "page_revision"
  /\ view' = [view EXCEPT ![c] =
       [pc |-> "page", total |-> st[c].total, rows |-> st[c].rows,
        revision |-> st[c].from, from |-> st[c].from]]
  /\ Goto(c, Idle)
  /\ UNCHANGED <<storeVars, effects>>

StampPage(c) ==
  /\ st[c].pc = "page_revision"
  /\ view' = [view EXCEPT ![c] =
       [pc |-> "page", total |-> st[c].total, rows |-> st[c].rows,
        revision |-> revision, from |-> st[c].from]]
  /\ Goto(c, Idle)
  /\ UNCHANGED <<storeVars, effects>>

-----------------------------------------------------------------------------
(* Failures. *)

\* SQLITE_BUSY_SNAPSHOT.
Busy(c) ==
  /\ st[c].pc \in {"comment", "trace", "mark_write"}
  /\ st[c].snap # commits
  /\ Goto(c, Idle)
  /\ UNCHANGED <<storeVars, view, effects>>

\* The process dies, or a provider or the disk fails, between two
\* transactions; what was committed stays.
Abandon(c) ==
  /\ st[c] # Idle
  /\ Goto(c, Idle)
  /\ UNCHANGED <<storeVars, view, effects>>

-----------------------------------------------------------------------------
Step(c) ==
  \/ BeginRename(c)  \/ CommitRename(c)
  \/ BeginComment(c) \/ CommitComment(c)
  \/ BeginUndo(c)    \/ CommitUndo(c)
  \/ FunctionGone(c)
  \/ RenameRaw(c)    \/ Annotate(c)
  \/ BeginTrace(c)   \/ CommitTrace(c)
  \/ AppendOp(c)     \/ BeginApply(c) \/ RouteOp(c)
  \/ ReadMark(c)     \/ CommitMark(c)
  \/ BeginImport(c)  \/ ImportStep(c)
  \/ CountRows(c)    \/ ReadRows(c) \/ ScanRows(c) \/ StampPage(c)
  \/ Busy(c)         \/ Abandon(c)

RecordHistory ==
  history' = IF revision' = revision THEN history ELSE Append(history, functions')

Next == \E c \in Clients : Step(c) /\ RecordHistory

Spec == Init /\ [][Next]_vars

-----------------------------------------------------------------------------
(* What holds for any number of clients. *)

\* Revisions of the recorded events strictly increase and never run ahead of
\* the program's revision, so events_since(r) returns each later mutation
\* once and in commit order, whoever committed it.
EventsOrdered ==
  /\ \A i, j \in DOMAIN events : i < j => events[i].revision < events[j].revision
  /\ \A i \in DOMAIN events : events[i].revision <= revision

\* A step that changes any durable row (a function, a comment, a fact table,
\* the journal, an operation, the trace) moves the revision by one and
\* records exactly one event, with that revision: bump_and_record is in the
\* transaction of every mutation, also under conflicts and failed calls.
LoggedMutations ==
  [][<<functions, comments, tables, journal, ops, trace>>'
        # <<functions, comments, tables, journal, ops, trace>>
     => /\ revision' = revision + 1
        /\ Len(events') = Len(events) + 1
        /\ events'[Len(events')].revision = revision']_vars

\* The journal row of a comment holds the text the comment had when the
\* command committed: comment_command reads it on the transaction's own
\* snapshot, so no other client's comment can be lost by an undo of it.
CommentUndoCaptures ==
  [][Len(journal') > Len(journal) =>
       LET new == journal'[Len(journal')] IN
         new.kind = "comment" => new.undo = comments[new.key]]_vars

\* An operation marked applied has had its mutation committed: the mark comes
\* last, so a crash or a busy store never loses the mutation of an operation
\* that will not be applied again.  (Notes and traces mutate no facts.)
AppliedHadEffect ==
  \A o \in OpIds :
    ops[o] = "applied" => effects[o] > 0 \/ OpKind[o] \in {"note", "trace"}

\* A functions page holds rows the table had, and a total it had, at some
\* revision between the start of the request and the revision it is stamped
\* with, the total no later than the rows: a page is never older than the
\* request and never newer than its stamp.
PageIsRecent ==
  \A c \in Clients : view[c] # NoPage =>
    \E i \in view[c].from .. view[c].revision :
      /\ view[c].rows = history[i]
      /\ \E j \in view[c].from .. i : view[c].total = RowCount(history[j])

-----------------------------------------------------------------------------
(* What the comments of the code say, and several clients can break. *)

\* "Applies a collaboration operation once."
AppliedOnce == \A o \in OpIds : effects[o] <= 1

\* "a bounded window + total + the revision the window was read at"
PageIsOfItsRevision ==
  \A c \in Clients : view[c] # NoPage =>
    /\ view[c].rows = history[view[c].revision]
    /\ view[c].total = RowCount(view[c].rows)

\* "captures prior name for undo"
RenameUndoCaptures ==
  [][Len(journal') > Len(journal) =>
       LET new == journal'[Len(journal')] IN
         new.kind = "rename" => new.undo = functions[new.key]]_vars
=============================================================================
