------------------------------- MODULE Store -------------------------------
(***************************************************************************)
(* The durable project store of Ventris: crates/lre-db, one SQLite         *)
(* database in WAL mode, restricted to one program.                        *)
(*                                                                         *)
(* Every operator of the second half is one committed transaction, as an   *)
(* action on the store's variables alone.  SQLite serialises committed     *)
(* write transactions, so each is one atomic step; what callers read       *)
(* outside a transaction, and the read-then-write transactions that a      *)
(* commit of somebody else aborts, are the business of module Core.        *)
(*                                                                         *)
(* Abstractions.  A table is a function on its keys (functions, comments,  *)
(* collaboration_ops), a sequence when rows are only appended              *)
(* (revision_events, command_journal, trace_events), and one abstract      *)
(* content per table for the analyst and provider tables no property       *)
(* looks into.  Row columns that no property tells apart are dropped.      *)
(*                                                                         *)
(* A definition under the comment "Fault:" is not the code: it is what the *)
(* definition after it could have become by a slip, and serves to show     *)
(* that a property would notice.                                           *)
(***************************************************************************)
EXTENDS Integers, Sequences

CONSTANTS
  Entries,        \* addresses a function or a comment can sit at
  Names,          \* function names
  Texts,          \* comment texts
  Bins,           \* contents an import can write: the binary's versions
  Edits,          \* values an analyst can store in an annotation table
  BinFunctions,   \* BinFunctions[b]: the function table of binary b
  BinComments,    \* BinComments[b]: the comments the provider exports for b
  OpIds,          \* identifiers of collaboration operations
  NoRow           \* the absence of a row

\* Each binary has a function table and a comment table.
ASSUME BinAssumption ==
  /\ BinFunctions \in [Bins -> [Entries -> Names \union {NoRow}]]
  /\ BinComments \in [Bins -> [Entries -> Texts \union {NoRow}]]

VARIABLES
  revision,   \* programs.revision, the program's mutation epoch
  commits,    \* write transactions committed so far: the WAL's version
  events,     \* revision_events, in commit order
  functions,  \* functions.name by entry
  comments,   \* comments.text by address (of one comment type)
  tables,     \* the content of every other fact table
  journal,    \* command_journal: the entry with seq i is journal[i]
  ops,        \* collaboration_ops: absent, pending (applied = 0) or applied
  trace       \* kinds of the trace_events rows: row i has sequence i

storeVars ==
  <<revision, commits, events, functions, comments, tables, journal, ops, trace>>

AnnotationTables ==
  {"bookmarks", "patches", "type_defs", "type_fields", "prototypes",
   "stack_variables", "type_links"}
ImportTables == {"memory_regions", "strings", "xrefs", "symbols", "datatypes"}
Tables == AnnotationTables \union ImportTables

\* The JSON undo payload and the done flag of a journal row.
JournalEntry ==
       [kind : {"rename"}, key : Entries, undo : Names, done : BOOLEAN]
  \union [kind : {"comment"}, key : Entries, undo : Texts \union {NoRow},
          done : BOOLEAN]

\* The kinds of the event rows; "replace-table" stands for the replace_* of
\* the tables kept as one abstract content.
EventKinds ==
  {"rename", "rename-undo", "comment", "comment-undo", "bookmark",
   "bookmark-delete", "patch", "patch-delete", "type-def", "type-field",
   "prototype", "stack-variable", "type-link", "replace-functions",
   "replace-comments", "replace-table", "trace-event", "collaboration-op",
   "collaboration-apply"}

OpStates == {"absent", "pending", "applied"}

StoreTypeOK ==
  /\ revision \in Nat
  /\ commits \in Nat
  /\ events \in Seq([revision : Nat, kind : EventKinds])
  /\ functions \in [Entries -> Names \union {NoRow}]
  /\ comments \in [Entries -> Texts \union {NoRow}]
  /\ tables \in [Tables -> Bins \union Edits \union {NoRow}]
  /\ journal \in Seq(JournalEntry)
  /\ ops \in [OpIds -> OpStates]
  /\ trace \in Seq({"trace"})

\* A project whose program row was just inserted (revision 1, no event) and
\* whose function table was then filled once from binary b.
StoreInit(b) ==
  /\ revision = 2
  /\ commits = 3
  /\ events = <<[revision |-> 2, kind |-> "replace-functions"]>>
  /\ functions = BinFunctions[b]
  /\ comments = [e \in Entries |-> NoRow]
  /\ tables = [t \in Tables |-> NoRow]
  /\ journal = <<>>
  /\ ops = [o \in OpIds |-> "absent"]
  /\ trace = <<>>

-----------------------------------------------------------------------------
(* Pieces of a transaction. *)

\* Fault: the event row carries the revision before the bump.
BumpThenRecordOld(kind) ==
  /\ revision' = revision + 1
  /\ commits' = commits + 1
  /\ events' = Append(events, [revision |-> revision, kind |-> kind])

\* Every mutation ends by moving the program to its next revision and by
\* appending the event row of that revision.
BumpAndRecord(kind) ==
  /\ revision' = revision + 1
  /\ commits' = commits + 1
  /\ events' = Append(events, [revision |-> revision + 1, kind |-> kind])

\* seq = MAX(seq) + 1: rows are never deleted, so the next index.
JournalPush(kind, key, undo) ==
  journal' = Append(journal, [kind |-> kind, key |-> key,
                              undo |-> undo, done |-> FALSE])

JournalMarkDone(seq) ==
  journal' = [journal EXCEPT ![seq] = [journal[seq] EXCEPT !.done = TRUE]]

\* The journal row undo acts on: the newest that is not done.
LiveEntries == {i \in DOMAIN journal : ~journal[i].done}
\* Fault: ORDER BY seq without DESC.
IsJournalOldest(seq) ==
  seq \in LiveEntries /\ \A i \in LiveEntries : i >= seq
IsJournalLatest(seq) ==
  seq \in LiveEntries /\ \A i \in LiveEntries : i <= seq

-----------------------------------------------------------------------------
(* Transactions. *)

RenameFunction(e, name) ==
  /\ functions[e] # NoRow
  /\ functions' = [functions EXCEPT ![e] = name]
  /\ BumpAndRecord("rename")
  /\ UNCHANGED <<comments, tables, journal, ops, trace>>

RenameCommand(e, name, undoName) ==
  /\ functions[e] # NoRow
  /\ functions' = [functions EXCEPT ![e] = name]
  /\ BumpAndRecord("rename")
  /\ JournalPush("rename", e, undoName)
  /\ UNCHANGED <<comments, tables, ops, trace>>

UndoRename(e, name, seq) ==
  /\ functions[e] # NoRow
  /\ functions' = [functions EXCEPT ![e] = name]
  /\ BumpAndRecord("rename-undo")
  /\ JournalMarkDone(seq)
  /\ UNCHANGED <<comments, tables, ops, trace>>

CommentCommand(e, text, previous) ==
  /\ comments' = [comments EXCEPT ![e] = text]
  /\ BumpAndRecord("comment")
  /\ JournalPush("comment", e, previous)
  /\ UNCHANGED <<functions, tables, ops, trace>>

\* previous = NoRow deletes the row, which may be gone already.
UndoComment(e, previous, seq) ==
  /\ comments' = [comments EXCEPT ![e] = previous]
  /\ BumpAndRecord("comment-undo")
  /\ JournalMarkDone(seq)
  /\ UNCHANGED <<functions, tables, ops, trace>>

\* INSERT ... ON CONFLICT DO UPDATE of one row of an annotation table.
UpsertRow(t, row, kind) ==
  /\ tables' = [tables EXCEPT ![t] = row]
  /\ BumpAndRecord(kind)
  /\ UNCHANGED <<functions, comments, journal, ops, trace>>

SetBookmark(row) == UpsertRow("bookmarks", row, "bookmark")
DeleteBookmark == UpsertRow("bookmarks", NoRow, "bookmark-delete")
SetPatch(row) == UpsertRow("patches", row, "patch")
DeletePatch == UpsertRow("patches", NoRow, "patch-delete")
SetTypeDef(row) == UpsertRow("type_defs", row, "type-def")
SetTypeField(row) == UpsertRow("type_fields", row, "type-field")
SetPrototype(row) == UpsertRow("prototypes", row, "prototype")
SetStackVariable(row) == UpsertRow("stack_variables", row, "stack-variable")
SetTypeLink(row) == UpsertRow("type_links", row, "type-link")

\* DELETE of every row of the table, INSERT of the provider's rows.
ReplaceFunctions(b) ==
  /\ functions' = BinFunctions[b]
  /\ BumpAndRecord("replace-functions")
  /\ UNCHANGED <<comments, tables, journal, ops, trace>>

ReplaceComments(b) ==
  /\ comments' = BinComments[b]
  /\ BumpAndRecord("replace-comments")
  /\ UNCHANGED <<functions, tables, journal, ops, trace>>

\* Fault: the table is replaced without bump_and_record.
ReplaceTableSilently(t, b) ==
  /\ tables' = [tables EXCEPT ![t] = b]
  /\ commits' = commits + 1
  /\ UNCHANGED <<revision, events, functions, comments, journal, ops, trace>>

ReplaceTable(t, b) ==
  /\ tables' = [tables EXCEPT ![t] = b]
  /\ BumpAndRecord("replace-table")
  /\ UNCHANGED <<functions, comments, journal, ops, trace>>

\* upsert_program is three statements, each its own transaction.  On an
\* existing program the first one moves the revision and records no event;
\* the last one rewrites the provenance row.
UpsertProgram ==
  /\ revision' = revision + 1
  /\ commits' = commits + 1
  /\ UNCHANGED <<events, functions, comments, tables, journal, ops, trace>>

UpsertProvenance ==
  /\ commits' = commits + 1
  /\ UNCHANGED <<revision, events, functions, comments, tables, journal, ops, trace>>

AppendTraceEvent(kind) ==
  /\ trace' = Append(trace, kind)
  /\ BumpAndRecord("trace-event")
  /\ UNCHANGED <<functions, comments, tables, journal, ops>>

\* INSERT OR IGNORE: only a new op_id is stored, with the flag it came with.
AppendCollaborationOp(o, state) ==
  /\ ops[o] = "absent"
  /\ ops' = [ops EXCEPT ![o] = state]
  /\ BumpAndRecord("collaboration-op")
  /\ UNCHANGED <<functions, comments, tables, journal, trace>>

MarkCollaborationOp(o) ==
  /\ ops[o] = "pending"
  /\ ops' = [ops EXCEPT ![o] = "applied"]
  /\ BumpAndRecord("collaboration-apply")
  /\ UNCHANGED <<functions, comments, tables, journal, trace>>
=============================================================================
