--------------------------- MODULE CoreUndoProofs ---------------------------
(***************************************************************************)
(* The command journal implements UndoStack for one analyst who works      *)
(* alone, whatever the project holds and however long the journal grows.   *)
(***************************************************************************)
EXTENDS CoreUndo, CoreProofs, WellFoundedInduction

\* One client, which makes neither of the calls that change a name or a comment
\* past the journal: a raw rename, and the re-imports.
LoneAnalyst(c) ==
  /\ Clients = {c}
  /\ Workload[c] \cap {"rename_function", "import_native", "import_program",
                       "refresh_from_bridge"} = {}

-----------------------------------------------------------------------------
(* Minima. *)

LEMMA MinIsLeast ==
  ASSUME NEW S \in SUBSET Nat, S # {}
  PROVE  Min(S) \in S /\ \A j \in S : Min(S) <= j
<1> DEFINE Less == {p \in Nat \X Nat : p[1] < p[2]}
<1>1. IsWellFoundedOn(Less, Nat)
  BY NatLessThanWellFounded, Zenon DEF OpToRel
<1>2. \A x, y \in Nat : y < x => <<y, x>> \in Less
  OBVIOUS
<1> HIDE DEF Less
<1>3. PICK x \in S : \A y \in S : ~ (<<y, x>> \in Less)
  BY <1>1, WFMin, Zenon
<1>4. \A y \in S : ~ (y < x)
  BY <1>2, <1>3
<1>5. \A y \in S : x <= y
  BY <1>4
<1> QED
  BY <1>5 DEF Min

\* A set has one least element, so a set with the same least element has the
\* same minimum.
LEMMA MinIs ==
  ASSUME NEW S \in SUBSET Nat, NEW i \in S, \A j \in S : i <= j
  PROVE  Min(S) = i
<1>1. Min(S) \in S /\ Min(S) <= i
  BY MinIsLeast
<1> DEFINE m == Min(S)
<1> HIDE DEF m
<1>2. m \in Nat /\ m <= i /\ i <= m
  BY <1>1 DEF m
<1>3. m = i
  BY <1>2
<1> QED
  BY <1>3 DEF m

-----------------------------------------------------------------------------
(* What the lone client holds between the statements of a command. *)

\* The value a command will journal is the one it will replace, the row an undo
\* will work on is still the newest live one, and no import is running.
Holds(c) ==
  /\ st[c].pc = "rename" => st[c].undo = functions[st[c].entry]
  /\ st[c].pc = "comment" => st[c].previous = comments[st[c].entry]
  /\ st[c].pc = "undo" =>
       IsJournalLatest(st[c].seq) /\ st[c].entry = journal[st[c].seq]
  /\ st[c].pc # "import"

Sights == <<functions, comments, journal>>

\* A step of the lone client journals a command, undoes one, or changes nothing
\* an undo is about.
LEMMA LoneStep ==
  ASSUME NEW c, LoneAnalyst(c), CoreTypeOK, Holds(c), Step(c)
  PROVE  CommitRename(c) \/ CommitComment(c) \/ CommitUndo(c) \/ UNCHANGED Sights
<1>0. c \in Clients /\ ~ RenameRaw(c) /\ ~ ImportStep(c)
  BY DEF LoneAnalyst, RenameRaw, ImportStep, Holds, Starts
<1>1. CASE \/ BeginRename(c) \/ BeginComment(c) \/ BeginUndo(c) \/ FunctionGone(c)
           \/ BeginTrace(c) \/ BeginApply(c) \/ ReadMark(c) \/ BeginImport(c)
           \/ CountRows(c) \/ ReadRows(c) \/ ScanRows(c) \/ StampPage(c)
           \/ Busy(c) \/ Abandon(c)
  BY <1>1 DEF BeginRename, BeginComment, BeginUndo, FunctionGone, BeginTrace,
              BeginApply, ReadMark, BeginImport, CountRows, ReadRows, ScanRows,
              StampPage, Busy, Abandon, storeVars, Sights
<1>2. CASE Annotate(c)
  BY <1>2 DEF Annotate, SetBookmark, SetPatch, SetTypeDef, SetTypeField,
              SetPrototype, SetStackVariable, SetTypeLink, DeleteBookmark,
              DeletePatch, UpsertRow, ReplaceTable, Sights
<1>3. CASE RouteOp(c)
  BY <1>3 DEF RouteOp, ApplyEdit, SetBookmark, SetPatch, SetTypeDef, SetTypeField,
              SetPrototype, SetStackVariable, SetTypeLink, UpsertRow, storeVars,
              Sights
<1>4. CASE CommitTrace(c) \/ AppendOp(c) \/ CommitMark(c)
  BY <1>4 DEF CommitTrace, AppendTraceEvent, AppendOp, AppendCollaborationOp,
              CommitMark, MarkCollaborationOp, storeVars, Sights
<1> QED
  BY <1>0, <1>1, <1>2, <1>3, <1>4 DEF Step

\* What the client holds after a step it held before, or has read in that step;
\* a command that commits leaves nothing held.
LEMMA LoneReads ==
  ASSUME NEW c, LoneAnalyst(c), CoreTypeOK, Holds(c), Step(c)
  PROVE  /\ \/ st'[c] = st[c]
            \/ st'[c].pc \notin {"rename", "comment", "undo", "import"}
            \/ /\ UNCHANGED storeVars
               /\ \/ st'[c].pc = "rename" /\ st'[c].undo = functions[st'[c].entry]
                  \/ st'[c].pc = "comment" /\ st'[c].previous = comments[st'[c].entry]
                  \/ /\ st'[c].pc = "undo"
                     /\ IsJournalLatest(st'[c].seq)
                     /\ st'[c].entry = journal[st'[c].seq]
         /\ CommitRename(c) \/ CommitComment(c) \/ CommitUndo(c)
              => st'[c].pc \notin {"rename", "comment", "undo", "import"}
<1> DEFINE Reads ==
      /\ UNCHANGED storeVars
      /\ \/ st'[c].pc = "rename" /\ st'[c].undo = functions[st'[c].entry]
         \/ st'[c].pc = "comment" /\ st'[c].previous = comments[st'[c].entry]
         \/ /\ st'[c].pc = "undo"
            /\ IsJournalLatest(st'[c].seq)
            /\ st'[c].entry = journal[st'[c].seq]
<1> DEFINE Empty == st'[c].pc \notin {"rename", "comment", "undo", "import"}
<1>0. /\ c \in Clients /\ st \in [Clients -> ClientState] /\ st[c] \in ClientState
      /\ NoOp \in OpOrNone
  BY DEF LoneAnalyst, CoreTypeOK, OpOrNone
<1>a. ASSUME Goto(c, Idle) PROVE Empty
  BY <1>0, <1>a, GotoAt DEF Idle
<1>b. ASSUME NEW op, Continue(c, op) PROVE Empty
  BY <1>0, <1>b, GotoAt DEF Continue, Idle
<1>c. ASSUME NEW e, NEW name, NEW op, ReadOldName(c, e, name, op),
             UNCHANGED storeVars
      PROVE  Reads
  BY <1>0, <1>c, GotoAt DEF ReadOldName
<1>d. ASSUME NEW e, NEW text, NEW op, ReadPreviousComment(c, e, text, op),
             UNCHANGED storeVars
      PROVE  Reads
  BY <1>0, <1>d, GotoAt DEF ReadPreviousComment
<1>e. ASSUME UNCHANGED storeVars, NEW seq \in LiveEntries, IsJournalLatest(seq),
             Goto(c, [pc |-> "undo", seq |-> seq, entry |-> journal[seq]])
      PROVE  Reads
  BY <1>0, <1>e, GotoAt
<1>f. ASSUME NEW s, Goto(c, s),
             s.pc \notin {"rename", "comment", "undo", "import"}
      PROVE  Empty
  BY <1>0, <1>f, GotoAt
<1> HIDE DEF Reads, Empty
<1>1. ASSUME BeginRename(c) \/ BeginComment(c) PROVE Reads
  BY <1>1, <1>c, <1>d DEF BeginRename, BeginComment
<1>2. ASSUME CommitRename(c) \/ CommitComment(c) \/ CommitUndo(c) PROVE Empty
  BY <1>2, <1>a, <1>b DEF CommitRename, CommitComment, CommitUndo
<1>3. ASSUME BeginUndo(c) PROVE Reads
  BY <1>3, <1>e DEF BeginUndo
<1>4. ASSUME FunctionGone(c) \/ Busy(c) \/ Abandon(c) \/ CommitTrace(c) \/ CommitMark(c)
             \/ StampPage(c)
      PROVE  Empty
  BY <1>4, <1>a DEF FunctionGone, Busy, Abandon, CommitTrace, CommitMark, StampPage
<1>5. ASSUME Annotate(c) \/ AppendOp(c) \/ RenameRaw(c) PROVE st'[c] = st[c]
  BY <1>5 DEF Annotate, AppendOp, RenameRaw, clientVars
<1>6. ASSUME \/ BeginTrace(c) \/ BeginApply(c) \/ ReadMark(c)
             \/ CountRows(c) \/ ReadRows(c) \/ ScanRows(c)
      PROVE  Empty
  <2>1. \E s : Goto(c, s) /\ s.pc \notin {"rename", "comment", "undo", "import"}
    <3>1. CASE BeginTrace(c)
      BY <3>1 DEF BeginTrace
    <3>2. CASE BeginApply(c)
      BY <3>2 DEF BeginApply
    <3>3. CASE ReadMark(c)
      BY <3>3 DEF ReadMark
    <3>4. CASE CountRows(c)
      BY <3>4 DEF CountRows
    <3>5. CASE ReadRows(c)
      BY <3>5 DEF ReadRows
    <3>6. CASE ScanRows(c)
      BY <3>6 DEF ScanRows
    <3> QED
      BY <1>6, <3>1, <3>2, <3>3, <3>4, <3>5, <3>6
  <2> QED
    BY <2>1, <1>f
<1>7. ASSUME RouteOp(c) PROVE Reads \/ Empty
  BY <1>7, <1>b, <1>c, <1>d DEF RouteOp
<1>8. ~ BeginImport(c)
  <2> SUFFICES ASSUME BeginImport(c) PROVE FALSE
    OBVIOUS
  <2>1. PICK script \in {NativeImport, BridgeImport, BridgeRefresh} :
          Starts(c, CASE script = NativeImport -> "import_native"
                      [] script = BridgeImport -> "import_program"
                      [] script = BridgeRefresh -> "refresh_from_bridge")
    BY DEF BeginImport
  <2>2. \E call \in {"import_native", "import_program", "refresh_from_bridge"} :
          call \in Workload[c]
    BY <2>1 DEF Starts
  <2> QED
    BY <2>2 DEF LoneAnalyst
<1>9. ~ ImportStep(c)
  BY DEF ImportStep, Holds
<1>10. Reads \/ Empty \/ st'[c] = st[c]
  BY <1>1, <1>2, <1>3, <1>4, <1>5, <1>6, <1>7, <1>8, <1>9 DEF Step
<1> QED
  BY <1>2, <1>10 DEF Reads, Empty

LEMMA HoldsInductive ==
  ASSUME NEW c, LoneAnalyst(c), CoreTypeOK, Holds(c), [Next]_vars
  PROVE  Holds(c)'
<1>1. CASE UNCHANGED vars
  BY <1>1 DEF vars, clientVars, storeVars, Holds, IsJournalLatest, LiveEntries
<1>2. CASE Next
  <2>1. Step(c)
    BY <1>2 DEF Next, LoneAnalyst
  <2>2. \/ st'[c].pc \notin {"rename", "comment", "undo", "import"}
        \/ st'[c] = st[c] /\ UNCHANGED Sights
        \/ /\ UNCHANGED Sights
           /\ \/ st'[c].pc = "rename" /\ st'[c].undo = functions[st'[c].entry]
              \/ st'[c].pc = "comment" /\ st'[c].previous = comments[st'[c].entry]
              \/ /\ st'[c].pc = "undo"
                 /\ IsJournalLatest(st'[c].seq)
                 /\ st'[c].entry = journal[st'[c].seq]
    BY <2>1, LoneStep, LoneReads DEF storeVars, Sights
  <2>3. CASE st'[c].pc \notin {"rename", "comment", "undo", "import"}
    BY <2>3 DEF Holds
  <2>4. CASE st'[c] = st[c] /\ UNCHANGED Sights
    BY <2>4 DEF Holds, Sights, IsJournalLatest, LiveEntries
  <2>5. CASE /\ UNCHANGED Sights
             /\ \/ st'[c].pc = "rename" /\ st'[c].undo = functions[st'[c].entry]
                \/ st'[c].pc = "comment" /\ st'[c].previous = comments[st'[c].entry]
                \/ /\ st'[c].pc = "undo"
                   /\ IsJournalLatest(st'[c].seq)
                   /\ st'[c].entry = journal[st'[c].seq]
    BY <2>5 DEF Holds, Sights, IsJournalLatest, LiveEntries
  <2> QED
    BY <2>2, <2>3, <2>4, <2>5
<1> QED
  BY <1>1, <1>2

-----------------------------------------------------------------------------
(* Cells, and the rows that set them. *)

LEMMA CellsArePairs ==
  /\ \A e \in Entries : <<"rename", e>> \in Cells /\ <<"comment", e>> \in Cells
  /\ \A k \in Cells : k[2] \in Entries /\ k = <<k[1], k[2]>>
       /\ (k[1] = "rename" \/ k[1] = "comment")
  /\ \A entry \in JournalEntry : Cell(entry) \in Cells
BY DEF Cells, Cell, JournalEntry

\* The analyst sees a rename or a comment in the cell it sets and nowhere else.
LEMMA ShownRename ==
  ASSUME functions \in [Entries -> Names \union {NoRow}], NEW e \in Entries, NEW name,
         functions' = [functions EXCEPT ![e] = name], comments' = comments
  PROVE  Shown' = [Shown EXCEPT ![<<"rename", e>>] = name]
<1> DEFINE cell == <<"rename", e>>
<1>1. ASSUME NEW k \in Cells
      PROVE  (IF k[1] = "rename" THEN functions'[k[2]] ELSE comments'[k[2]])
               = IF k = cell THEN name ELSE Shown[k]
  <2>1. k[2] \in Entries /\ k = <<k[1], k[2]>>
    BY CellsArePairs
  <2>2. k = cell <=> k[1] = "rename" /\ k[2] = e
    BY <2>1
  <2> HIDE DEF cell
  <2> QED
    BY <2>1, <2>2 DEF Shown
<1> HIDE DEF cell
<1>2. Shown' = [k \in Cells |-> IF k = cell THEN name ELSE Shown[k]]
  BY <1>1 DEF Shown
<1>3. [Shown EXCEPT ![cell] = name] = [k \in Cells |-> IF k = cell THEN name ELSE Shown[k]]
  BY DEF Shown
<1> QED
  BY <1>2, <1>3 DEF cell

LEMMA ShownComment ==
  ASSUME comments \in [Entries -> Texts \union {NoRow}], NEW e \in Entries, NEW text,
         comments' = [comments EXCEPT ![e] = text], functions' = functions
  PROVE  Shown' = [Shown EXCEPT ![<<"comment", e>>] = text]
<1> DEFINE cell == <<"comment", e>>
<1>1. ASSUME NEW k \in Cells
      PROVE  (IF k[1] = "rename" THEN functions'[k[2]] ELSE comments'[k[2]])
               = IF k = cell THEN text ELSE Shown[k]
  <2>1. k[2] \in Entries /\ k = <<k[1], k[2]>> /\ (k[1] = "rename" \/ k[1] = "comment")
    BY CellsArePairs
  <2>2. k = cell <=> k[1] = "comment" /\ k[2] = e
    BY <2>1
  <2>3. "rename" # "comment"
    OBVIOUS
  <2> HIDE DEF cell
  <2> QED
    BY <2>1, <2>2, <2>3 DEF Shown
<1> HIDE DEF cell
<1>2. Shown' = [k \in Cells |-> IF k = cell THEN text ELSE Shown[k]]
  BY <1>1 DEF Shown
<1>3. [Shown EXCEPT ![cell] = text] = [k \in Cells |-> IF k = cell THEN text ELSE Shown[k]]
  BY DEF Shown
<1> QED
  BY <1>2, <1>3 DEF cell

LEMMA LiveRows ==
  ASSUME journal \in Seq(JournalEntry), NEW n, NEW k
  PROVE  /\ LiveEntries \subseteq 1 .. Len(journal) /\ LiveEntries \in SUBSET Nat
         /\ Live(n, k) \subseteq LiveEntries /\ Live(n, k) \in SUBSET Nat
BY DEF LiveEntries, Live

-----------------------------------------------------------------------------
(* A command pushes a row. *)

LEMMA PushedRows ==
  ASSUME journal \in Seq(JournalEntry), NEW row \in JournalEntry, ~ row.done,
         journal' = Append(journal, row)
  PROVE  /\ Len(journal) \in Nat
         /\ \A i \in LiveEntries : i < Len(journal) + 1 /\ journal'[i] = journal[i]
         /\ journal'[Len(journal) + 1] = row
         /\ LiveEntries' = LiveEntries \union {Len(journal) + 1}
<1> DEFINE N == Len(journal)
<1>1. /\ N \in Nat
      /\ DOMAIN journal' = 1 .. N + 1 /\ DOMAIN journal = 1 .. N
      /\ \A i \in 1 .. N : journal'[i] = journal[i]
      /\ journal'[N + 1] = row
  OBVIOUS
<1> HIDE DEF N
<1>2. 1 .. N + 1 = (1 .. N) \union {N + 1}
  BY <1>1
<1>3. LiveEntries' = {i \in (1 .. N) \union {N + 1} : ~ journal'[i].done}
  BY <1>1, <1>2 DEF LiveEntries
<1>4. {i \in (1 .. N) \union {N + 1} : ~ journal'[i].done}
        = {i \in 1 .. N : ~ journal[i].done} \union {N + 1}
  BY <1>1
<1>5. {i \in 1 .. N : ~ journal[i].done} = LiveEntries
  BY <1>1 DEF LiveEntries
<1>6. \A i \in LiveEntries : i \in 1 .. N
  BY <1>1 DEF LiveEntries
<1> QED
  BY <1>1, <1>3, <1>4, <1>5, <1>6 DEF N

LEMMA PushedLive ==
  ASSUME journal \in Seq(JournalEntry), NEW row \in JournalEntry, ~ row.done,
         journal' = Append(journal, row), NEW n \in Nat, NEW k
  PROVE  Live(n, k)' =
           Live(n, k) \union
             (IF Len(journal) + 1 >= n /\ Cell(row) = k THEN {Len(journal) + 1} ELSE {})
<1>1. \A i \in LiveEntries' :
        i \in Live(n, k)' <=> i >= n /\ Cell(journal'[i]) = k
  BY DEF Live
<1>2. \A i \in LiveEntries : i \in Live(n, k) <=> i >= n /\ Cell(journal[i]) = k
  BY DEF Live
<1>3. Live(n, k)' \subseteq LiveEntries' /\ Live(n, k) \subseteq LiveEntries
  BY DEF Live
<1> QED
  BY <1>1, <1>2, <1>3, PushedRows

\* Undoing the rows up to an older one still shows what it did: the new command
\* journalled what its cell showed.
LEMMA PushedUndone ==
  ASSUME journal \in Seq(JournalEntry), NEW row \in JournalEntry, ~ row.done,
         journal' = Append(journal, row),
         NEW v, Shown' = [Shown EXCEPT ![Cell(row)] = v],
         row.undo = Shown[Cell(row)],
         NEW k \in Cells
  PROVE  /\ \A n \in LiveEntries : Undone(n, k)' = Undone(n, k)
         /\ \A n : n = Len(journal) + 1 => Undone(n, k)' = Shown[k]
<1> PICK N : N = Len(journal) + 1
  OBVIOUS
<1>0. /\ N \in Nat
      /\ \A i \in LiveEntries : i \in Nat /\ i < N /\ journal'[i] = journal[i]
      /\ journal'[N] = row
      /\ LiveEntries' = LiveEntries \union {N}
  BY PushedRows, LiveRows
<1>1. \A n \in Nat : Live(n, k)' =
        Live(n, k) \union (IF N >= n /\ Cell(row) = k THEN {N} ELSE {})
  BY PushedLive
<1>2. Shown'[k] = IF k = Cell(row) THEN v ELSE Shown[k]
  BY CellsArePairs DEF Shown
<1>3. \A n : Undone(n, k)' =
        IF Live(n, k)' = {} THEN Shown'[k] ELSE journal'[Min(Live(n, k)')].undo
  BY DEF Undone
<1>4. ASSUME NEW n \in LiveEntries
      PROVE  Undone(n, k)' = Undone(n, k)
  <2>1. n \in Nat /\ N >= n
    BY <1>0
  <2>2. Live(n, k) \in SUBSET Nat /\ Live(n, k) \subseteq LiveEntries
    BY LiveRows
  <2>3. CASE Live(n, k) = {} /\ Cell(row) = k
    <3>1. Live(n, k)' = {N}
      BY <1>1, <2>1, <2>3
    <3>2. Min({N}) = N
      BY <1>0, MinIs
    <3> QED
      BY <1>0, <1>3, <2>3, <3>1, <3>2 DEF Undone
  <2>4. CASE Live(n, k) = {} /\ Cell(row) # k
    <3>1. Live(n, k)' = {}
      BY <1>1, <2>1, <2>4
    <3> QED
      BY <1>2, <1>3, <2>4, <3>1 DEF Undone
  <2>5. CASE Live(n, k) # {}
    <3> DEFINE m == Min(Live(n, k))
    <3>1. m \in Live(n, k) /\ \A j \in Live(n, k) : m <= j
      BY <2>2, <2>5, MinIsLeast
    <3> HIDE DEF m
    <3>2. Live(n, k)' \in SUBSET Nat /\ m \in Live(n, k)'
          /\ \A j \in Live(n, k)' : m <= j
      BY <1>0, <1>1, <2>1, <2>2, <3>1
    <3>3. Min(Live(n, k)') = m
      BY <3>2, MinIs
    <3>4. journal'[m] = journal[m]
      BY <1>0, <2>2, <3>1
    <3> QED
      BY <1>3, <2>5, <3>2, <3>3, <3>4 DEF Undone, m
  <2> QED
    BY <2>3, <2>4, <2>5
<1>5. Undone(N, k)' = Shown[k]
  <2>1. Live(N, k) = {}
    BY <1>0, LiveRows DEF Live
  <2>2. CASE Cell(row) = k
    <3>1. Live(N, k)' = {N}
      BY <1>0, <1>1, <2>1, <2>2
    <3>2. Min({N}) = N
      BY <1>0, MinIs
    <3>3. Undone(N, k)' = journal'[Min(Live(N, k)')].undo
      BY <1>3, <3>1
    <3>4. Undone(N, k)' = journal'[N].undo
      BY <3>1, <3>2, <3>3
    <3> QED
      BY <1>0, <2>2, <3>4
  <2>3. CASE Cell(row) # k
    <3>1. Live(N, k)' = {}
      BY <1>0, <1>1, <2>1, <2>3
    <3> QED
      BY <1>2, <1>3, <2>3, <3>1
  <2> QED
    BY <2>2, <2>3
<1> QED
  BY <1>4, <1>5

-----------------------------------------------------------------------------
(* An undo marks the newest live row done. *)

LEMMA DoneRows ==
  ASSUME journal \in Seq(JournalEntry), NEW seq \in LiveEntries, JournalMarkDone(seq)
  PROVE  /\ LiveEntries' = LiveEntries \ {seq}
         /\ \A i \in LiveEntries' : journal'[i] = journal[i]
<1> DEFINE Marked == [journal[seq] EXCEPT !.done = TRUE]
<1>1. /\ seq \in DOMAIN journal
      /\ DOMAIN journal' = DOMAIN journal
      /\ journal'[seq] = Marked
      /\ \A i \in DOMAIN journal \ {seq} : journal'[i] = journal[i]
  BY DEF JournalMarkDone, LiveEntries
<1>2. Marked.done
  <2>1. journal[seq] \in JournalEntry
    BY <1>1
  <2> QED
    BY <2>1 DEF JournalEntry
<1> HIDE DEF Marked
<1> QED
  BY <1>1, <1>2 DEF LiveEntries

LEMMA DoneLive ==
  ASSUME journal \in Seq(JournalEntry), NEW seq \in LiveEntries, JournalMarkDone(seq),
         NEW n, NEW k
  PROVE  Live(n, k)' = Live(n, k) \ {seq}
<1>1. \A i \in LiveEntries' :
        i \in Live(n, k)' <=> i >= n /\ Cell(journal'[i]) = k
  BY DEF Live
<1>2. \A i \in LiveEntries : i \in Live(n, k) <=> i >= n /\ Cell(journal[i]) = k
  BY DEF Live
<1>3. Live(n, k)' \subseteq LiveEntries' /\ Live(n, k) \subseteq LiveEntries
  BY DEF Live
<1> QED
  BY <1>1, <1>2, <1>3, DoneRows

\* What is shown after the undo is what undoing that row alone shows, and
\* undoing the rows up to an older one still shows what it did.
LEMMA DoneUndone ==
  ASSUME journal \in Seq(JournalEntry), NEW seq, IsJournalLatest(seq),
         JournalMarkDone(seq),
         Shown' = [Shown EXCEPT ![Cell(journal[seq])] = journal[seq].undo],
         NEW k \in Cells
  PROVE  /\ Undone(seq, k) = Shown'[k]
         /\ \A n \in LiveEntries' : Undone(n, k)' = Undone(n, k)
<1>0. /\ seq \in LiveEntries /\ seq \in Nat
      /\ \A i \in LiveEntries : i \in Nat /\ i <= seq
  BY LiveRows DEF IsJournalLatest
<1>1. /\ LiveEntries' = LiveEntries \ {seq}
      /\ \A i \in LiveEntries' : journal'[i] = journal[i]
      /\ \A n : Live(n, k)' = Live(n, k) \ {seq}
  BY <1>0, DoneRows, DoneLive
<1>2. Shown'[k] = IF k = Cell(journal[seq]) THEN journal[seq].undo ELSE Shown[k]
  BY CellsArePairs DEF Shown
<1>3. \A n : Undone(n, k)' =
        IF Live(n, k)' = {} THEN Shown'[k] ELSE journal'[Min(Live(n, k)')].undo
  BY DEF Undone
<1>4. Min({seq}) = seq
  BY <1>0, MinIs
<1>5. \A n \in LiveEntries : seq \in Live(n, k) <=> k = Cell(journal[seq])
  BY <1>0 DEF Live
<1>6. Undone(seq, k) = Shown'[k]
  <2>1. Live(seq, k) \subseteq {seq}
    <3>1. \A i \in Live(seq, k) : i \in LiveEntries /\ i >= seq
      BY DEF Live
    <3>2. \A i \in Live(seq, k) : i \in Nat /\ i <= seq /\ i >= seq
      BY <1>0, <3>1
    <3>3. \A i \in Live(seq, k) : i = seq
      BY <1>0, <3>2
    <3> QED
      BY <3>3
  <2>2. CASE k = Cell(journal[seq])
    <3>1. Live(seq, k) = {seq}
      BY <1>0, <1>5, <2>1, <2>2
    <3>2. Undone(seq, k) = journal[Min(Live(seq, k))].undo
      BY <3>1 DEF Undone
    <3>3. Undone(seq, k) = journal[seq].undo
      BY <1>4, <3>1, <3>2
    <3> QED
      BY <1>2, <2>2, <3>3
  <2>3. CASE k # Cell(journal[seq])
    <3>1. Live(seq, k) = {}
      BY <1>0, <1>5, <2>1, <2>3
    <3>2. Undone(seq, k) = Shown[k]
      BY <3>1 DEF Undone
    <3> QED
      BY <1>2, <2>3, <3>2
  <2> QED
    BY <2>2, <2>3
<1>7. ASSUME NEW n \in LiveEntries'
      PROVE  Undone(n, k)' = Undone(n, k)
  <2>0. n \in LiveEntries
    BY <1>1
  <2>1. Live(n, k) \in SUBSET Nat /\ Live(n, k) \subseteq LiveEntries
    BY LiveRows
  <2>2. CASE Live(n, k) = {}
    <3>1. Live(n, k)' = {} /\ k # Cell(journal[seq])
      BY <1>1, <1>5, <2>0, <2>2
    <3>2. Undone(n, k)' = Shown'[k] /\ Undone(n, k) = Shown[k]
      BY <1>3, <2>2, <3>1 DEF Undone
    <3> QED
      BY <1>2, <3>1, <3>2
  <2>3. CASE Live(n, k) = {seq}
    <3>1. Live(n, k)' = {} /\ k = Cell(journal[seq])
      BY <1>1, <1>5, <2>0, <2>3
    <3>2. Undone(n, k) = journal[Min(Live(n, k))].undo
      BY <2>3 DEF Undone
    <3>3. Undone(n, k) = journal[seq].undo
      BY <1>4, <2>3, <3>2
    <3> QED
      BY <1>2, <1>3, <3>1, <3>3
  <2>4. CASE Live(n, k) # {} /\ Live(n, k) # {seq}
    <3> DEFINE m == Min(Live(n, k))
    <3>1. m \in Live(n, k) /\ \A j \in Live(n, k) : m <= j
      BY <2>1, <2>4, MinIsLeast
    <3>2. Undone(n, k) = journal[m].undo
      BY <2>4 DEF Undone
    <3> HIDE DEF m
    <3>3. PICK j \in Live(n, k) : j # seq
      BY <2>4
    <3>4. m # seq
      <4>1. m <= j /\ j <= seq /\ j \in Nat /\ m \in Nat
        BY <1>0, <2>1, <3>1, <3>3
      <4> QED
        BY <1>0, <3>3, <4>1
    <3>5. /\ Live(n, k)' \in SUBSET Nat /\ m \in Live(n, k)'
          /\ \A i \in Live(n, k)' : m <= i
      BY <1>1, <2>1, <3>1, <3>4
    <3>6. Min(Live(n, k)') = m
      BY <3>5, MinIs
    <3>7. journal'[m] = journal[m]
      BY <1>1, <2>1, <3>1, <3>4
    <3>8. Undone(n, k)' = journal'[Min(Live(n, k)')].undo
      BY <1>3, <3>5
    <3> QED
      BY <3>2, <3>6, <3>7, <3>8
  <2> QED
    BY <2>2, <2>3, <2>4
<1> QED
  BY <1>6, <1>7

-----------------------------------------------------------------------------
(* Every step is a step of UndoStack, or invisible to it. *)

\* What UndoStack calls past.
Past == [n \in LiveEntries |-> [k \in Cells |-> Undone(n, k)]]

LEMMA CommandIsDo ==
  ASSUME CoreTypeOK, NEW row \in JournalEntry, ~ row.done,
         journal' = Append(journal, row),
         NEW v \in Names \union Texts,
         Shown' = [Shown EXCEPT ![Cell(row)] = v],
         row.undo = Shown[Cell(row)]
  PROVE  Journal!Next
<1>0. journal \in Seq(JournalEntry) /\ Cell(row) \in Cells
  BY CellsArePairs DEF CoreTypeOK, StoreTypeOK
<1>1. PICK N : N = Len(journal) + 1
  OBVIOUS
<1>2. /\ LiveEntries' = LiveEntries \union {N}
      /\ \A m \in LiveEntries : m < N
  BY <1>0, <1>1, PushedRows
<1>3. /\ \A m \in LiveEntries, k \in Cells : Undone(m, k)' = Undone(m, k)
      /\ \A k \in Cells : Undone(N, k)' = Shown[k]
  BY <1>0, <1>1, PushedUndone
<1>4. /\ DOMAIN Past = LiveEntries /\ DOMAIN Past' = LiveEntries \union {N}
      /\ \A m \in LiveEntries : Past[m] = [k \in Cells |-> Undone(m, k)]
      /\ Past' = [m \in LiveEntries \union {N} |-> [k \in Cells |-> Undone(m, k)']]
  BY <1>2 DEF Past
<1>5. ASSUME NEW m \in LiveEntries \union {N}
      PROVE  [k \in Cells |-> Undone(m, k)'] = IF m = N THEN Shown ELSE Past[m]
  <2>1. CASE m = N
    <3>1. [k \in Cells |-> Undone(m, k)'] = [k \in Cells |-> Shown[k]]
      BY <1>3, <2>1
    <3>2. [k \in Cells |-> Shown[k]] = Shown
      BY DEF Shown
    <3> QED
      BY <2>1, <3>1, <3>2
  <2>2. CASE m # N
    BY <1>3, <1>4, <2>2
  <2> QED
    BY <2>1, <2>2
<1>6. Past' = [m \in DOMAIN Past \union {N} |-> IF m = N THEN Shown ELSE Past[m]]
  BY <1>4, <1>5
<1>7. Journal!Do(Cell(row), v)
  BY <1>2, <1>4, <1>6 DEF Journal!Do, Past
<1> QED
  BY <1>0, <1>7 DEF Journal!Next

LEMMA UndoIsUndo ==
  ASSUME CoreTypeOK, NEW seq, IsJournalLatest(seq), JournalMarkDone(seq),
         Shown' = [Shown EXCEPT ![Cell(journal[seq])] = journal[seq].undo]
  PROVE  Journal!Next
<1>0. journal \in Seq(JournalEntry) /\ seq \in LiveEntries
  BY DEF CoreTypeOK, StoreTypeOK, IsJournalLatest
<1>1. /\ \A k \in Cells : Undone(seq, k) = Shown'[k]
      /\ \A n \in LiveEntries', k \in Cells : Undone(n, k)' = Undone(n, k)
  BY <1>0, DoneUndone
<1>2. LiveEntries' = LiveEntries \ {seq} /\ \A m \in LiveEntries : m <= seq
  BY <1>0, DoneRows DEF IsJournalLatest
<1>3. /\ DOMAIN Past = LiveEntries
      /\ \A m \in LiveEntries : Past[m] = [k \in Cells |-> Undone(m, k)]
      /\ Past' = [m \in LiveEntries \ {seq} |-> [k \in Cells |-> Undone(m, k)']]
  BY <1>2 DEF Past
<1>4. Shown' = Past[seq]
  <2>1. Shown' = [k \in Cells |-> Shown'[k]]
    BY DEF Shown
  <2> QED
    BY <1>0, <1>1, <1>3, <2>1
<1>5. \A m \in LiveEntries \ {seq} : [k \in Cells |-> Undone(m, k)'] = Past[m]
  BY <1>1, <1>2, <1>3
<1>6. Past' = [m \in DOMAIN Past \ {seq} |-> Past[m]]
  BY <1>3, <1>5
<1> QED
  BY <1>0, <1>2, <1>3, <1>4, <1>6 DEF Journal!Next, Journal!Undo, Past

LEMMA StepIsUndoStack ==
  ASSUME NEW c, LoneAnalyst(c), CoreTypeOK, Holds(c), Step(c)
  PROVE  Journal!Next \/ UNCHANGED <<Shown, Past>>
<1>0. /\ journal \in Seq(JournalEntry)
      /\ functions \in [Entries -> Names \union {NoRow}]
      /\ comments \in [Entries -> Texts \union {NoRow}]
      /\ st[c] \in ClientState
  BY DEF CoreTypeOK, StoreTypeOK, LoneAnalyst
<1>1. CASE CommitRename(c)
  <2> DEFINE s == st[c]
  <2>1. /\ s.pc = "rename"
        /\ s.entry \in Entries /\ s.name \in Names /\ s.undo \in Names
        /\ s.undo = functions[s.entry]
    BY <1>0, <1>1, ClientFields DEF CommitRename, Holds
  <2>2. /\ functions' = [functions EXCEPT ![s.entry] = s.name]
        /\ comments' = comments
        /\ journal' = Append(journal, [kind |-> "rename", key |-> s.entry,
                                       undo |-> s.undo, done |-> FALSE])
    BY <1>1 DEF CommitRename, RenameCommand, JournalPush
  <2> PICK e, name, undo : e = s.entry /\ name = s.name /\ undo = s.undo
    OBVIOUS
  <2> HIDE DEF s
  <2> DEFINE row == [kind |-> "rename", key |-> e, undo |-> undo, done |-> FALSE]
  <2>3. row \in JournalEntry /\ ~ row.done /\ Cell(row) = <<"rename", e>> /\ row.undo = undo
    BY <2>1 DEF JournalEntry, Cell
  <2>4. <<"rename", e>> \in Cells /\ Shown[<<"rename", e>>] = functions[e]
    BY <2>1, CellsArePairs DEF Shown
  <2>5. Shown' = [Shown EXCEPT ![<<"rename", e>>] = name]
    BY <1>0, <2>1, <2>2, ShownRename
  <2>6. journal' = Append(journal, row)
    BY <2>2
  <2> HIDE DEF row
  <2> QED
    BY <2>1, <2>3, <2>4, <2>5, <2>6, CommandIsDo
<1>2. CASE CommitComment(c)
  <2> DEFINE s == st[c]
  <2>1. /\ s.pc = "comment"
        /\ s.entry \in Entries /\ s.text \in Texts
        /\ s.previous \in Texts \union {NoRow}
        /\ s.previous = comments[s.entry]
    BY <1>0, <1>2, ClientFields DEF CommitComment, Holds
  <2>2. /\ comments' = [comments EXCEPT ![s.entry] = s.text]
        /\ functions' = functions
        /\ journal' = Append(journal, [kind |-> "comment", key |-> s.entry,
                                       undo |-> s.previous, done |-> FALSE])
    BY <1>2 DEF CommitComment, CommentCommand, JournalPush
  <2> PICK e, text, undo : e = s.entry /\ text = s.text /\ undo = s.previous
    OBVIOUS
  <2> HIDE DEF s
  <2> DEFINE row == [kind |-> "comment", key |-> e, undo |-> undo, done |-> FALSE]
  <2>3. row \in JournalEntry /\ ~ row.done /\ Cell(row) = <<"comment", e>> /\ row.undo = undo
    BY <2>1 DEF JournalEntry, Cell
  <2>4. <<"comment", e>> \in Cells /\ Shown[<<"comment", e>>] = comments[e]
    BY <2>1, CellsArePairs DEF Shown
  <2>5. Shown' = [Shown EXCEPT ![<<"comment", e>>] = text]
    BY <1>0, <2>1, <2>2, ShownComment
  <2>6. journal' = Append(journal, row)
    BY <2>2
  <2> HIDE DEF row
  <2> QED
    BY <2>1, <2>3, <2>4, <2>5, <2>6, CommandIsDo
<1>3. CASE CommitUndo(c)
  <2> PICK seq : seq = st[c].seq
    OBVIOUS
  <2>1. IsJournalLatest(seq) /\ st[c].entry = journal[seq]
    BY <1>3 DEF CommitUndo, Holds
  <2> PICK row : row = journal[seq]
    OBVIOUS
  <2>2. row \in JournalEntry
    BY <1>0, <2>1 DEF IsJournalLatest, LiveEntries
  <2>3. row.key \in Entries /\ Cell(row) = <<row.kind, row.key>>
    BY <2>2 DEF JournalEntry, Cell
  <2>4. JournalMarkDone(seq)
    BY <1>3 DEF CommitUndo, UndoRename, UndoComment
  <2>5. Shown' = [Shown EXCEPT ![Cell(row)] = row.undo]
    <3>1. CASE row.kind = "rename" /\ UndoRename(row.key, row.undo, seq)
      <4>1. Cell(row) = <<"rename", row.key>>
        BY <2>3, <3>1
      <4>2. Shown' = [Shown EXCEPT ![<<"rename", row.key>>] = row.undo]
        BY <1>0, <2>3, <3>1, ShownRename DEF UndoRename
      <4> QED
        BY <4>1, <4>2
    <3>2. CASE row.kind = "comment" /\ UndoComment(row.key, row.undo, seq)
      <4>1. Cell(row) = <<"comment", row.key>>
        BY <2>3, <3>2
      <4>2. Shown' = [Shown EXCEPT ![<<"comment", row.key>>] = row.undo]
        BY <1>0, <2>3, <3>2, ShownComment DEF UndoComment
      <4> QED
        BY <4>1, <4>2
    <3> QED
      BY <1>3, <2>1, <3>1, <3>2 DEF CommitUndo
  <2> QED
    BY <2>1, <2>4, <2>5, UndoIsUndo
<1>4. CASE UNCHANGED Sights
  BY <1>4 DEF Sights, Shown, Past, LiveEntries, Undone, Live
<1> QED
  BY <1>1, <1>2, <1>3, <1>4, LoneStep

\* For an analyst who works alone, whatever the project and however many
\* commands: the journal captures the value a command replaced, and each undo
\* brings back all the analyst saw before the latest command not undone.
THEOREM UndoIsUndoStack ==
  ASSUME NEW c, LoneAnalyst(c)
  PROVE  Spec => UndoRestores
<1>1. Init => Holds(c) /\ Journal!Init
  <2> SUFFICES ASSUME Init PROVE Holds(c) /\ Journal!Init
    OBVIOUS
  <2>1. Holds(c)
    BY DEF Init, Idle, Holds, LoneAnalyst
  <2>2. LiveEntries = {}
    BY DEF Init, StoreInit, LiveEntries
  <2>3. Shown = [k \in Cells |-> IF k[1] = "rename" THEN BinFunctions[InitBin][k[2]]
                                                    ELSE NoRow]
    BY CellsArePairs DEF Init, StoreInit, Shown
  <2> QED
    BY <2>1, <2>2, <2>3 DEF Journal!Init
<1>2. CoreTypeOK /\ Holds(c) /\ [Next]_vars => Holds(c)'
  BY HoldsInductive
<1>3. CoreTypeOK /\ Holds(c) /\ [Next]_vars
        => [Journal!Next]_<<Shown, [n \in LiveEntries |-> [k \in Cells |-> Undone(n, k)]]>>
  <2>1. CASE UNCHANGED vars
    BY <2>1 DEF vars, clientVars, storeVars, Shown, LiveEntries, Undone, Live
  <2>2. ASSUME CoreTypeOK, Holds(c), Next
        PROVE  Journal!Next \/ UNCHANGED <<Shown, Past>>
    BY <2>2, StepIsUndoStack DEF Next, LoneAnalyst
  <2> QED
    BY <2>1, <2>2 DEF Past
<1> QED
  BY <1>1, <1>2, <1>3, TypeCorrect, PTL DEF Spec, UndoRestores, Journal!Spec
=============================================================================
