------------------------------ MODULE CoreUndo ------------------------------
(***************************************************************************)
(* The command journal of Core implements UndoStack for a single client    *)
(* that neither re-imports nor renames past the journal.                   *)
(***************************************************************************)
EXTENDS Core, FiniteSetsExt

Cells == {"rename", "comment"} \X Entries

Shown ==
  [k \in Cells |-> IF k[1] = "rename" THEN functions[k[2]] ELSE comments[k[2]]]

Cell(entry) == <<entry.kind, entry.key>>

\* The rows undo_last will work through that set cell k, from row n on.
Live(n, k) == {i \in LiveEntries : i >= n /\ Cell(journal[i]) = k}

\* What the analyst sees in cell k once these are undone, the latest first: what
\* the first of them found there.
Undone(n, k) ==
  IF Live(n, k) = {} THEN Shown[k] ELSE journal[Min(Live(n, k))].undo

Journal == INSTANCE UndoStack WITH
  Values <- Names \union Texts \union {NoRow},
  InitContent <- [k \in Cells |->
    IF k[1] = "rename" THEN BinFunctions[InitBin][k[2]] ELSE NoRow],
  content <- Shown,
  past <- [n \in LiveEntries |-> [k \in Cells |-> Undone(n, k)]]

\* Every step of a lone client is a command that sets one cell, an undo that
\* restores the content from before the latest live command, or invisible to
\* both: the journal captures the right prior values, and undo_last picks the
\* right row, whatever is interleaved with failed, abandoned and other calls.
UndoRestores == Journal!Spec
=============================================================================
