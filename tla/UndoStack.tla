----------------------------- MODULE UndoStack -----------------------------
(***************************************************************************)
(* What undoable commands promise an analyst who works alone: a command    *)
(* sets one cell, and undo returns everything to what it was before the    *)
(* latest command that has not been undone.                                *)
(***************************************************************************)
EXTENDS Integers

CONSTANTS Cells, Values, InitContent

VARIABLES
  content,  \* content[k]: what the analyst sees in cell k
  past      \* past[n]: the contents before command n, of the commands not undone

Init == content = InitContent /\ past = [n \in {} |-> content]

\* A command is numbered after those not undone, whatever number it gets.
Do(k, v) ==
  /\ content' = [content EXCEPT ![k] = v]
  /\ \E n \in DOMAIN past' :
       /\ \A m \in DOMAIN past : m < n
       /\ past' = [m \in DOMAIN past \union {n} |-> IF m = n THEN content ELSE past[m]]

Undo ==
  \E n \in DOMAIN past :
    /\ \A m \in DOMAIN past : m <= n
    /\ content' = past[n]
    /\ past' = [m \in DOMAIN past \ {n} |-> past[m]]

Next == Undo \/ \E k \in Cells, v \in Values : Do(k, v)

Spec == Init /\ [][Next]_<<content, past>>
=============================================================================
