----------------------------- MODULE FlowOracle -----------------------------
(***************************************************************************)
(* What a walk takes a SLEIGH console for (the FlowProvider of discovery): *)
(* it is asked about some addresses and answers about exactly those, in    *)
(* their order, or not at all.                                             *)
(***************************************************************************)
EXTENDS Sequences

CONSTANT Questions   \* sequences of addresses

VARIABLES
  decode,   \* what may be said of each address
  asked,    \* the addresses of the question, or <<>>
  answer    \* to the last question; <<>> if there was none

Init == asked = <<>> /\ answer = <<>>

Ask == asked = <<>> /\ asked' \in Questions \ {<<>>} /\ UNCHANGED <<decode, answer>>

Says(a, said) == said.address = a /\ said.kind \in {decode[a], "bad"}

Answer ==
  /\ asked # <<>> /\ asked' = <<>> /\ UNCHANGED decode
  /\ \/ answer' = <<>>
     \/ /\ DOMAIN answer' = DOMAIN asked
        /\ \A i \in DOMAIN asked : Says(asked[i], answer'[i])

Next == Ask \/ Answer

Spec == Init /\ [][Next]_<<decode, asked, answer>>
=============================================================================
