------------------------ MODULE ConsoleSessionProofs ------------------------
(***************************************************************************)
(* Proofs about module ConsoleSession, for every image, every sequence of  *)
(* batches, any number of requests and any subset of the faults.           *)
(*                                                                         *)
(* The inductive invariant says, for each place where the client can be,   *)
(* what is on the two streams and what the console is about to write: a    *)
(* prompt ends all that was written, a line of a flow batch stands where   *)
(* its address stands among those still expected, and the image of a load  *)
(* is named by the command that will open it.                              *)
(***************************************************************************)
EXTENDS ConsoleSession, SequenceTheorems, WellFoundedInduction, TLAPS

Numbers == Addresses \union Nat
Kinds == {d[a] : d \in Images, a \in Numbers} \union {"none", "ok", "bad"}
Lines ==
  [tag : {"prompt", "error", "refused", "echo", "flow", "linkage", "loaded", "functionstarts",
          "constants"},
   address : Numbers, kind : Kinds]
Names ==
  {"load", "loadFile", "adjust", "flow", "linkage", "functionstarts", "constants", "quit"}
Commands == [name : Names, arguments : Seq(Numbers)]
Consoles ==
  [at : {"none", "starting", "waiting", "working", "exited"}, command : Names \union {"none"},
   todo : Seq(Numbers), loaded : BOOLEAN]
Heard == [address : Numbers, kind : Kinds]
Clients ==
  [at : {"idle", "echo", "lines", "until", "drain", "quitting"},
   op : {"none", "new", "load", "loadFile", "twoPrompts", "adjust", "linkage", "functionstarts",
         "constants", "quit"} \union FlowRequests,
   asked : Seq(Addresses), left : Seq(Addresses), results : Seq(Heard)]

\* The requests that read up to one prompt, those of them that are one command
\* of their name, and those that read lines.
Answered == {"new", "load", "loadFile", "adjust", "linkage", "functionstarts", "constants"}
Sent == {"load", "loadFile", "linkage", "functionstarts", "constants"}
Flows == {"flow", "refused", "batch", "tryFlow"}

TypeOK ==
  /\ decode \in Images /\ next \in Nat
  /\ session \in {"none", "spawned", "loaded", "broken"}
  /\ console \in Consoles /\ stdin \in Seq(Commands) /\ stdout \in Seq(Lines)
  /\ client \in Clients
-----------------------------------------------------------------------------
\* A prompt ends all that was written.
PromptLast ==
  \A i \in 1 .. Len(stdout) : stdout[i].tag = "prompt" => i = Len(stdout) /\ stdout[i] = Prompt
Prompted == stdout # <<>> /\ stdout[Len(stdout)].tag = "prompt"
Unprompted == \A i \in 1 .. Len(stdout) : stdout[i].tag # "prompt"

\* The image of the request in progress, and of none.
Held == images = Leftover \union {next - 1} /\ next - 1 \in Nat \ Leftover
NotHeld == images = Leftover

\* Between requests.
Resting ==
  /\ client = Idle /\ NotHeld /\ stdout = <<>>
  /\ console.at \in {"none", "waiting", "exited"}
  /\ console.at = "none" => session = "none"
  /\ ~Exited => stdin = <<>>

\* A request that is read up to its prompt.
Until ==
  /\ client.op \in Answered
  /\ IF client.op = "load" THEN Held ELSE NotHeld
  /\ console.at # "none" /\ PromptLast
  /\ ~Exited =>
       \/ /\ console.at = "starting" /\ stdin = <<>> /\ stdout = <<>>
       \/ /\ console.at = "waiting" /\ stdout = <<>>
          /\ Len(stdin) = 1 /\ stdin[1].name = client.op
          /\ client.op = "load" => stdin[1].arguments = <<next - 1>>
       \/ /\ console.at = "working" /\ stdin = <<>> /\ Unprompted
          /\ console.command = client.op
          /\ client.op = "load" /\ console.todo # <<>> => console.todo = <<next - 1>>
       \/ /\ console.at = "waiting" /\ stdin = <<>> /\ Prompted

\* Two commands were written, and neither of their prompts was read; before
\* the first prompt and, when it is the k-th line, after it.
BeforePrompt ==
  /\ Unprompted
  /\ ~Exited =>
       \/ /\ console.at = "waiting" /\ stdout = <<>> /\ Len(stdin) = 2
          /\ stdin[1].name = "loadFile" /\ stdin[2].name = "adjust"
       \/ /\ console.at = "working" /\ console.command = "loadFile"
          /\ Len(stdin) = 1 /\ stdin[1].name = "adjust"
AfterPrompt(k) ==
  /\ stdout[k].tag = "prompt"
  /\ \A i \in 1 .. Len(stdout) :
       stdout[i].tag = "prompt" => i = k \/ (i > k /\ i = Len(stdout) /\ stdout[i] = Prompt)
  /\ ~Exited =>
       \/ /\ console.at = "waiting" /\ Len(stdout) = k
          /\ Len(stdin) = 1 /\ stdin[1].name = "adjust"
       \/ /\ console.at = "working" /\ console.command = "adjust" /\ stdin = <<>>
          /\ \A i \in 1 .. Len(stdout) : stdout[i].tag = "prompt" => i = k
       \/ /\ console.at = "waiting" /\ stdin = <<>> /\ Len(stdout) > k
          /\ stdout[Len(stdout)].tag = "prompt"
Adjusting ==
  /\ client.op = "twoPrompts" /\ NotHeld /\ console.at # "none"
  /\ BeforePrompt \/ \E k \in 1 .. Len(stdout) : AfterPrompt(k)

\* A flow request: what was heard, and what is still to come.
Matches(says, asked, left, results) ==
  /\ asked # <<>>
  /\ Len(results) + Len(left) = Len(asked)
  /\ \A j \in 1 .. Len(left) : left[j] = asked[Len(results) + j]
  /\ \A j \in 1 .. Len(results) :
       results[j].address = asked[j] /\ results[j].kind \in {says[asked[j]], "bad"}
HeardSoFar == Matches(decode, client.asked, client.left, client.results)

Echoes == IF client.at = "echo" THEN 1 ELSE 0

\* A line where it stands: the echo, then those of the addresses.
Fits(i, line) ==
  /\ i <= Echoes => line.tag = "echo"
  /\ i > Echoes =>
       /\ line.tag \in {"flow", "error", "refused", "prompt"}
       /\ line.tag # "prompt" => i - Echoes <= Len(client.left)
       /\ line.tag = "flow" =>
            /\ line.address = client.left[i - Echoes]
            /\ line.kind = decode[client.left[i - Echoes]]
LinesFit == \A i \in 1 .. Len(stdout) : Fits(i, stdout[i])

ToCome ==
  console.todo # <<>> =>
    /\ Len(stdout) - Echoes + Len(console.todo) = Len(client.left)
    /\ \A j \in 1 .. Len(console.todo) :
         console.todo[j] = client.left[Len(stdout) - Echoes + j]

Flowing ==
  /\ client.op \in Flows /\ NotHeld
  /\ console.at # "none" /\ HeardSoFar /\ PromptLast /\ LinesFit
  /\ ~Exited =>
       \/ /\ console.at = "waiting" /\ client.at = "echo" /\ stdout = <<>>
          /\ Len(stdin) = 1 /\ stdin[1].name = "flow" /\ stdin[1].arguments = client.left
       \/ /\ console.at = "working" /\ stdin = <<>> /\ Unprompted
          /\ console.command = "flow" /\ Len(stdout) >= Echoes /\ ToCome
       \/ /\ console.at = "waiting" /\ stdin = <<>> /\ Prompted

\* A console of its own.
Draining ==
  /\ client.op \in {"once", "onceFile"} /\ session = "none" /\ Len(client.asked) = 1
  /\ IF client.op = "once" THEN Held ELSE NotHeld
  /\ \A i \in 1 .. Len(stdin) :
       /\ stdin[i].name = "load" => client.op = "once" /\ stdin[i].arguments = <<next - 1>>
       /\ stdin[i].name = "flow" => stdin[i].arguments = client.asked
  /\ console.todo # <<>> =>
       /\ console.command = "load" => client.op = "once" /\ console.todo = <<next - 1>>
       /\ console.command = "flow" => console.todo = client.asked
  /\ \A i \in 1 .. Len(stdout) :
       stdout[i].tag = "flow" =>
         /\ stdout[i].address = client.asked[1] /\ stdout[i].kind = decode[client.asked[1]]

Quitting ==
  /\ client.op = "quit" /\ NotHeld
  /\ ~Exited => console.at = "waiting" /\ Len(stdin) = 1 /\ stdin[1].name = "quit"

Place ==
  \/ client.at = "idle" /\ Resting
  \/ client.at = "until" /\ (Until \/ Adjusting)
  \/ client.at \in {"echo", "lines"} /\ Flowing
  \/ client.at = "drain" /\ Draining
  \/ client.at = "quitting" /\ Quitting

SessionInv == TypeOK /\ Place

-----------------------------------------------------------------------------
(* Sequences and their first elements.                                     *)

LEMMA LeastOf ==
  ASSUME NEW S, S \subseteq Nat, S # {}
  PROVE  Min(S) \in S /\ \A y \in S : Min(S) <= y
<1>1. IsWellFoundedOn(OpToRel(<, Nat), Nat)
  BY NatLessThanWellFounded, Zenon
<1>2. PICK x \in S : \A y \in S : ~ (<<y, x>> \in OpToRel(<, Nat))
  BY <1>1, WFMin, Zenon
<1>3. \A y \in S : ~(y < x)
  BY <1>2 DEF OpToRel
<1>4. \A y \in S : x <= y
  BY <1>3
<1> QED
  BY <1>4 DEF Min

LEMMA Prompts ==
  ASSUME stdout \in Seq(Lines)
  PROVE  /\ PromptAt = 0 => Unprompted
         /\ PromptAt # 0 => /\ PromptAt \in 1 .. Len(stdout) /\ stdout[PromptAt].tag = "prompt"
                            /\ \A i \in 1 .. Len(stdout) :
                                 stdout[i].tag = "prompt" => PromptAt <= i
<1> DEFINE I == {i \in 1 .. Len(stdout) : stdout[i].tag = "prompt"}
<1>1. PromptAt = IF I # {} THEN Min(I) ELSE 0
  BY Zenon DEF PromptAt, SelectInSeq
<1>2. I \subseteq 1 .. Len(stdout) /\ I \subseteq Nat /\ 0 \notin I
  OBVIOUS
<1>3. I # {} => Min(I) \in I /\ \A i \in I : Min(I) <= i
  BY <1>2, LeastOf
<1>4. CASE I = {}
  BY <1>1, <1>4 DEF Unprompted
<1>5. CASE I # {}
  BY <1>1, <1>2, <1>3, <1>5
<1> QED
  BY <1>4, <1>5

LEMMA LineEnds ==
  ASSUME stdout \in Seq(Lines)
  PROVE  /\ LineEnd = 0 => \A i \in 1 .. Len(stdout) : stdout[i].tag = "prompt"
         /\ LineEnd # 0 => /\ LineEnd \in 1 .. Len(stdout) /\ stdout[LineEnd].tag # "prompt"
                           /\ \A i \in 1 .. Len(stdout) : stdout[i].tag # "prompt" => LineEnd <= i
<1> DEFINE I == {i \in 1 .. Len(stdout) : stdout[i].tag # "prompt"}
<1>1. LineEnd = IF I # {} THEN Min(I) ELSE 0
  BY Zenon DEF LineEnd, SelectInSeq
<1>2. I \subseteq 1 .. Len(stdout) /\ I \subseteq Nat /\ 0 \notin I
  OBVIOUS
<1>3. I # {} => Min(I) \in I /\ \A i \in I : Min(I) <= i
  BY <1>2, LeastOf
<1>4. CASE I = {}
  BY <1>1, <1>4
<1>5. CASE I # {}
  BY <1>1, <1>2, <1>3, <1>5
<1> QED
  BY <1>4, <1>5

LEMMA Appends ==
  ASSUME stdout \in Seq(Lines), NEW line \in Lines, stdout' = Append(stdout, line)
  PROVE  /\ stdout' \in Seq(Lines) /\ Len(stdout') = Len(stdout) + 1 /\ Len(stdout) \in Nat
         /\ \A i \in 1 .. Len(stdout) : stdout'[i] = stdout[i]
         /\ stdout'[Len(stdout) + 1] = line /\ stdout' # <<>>
<1>1. /\ stdout' \in Seq(Lines) /\ Len(stdout') = Len(stdout) + 1 /\ Len(stdout) \in Nat
      /\ \A i \in 1 .. Len(stdout) : stdout'[i] = stdout[i]
      /\ stdout'[Len(stdout) + 1] = line
  BY AppendProperties, LenProperties
<1>2. Len(stdout') # 0
  BY <1>1
<1>3. stdout' # <<>>
  BY <1>2, EmptySeq, Zenon
<1> QED
  BY <1>1, <1>3

\* What a line does to the prompts.
LEMMA AppendsLine ==
  ASSUME stdout \in Seq(Lines), NEW line \in Lines, stdout' = Append(stdout, line),
         Unprompted, line.tag # "prompt"
  PROVE  Unprompted' /\ PromptLast'
<1>1. /\ Len(stdout') = Len(stdout) + 1 /\ Len(stdout) \in Nat
      /\ \A i \in 1 .. Len(stdout) : stdout'[i] = stdout[i]
      /\ stdout'[Len(stdout) + 1] = line
  BY Appends
<1>2. \A i \in 1 .. Len(stdout') : i \in 1 .. Len(stdout) \/ i = Len(stdout) + 1
  BY <1>1
<1>3. \A i \in 1 .. Len(stdout') : stdout'[i].tag # "prompt"
  BY <1>1, <1>2 DEF Unprompted
<1> QED
  BY <1>3, Zenon DEF Unprompted, PromptLast

LEMMA AppendsPrompt ==
  ASSUME stdout \in Seq(Lines), Prompt \in Lines, stdout' = Append(stdout, Prompt), Unprompted
  PROVE  Prompted' /\ PromptLast'
<1>1. /\ Len(stdout') = Len(stdout) + 1 /\ Len(stdout) \in Nat
      /\ \A i \in 1 .. Len(stdout) : stdout'[i] = stdout[i]
      /\ stdout'[Len(stdout) + 1] = Prompt /\ stdout' # <<>>
  BY Appends
<1>2. \A i \in 1 .. Len(stdout') : i \in 1 .. Len(stdout) \/ i = Len(stdout) + 1
  BY <1>1
<1>3. Prompt.tag = "prompt"
  BY DEF Prompt, Line
<1>4. \A i \in 1 .. Len(stdout') : stdout'[i].tag = "prompt" => i = Len(stdout) + 1
  BY <1>1, <1>2 DEF Unprompted
<1> HIDE DEF Prompt
<1> QED
  BY <1>1, <1>3, <1>4 DEF Prompted, PromptLast

LEMMA Firsts ==
  ASSUME NEW S, NEW s \in Seq(S), s # <<>>
  PROVE  /\ Head(s) = s[1] /\ Head(s) \in S /\ Tail(s) \in Seq(S)
         /\ Len(Tail(s)) = Len(s) - 1 /\ Len(s) \in Nat /\ Len(s) >= 1
         /\ \A i \in 1 .. Len(Tail(s)) : Tail(s)[i] = s[i + 1]
<1>1. Len(s) \in Nat \ {0}
  BY EmptySeq
<1> QED
  BY <1>1, HeadTailProperties

LEMMA OneElement ==
  ASSUME NEW S, NEW s \in Seq(S), Len(s) = 1
  PROVE  s # <<>> /\ Head(s) = s[1] /\ Tail(s) = <<>> /\ s[1] \in S
<1>1. s # <<>>
  BY EmptySeq
<1>2. Len(Tail(s)) = 0 /\ Tail(s) \in Seq(S) /\ Head(s) = s[1] /\ s[1] \in S
  BY <1>1, Firsts
<1>3. Tail(s) = <<>>
  BY <1>2, EmptySeq
<1> QED
  BY <1>1, <1>2, <1>3
-----------------------------------------------------------------------------
(* The steps of the console.                                               *)

LEMMA LineTypes ==
  ASSUME NEW tag \in {"prompt", "error", "refused", "echo", "flow", "linkage", "loaded",
                      "functionstarts", "constants"},
         NEW address \in Numbers, NEW kind \in Kinds
  PROVE  Line(tag, address, kind) \in Lines /\ Line(tag, address, kind).tag = tag
         /\ Line(tag, address, kind).address = address /\ Line(tag, address, kind).kind = kind
BY DEF Line, Lines

LEMMA PlainLines ==
  /\ Prompt \in Lines /\ ErrorLine \in Lines /\ ErrorLine.tag = "error" /\ Prompt.tag = "prompt"
  /\ RefusedLine \in Lines /\ RefusedLine.tag = "refused"
  /\ Line("echo", 0, "none") \in Lines /\ Line("echo", 0, "none").tag = "echo"
  /\ Line("loaded", 0, "none") \in Lines /\ Line("loaded", 0, "none").tag = "loaded"
<1>1. 0 \in Numbers /\ "none" \in Kinds
  BY DEF Numbers, Kinds
<1> QED
  BY <1>1 DEF Prompt, ErrorLine, RefusedLine, Line, Lines

\* A line of a command, whatever the command is.
Writes(line, todo) ==
  /\ console.at = "working" /\ console.todo # <<>> /\ stdin' = stdin
  /\ line \in Lines /\ line.tag # "prompt" /\ stdout' = Append(stdout, line)
  /\ console'.at = "working" /\ console'.command = console.command
  /\ todo \in {<<>>, Tail(console.todo)} /\ console'.todo = todo
  /\ \/ line.tag \in {"error", "refused"}
     \/ line.tag = "loaded" /\ console.command \in {"load", "loadFile"} /\ todo = <<>>
     \/ line.tag = console.command /\ console.command \in {"linkage", "functionstarts", "constants"}
     \/ /\ line.tag = "flow" /\ console.command = "flow" /\ todo = Tail(console.todo)
        /\ line.address = Head(console.todo) /\ line.kind = decode[Head(console.todo)]
  /\ line.tag \in {"error", "refused"} => todo = <<>>

LEMMA CommandWrites ==
  ASSUME TypeOK, FlowLine \/ LinkageLine \/ QueryLine \/ LoadLine \/ FileLine \/ AdjustLine
  PROVE  console' \in Consoles /\ \E line, todo : Writes(line, todo)
<1>1. /\ console.at = "working" /\ console.todo # <<>> /\ stdin' = stdin
  BY DEF FlowLine, LinkageLine, QueryLine, LoadLine, FileLine, AdjustLine, Working
<1>2. /\ Head(console.todo) \in Numbers /\ Tail(console.todo) \in Seq(Numbers)
      /\ <<>> \in Seq(Numbers)
  <2>1. console.todo \in Seq(Numbers)
    BY DEF TypeOK, Consoles
  <2> QED
    BY <1>1, <2>1, Firsts, EmptySeq
<1>3. decode[Head(console.todo)] \in Kinds /\ "ok" \in Kinds /\ "none" \in Kinds /\ 0 \in Numbers
  BY <1>2 DEF TypeOK, Kinds, Numbers
<1>4. ASSUME NEW line \in {ErrorLine, RefusedLine}, Ends(line)
      PROVE  console' \in Consoles /\ Writes(line, <<>>)
  <2>1. stdout' = Append(stdout, line) /\ console' = [console EXCEPT !.todo = <<>>]
    BY <1>4, Zenon DEF Ends
  <2>2. /\ console' \in Consoles /\ console'.at = console.at /\ console'.todo = <<>>
        /\ console'.command = console.command
    BY <1>2, <2>1 DEF TypeOK, Consoles
  <2>3. line \in Lines /\ line.tag \in {"error", "refused"}
    BY PlainLines
  <2> HIDE DEF ErrorLine, RefusedLine
  <2> QED
    BY <1>1, <2>1, <2>2, <2>3 DEF Writes
<1>11. \A line \in {ErrorLine, RefusedLine} :
         Ends(line) => console' \in Consoles /\ \E l, todo : Writes(l, todo)
  BY <1>4, Zenon
<1>5. ASSUME NEW line \in Lines, Goes(line)
      PROVE  /\ stdout' = Append(stdout, line) /\ console' \in Consoles
             /\ console'.at = "working" /\ console'.command = console.command
             /\ console'.todo = Tail(console.todo)
  BY <1>1, <1>2, <1>5 DEF Goes, TypeOK, Consoles
<1>6. CASE FlowLine
  <2>1. /\ console.command = "flow"
        /\ \/ Ends(ErrorLine) \/ Ends(RefusedLine)
           \/ Goes(Line("flow", Head(console.todo), decode[Head(console.todo)]))
    BY <1>6 DEF FlowLine, Working
  <2>2. CASE Goes(Line("flow", Head(console.todo), decode[Head(console.todo)]))
    <3> DEFINE line == Line("flow", Head(console.todo), decode[Head(console.todo)])
    <3>1. /\ line \in Lines /\ line.tag = "flow" /\ line.address = Head(console.todo)
          /\ line.kind = decode[Head(console.todo)]
      BY <1>2, <1>3, LineTypes
    <3> HIDE DEF line
    <3>2. /\ stdout' = Append(stdout, line) /\ console' \in Consoles
          /\ console'.at = "working" /\ console'.command = console.command
          /\ console'.todo = Tail(console.todo)
      BY <1>5, <2>2, <3>1 DEF line
    <3>3. Writes(line, Tail(console.todo))
      BY <1>1, <2>1, <3>1, <3>2 DEF Writes
    <3> QED
      BY <3>2, <3>3
  <2> QED
    BY <1>11, <2>1, <2>2
<1>7. CASE LinkageLine
  <2>1. /\ console.command = "linkage"
        /\ Ends(ErrorLine) \/ Goes(Line("linkage", Head(console.todo), "ok"))
    BY <1>7 DEF LinkageLine, Working
  <2>2. CASE Goes(Line("linkage", Head(console.todo), "ok"))
    <3> DEFINE line == Line("linkage", Head(console.todo), "ok")
    <3>1. line \in Lines /\ line.tag = "linkage"
      BY <1>2, <1>3, LineTypes
    <3> HIDE DEF line
    <3>2. /\ stdout' = Append(stdout, line) /\ console' \in Consoles
          /\ console'.at = "working" /\ console'.command = console.command
          /\ console'.todo = Tail(console.todo)
      BY <1>5, <2>2, <3>1 DEF line
    <3>3. Writes(line, Tail(console.todo))
      BY <1>1, <2>1, <3>1, <3>2 DEF Writes
    <3> QED
      BY <3>2, <3>3
  <2> QED
    BY <1>11, <2>1, <2>2
<1>8. CASE QueryLine
  <2>1. /\ console.command \in {"functionstarts", "constants"}
        /\ Ends(ErrorLine) \/ Ends(Line(console.command, 0, "ok"))
    BY <1>8 DEF QueryLine, Working
  <2>2. CASE Ends(Line(console.command, 0, "ok"))
    <3> DEFINE line == Line(console.command, 0, "ok")
    <3>1. line \in Lines /\ line.tag = console.command
      BY <1>3, <2>1, LineTypes
    <3> HIDE DEF line
    <3>2. stdout' = Append(stdout, line) /\ console' = [console EXCEPT !.todo = <<>>]
      BY <2>2, Zenon DEF Ends, line
    <3>3. /\ console' \in Consoles /\ console'.at = console.at /\ console'.todo = <<>>
          /\ console'.command = console.command
      BY <1>2, <3>2 DEF TypeOK, Consoles
    <3>4. Writes(line, <<>>)
      BY <1>1, <2>1, <3>1, <3>2, <3>3 DEF Writes
    <3> QED
      BY <3>3, <3>4
  <2> QED
    BY <1>11, <2>1, <2>2
<1>9. CASE LoadLine
  <2>1. PICK opened \in BOOLEAN :
          /\ console' = [console EXCEPT !.todo = <<>>, !.loaded = opened]
          /\ stdout' = Append(stdout, IF opened THEN Line("loaded", 0, "none") ELSE ErrorLine)
    <3>1. PICK opened \in {Head(console.todo) \in images}
                           \union (IF "load" \in Faults THEN {FALSE} ELSE {}) :
            /\ console' = [console EXCEPT !.todo = <<>>, !.loaded = opened]
            /\ stdout' = Append(stdout, IF opened THEN Line("loaded", 0, "none") ELSE ErrorLine)
      BY <1>9, Zenon DEF LoadLine
    <3>2. opened = (Head(console.todo) \in images) \/ opened = FALSE
      BY <3>1, Zenon
    <3>3. (Head(console.todo) \in images) \in BOOLEAN
      OBVIOUS
    <3>4. opened \in BOOLEAN
      BY <3>2, <3>3
    <3> QED
      BY <3>1, <3>4, Zenon
  <2>2. /\ console' \in Consoles /\ console'.at = console.at /\ console'.todo = <<>>
        /\ console'.command = console.command
    BY <1>2, <2>1 DEF TypeOK, Consoles
  <2>3. console.command = "load"
    BY <1>9 DEF LoadLine, Working
  <2> DEFINE line == IF opened THEN Line("loaded", 0, "none") ELSE ErrorLine
  <2>4. line \in Lines /\ line.tag \in {"loaded", "error"} /\ stdout' = Append(stdout, line)
    BY <2>1, PlainLines, Zenon
  <2> HIDE DEF line
  <2>5. Writes(line, <<>>)
    BY <1>1, <2>2, <2>3, <2>4 DEF Writes
  <2> QED
    BY <2>2, <2>5
<1>10. CASE FileLine
  <2>1. PICK opened \in BOOLEAN :
          /\ console' = [console EXCEPT !.todo = <<>>, !.loaded = opened]
          /\ stdout' = Append(stdout, IF opened THEN Line("loaded", 0, "none") ELSE RefusedLine)
    <3>1. {TRUE} \union (IF "file" \in Faults THEN {FALSE} ELSE {}) \subseteq BOOLEAN
      OBVIOUS
    <3> QED
      BY <1>10, <3>1, Zenon DEF FileLine
  <2>2. /\ console' \in Consoles /\ console'.at = console.at /\ console'.todo = <<>>
        /\ console'.command = console.command
    BY <1>2, <2>1 DEF TypeOK, Consoles
  <2>3. console.command = "loadFile"
    BY <1>10 DEF FileLine, Working
  <2> DEFINE line == IF opened THEN Line("loaded", 0, "none") ELSE RefusedLine
  <2>4. line \in Lines /\ line.tag \in {"loaded", "refused"} /\ stdout' = Append(stdout, line)
    BY <2>1, PlainLines, Zenon
  <2> HIDE DEF line
  <2>5. Writes(line, <<>>)
    BY <1>1, <2>2, <2>3, <2>4 DEF Writes
  <2> QED
    BY <2>2, <2>5
<1>12. CASE AdjustLine
  BY <1>11, <1>12 DEF AdjustLine
<1> QED
  BY <1>6, <1>7, <1>8, <1>9, <1>10, <1>12

LEMMA NoConsoleTypes ==
  /\ NoConsole \in Consoles /\ NoConsole.at = "none" /\ NoConsole.todo = <<>>
  /\ <<>> \in Seq(Commands) /\ <<>> \in Seq(Lines) /\ <<>> \in Seq(Numbers)
<1>1. <<>> \in Seq(Commands) /\ <<>> \in Seq(Lines) /\ <<>> \in Seq(Numbers)
  BY EmptySeq
<1> QED
  BY <1>1 DEF NoConsole, Consoles

\* The other steps of the console.
Starts ==
  /\ console.at = "starting" /\ console'.at = "waiting" /\ stdin' = stdin
  /\ stdout' = Append(stdout, Prompt) /\ console'.todo = console.todo
  /\ console'.command = console.command
Reads ==
  /\ console.at = "waiting" /\ stdin # <<>> /\ stdin' = Tail(stdin)
  /\ stdout' = Append(stdout, Line("echo", 0, "none"))
  /\ \/ Head(stdin).name = "quit" /\ console'.at = "exited" /\ console'.todo = console.todo
        /\ console'.command = console.command
     \/ /\ Head(stdin).name # "quit" /\ console'.at = "working"
        /\ console'.command = Head(stdin).name /\ console'.todo = Head(stdin).arguments
Prompting ==
  /\ console.at = "working" /\ console.todo = <<>> /\ console'.at = "waiting" /\ stdin' = stdin
  /\ stdout' = Append(stdout, Prompt) /\ console'.todo = <<>>
Quiets ==
  /\ console.at = "working" /\ console.command = "adjust" /\ UNCHANGED <<stdin, stdout>>
  /\ console'.at = "working" /\ console'.todo = <<>> /\ console'.command = console.command
Dies ==
  /\ console.at # "none" /\ console'.at = "exited" /\ UNCHANGED <<stdin, stdout>>
  /\ console'.todo = console.todo /\ console'.command = console.command

LEMMA ConsoleMoves ==
  ASSUME TypeOK, ConsoleStep \/ ConsoleDies
  PROVE  /\ TypeOK' /\ UNCHANGED <<decode, client, session, images, next, requests, heard>>
         /\ Starts \/ Reads \/ Prompting \/ Quiets \/ Dies \/ \E line, todo : Writes(line, todo)
<1>1. UNCHANGED <<decode, client, session, images, next, requests, heard>>
  BY DEF ConsoleStep, ConsoleDies
<1>2. console \in Consoles /\ stdin \in Seq(Commands) /\ stdout \in Seq(Lines)
  BY DEF TypeOK
<1>3. ASSUME console' \in Consoles, stdin' \in Seq(Commands), stdout' \in Seq(Lines)
      PROVE  TypeOK'
  BY <1>1, <1>3 DEF TypeOK
<1>4. CASE ConsoleStart
  <2>1. Starts /\ console' \in Consoles
    BY <1>2, <1>4 DEF ConsoleStart, Starts, Consoles
  <2>2. stdout' \in Seq(Lines) /\ stdin' \in Seq(Commands)
    BY <1>2, <1>4, PlainLines, Appends, Zenon DEF ConsoleStart
  <2> QED
    BY <1>1, <1>3, <2>1, <2>2
<1>5. CASE ConsoleRead
  <2>1. /\ console.at = "waiting" /\ stdin # <<>> /\ stdin' = Tail(stdin)
        /\ stdout' = Append(stdout, Line("echo", 0, "none"))
        /\ console' = IF Head(stdin).name = "quit" THEN [console EXCEPT !.at = "exited"]
                      ELSE [console EXCEPT !.at = "working", !.command = Head(stdin).name,
                                           !.todo = Head(stdin).arguments]
    BY <1>5, Zenon DEF ConsoleRead
  <2>2. Head(stdin) \in Commands /\ stdin' \in Seq(Commands)
    BY <1>2, <2>1, Firsts
  <2>3. Head(stdin).name \in Names /\ Head(stdin).arguments \in Seq(Numbers)
    BY <2>2 DEF Commands
  <2>4. /\ console' \in Consoles
        /\ \/ Head(stdin).name = "quit" /\ console'.at = "exited" /\ console'.todo = console.todo
              /\ console'.command = console.command
           \/ /\ Head(stdin).name # "quit" /\ console'.at = "working"
              /\ console'.command = Head(stdin).name /\ console'.todo = Head(stdin).arguments
    BY <1>2, <2>1, <2>3 DEF Consoles
  <2>5. stdout' \in Seq(Lines)
    BY <1>2, <2>1, PlainLines, Appends, Zenon
  <2>6. Reads
    BY <2>1, <2>4, Zenon DEF Reads
  <2> QED
    BY <1>1, <1>3, <2>2, <2>4, <2>5, <2>6
<1>6. CASE FlowLine \/ LinkageLine \/ QueryLine \/ LoadLine \/ FileLine \/ AdjustLine
  <2>1. console' \in Consoles /\ \E line, todo : Writes(line, todo)
    BY <1>6, CommandWrites
  <2>2. PICK line, todo : Writes(line, todo)
    BY <2>1
  <2>3. stdout' \in Seq(Lines) /\ stdin' \in Seq(Commands)
    <3>1. stdout' = Append(stdout, line) /\ line \in Lines /\ stdin' = stdin
      BY <2>2, Zenon DEF Writes
    <3> QED
      BY <1>2, <3>1, Appends, Zenon
  <2> QED
    BY <1>1, <1>3, <2>1, <2>3
<1>7. CASE ConsolePrompt
  <2>1. Prompting /\ console' \in Consoles
    BY <1>2, <1>7 DEF ConsolePrompt, Prompting, Consoles
  <2>2. stdout' \in Seq(Lines) /\ stdin' \in Seq(Commands)
    BY <1>2, <1>7, PlainLines, Appends, Zenon DEF ConsolePrompt
  <2> QED
    BY <1>1, <1>3, <2>1, <2>2
<1>8. CASE ConsoleDies
  <2>1. Dies /\ console' \in Consoles /\ stdin' = stdin /\ stdout' = stdout
    BY <1>2, <1>8 DEF ConsoleDies, Dies, Consoles
  <2> QED
    BY <1>1, <1>2, <1>3, <2>1
<1>9. CASE AdjustQuietly
  <2>1. Quiets /\ console' \in Consoles /\ stdin' = stdin /\ stdout' = stdout
    BY <1>2, <1>9, NoConsoleTypes DEF AdjustQuietly, Working, Quiets, Consoles
  <2> QED
    BY <1>1, <1>2, <1>3, <2>1
<1> QED
  BY <1>4, <1>5, <1>6, <1>7, <1>8, <1>9, Zenon DEF ConsoleStep

Moves == Starts \/ Reads \/ Prompting \/ Quiets \/ Dies \/ \E line, todo : Writes(line, todo)
Unasked == UNCHANGED <<decode, client, session, images, next, requests, heard>>

LEMMA RestingMoves ==
  ASSUME TypeOK, Resting, Moves, Unasked
  PROVE  Resting'
<1>1. console.at \notin {"starting", "working"} /\ (console.at = "waiting" => stdin = <<>>)
  BY DEF Resting, Exited
<1>2. \A line, todo : ~Writes(line, todo)
  BY <1>1 DEF Writes
<1>3. Dies
  BY <1>1, <1>2 DEF Moves, Starts, Reads, Prompting, Quiets
<1> QED
  BY <1>3 DEF Resting, Dies, Unasked, Exited, NotHeld

LEMMA UntilMoves ==
  ASSUME TypeOK, Until, Moves, Unasked
  PROVE  Until'
<1>1. /\ client.op \in Answered
      /\ client' = client /\ next' = next
      /\ console.at # "none" /\ PromptLast
      /\ IF client.op = "load" THEN Held ELSE NotHeld
      /\ stdin \in Seq(Commands) /\ stdout \in Seq(Lines)
  BY DEF Until, Unasked, TypeOK
<1>2. (IF client.op = "load" THEN Held ELSE NotHeld)'
  BY <1>1, Zenon DEF Held, NotHeld, Unasked
<1>3. SUFFICES /\ console'.at # "none" /\ PromptLast'
               /\ ~Exited' =>
                    \/ /\ console'.at = "starting" /\ stdin' = <<>> /\ stdout' = <<>>
                    \/ /\ console'.at = "waiting" /\ stdout' = <<>>
                       /\ Len(stdin') = 1 /\ stdin'[1].name = client.op
                       /\ client.op = "load" => stdin'[1].arguments = <<next - 1>>
                    \/ /\ console'.at = "working" /\ stdin' = <<>> /\ Unprompted'
                       /\ console'.command = client.op
                       /\ client.op = "load" /\ console'.todo # <<>> => console'.todo = <<next - 1>>
                    \/ /\ console'.at = "waiting" /\ stdin' = <<>> /\ Prompted'
  BY <1>1, <1>2, Zenon DEF Until
<1>4. CASE Dies
  BY <1>1, <1>4 DEF Dies, PromptLast, Exited
<1>5. CASE Starts
  <2>1. stdin = <<>> /\ stdout = <<>>
    BY <1>5 DEF Starts, Until, Exited
  <2>2. Unprompted
    <3>1. Len(stdout) = 0
      BY <2>1
    <3> QED
      BY <3>1 DEF Unprompted
  <2>3. Prompted' /\ PromptLast'
    BY <1>1, <1>5, <2>2, PlainLines, AppendsPrompt, Zenon DEF Starts
  <2> QED
    BY <1>5, <2>1, <2>3 DEF Starts
<1>6. CASE Reads
  <2>1. /\ stdout = <<>> /\ Len(stdin) = 1 /\ stdin[1].name = client.op
        /\ client.op = "load" => stdin[1].arguments = <<next - 1>>
    BY <1>6 DEF Reads, Until, Exited
  <2>2. Head(stdin) = stdin[1] /\ Tail(stdin) = <<>>
    BY <1>1, <2>1, OneElement
  <2>3. Unprompted
    <3>1. Len(stdout) = 0
      BY <2>1
    <3> QED
      BY <3>1 DEF Unprompted
  <2>4. Unprompted' /\ PromptLast'
    <3>1. "echo" # "prompt"
      OBVIOUS
    <3> QED
      BY <1>1, <1>6, <2>3, <3>1, PlainLines, AppendsLine, Zenon DEF Reads
  <2>5. stdin' = <<>> /\ Head(stdin).name = client.op
    BY <1>6, <2>1, <2>2, Zenon DEF Reads
  <2>6. client.op # "quit"
    BY <1>1 DEF Answered
  <2>7. /\ console'.at = "working" /\ console'.command = client.op
        /\ console'.todo = stdin[1].arguments
    BY <1>6, <2>2, <2>5, <2>6, Zenon DEF Reads
  <2> QED
    BY <2>1, <2>4, <2>5, <2>7
<1>7. CASE Prompting
  <2>1. stdin = <<>> /\ Unprompted
    BY <1>7 DEF Prompting, Until, Exited
  <2>2. Prompted' /\ PromptLast'
    BY <1>1, <1>7, <2>1, PlainLines, AppendsPrompt, Zenon DEF Prompting
  <2> QED
    BY <1>7, <2>1, <2>2 DEF Prompting
<1>8. CASE \E line, todo : Writes(line, todo)
  <2>1. PICK line, todo : Writes(line, todo)
    BY <1>8
  <2>2. /\ stdin = <<>> /\ Unprompted /\ console.command = client.op
        /\ client.op = "load" /\ console.todo # <<>> => console.todo = <<next - 1>>
    BY <2>1 DEF Writes, Until, Exited
  <2>3. Unprompted' /\ PromptLast'
    BY <1>1, <2>1, <2>2, AppendsLine, Zenon DEF Writes
  <2>4. client.op = "load" => console'.todo = <<>>
    BY <1>1, <2>1, <2>2 DEF Writes
  <2> QED
    BY <2>1, <2>2, <2>3, <2>4 DEF Writes
<1>9. CASE Quiets
  BY <1>1, <1>9 DEF Quiets, Until, Exited, Unprompted, PromptLast
<1> QED
  BY <1>4, <1>5, <1>6, <1>7, <1>8, <1>9, Zenon DEF Moves

LEMMA AdjustingMoves ==
  ASSUME TypeOK, Adjusting, Moves, Unasked
  PROVE  Adjusting'
<1>1. /\ client.op = "twoPrompts" /\ client' = client /\ console.at # "none"
      /\ stdin \in Seq(Commands) /\ stdout \in Seq(Lines) /\ Len(stdout) \in Nat
  BY LenProperties DEF Adjusting, Unasked, TypeOK
<1>2. NotHeld'
  BY DEF Adjusting, NotHeld, Unasked
<1>3. SUFFICES /\ console'.at # "none"
               /\ BeforePrompt' \/ \E k \in 1 .. Len(stdout') : AfterPrompt(k)'
  BY <1>1, <1>2, Zenon DEF Adjusting
<1>4. CASE BeforePrompt
  <2>1. ~Starts /\ ~Quiets
    BY <1>4 DEF BeforePrompt, Starts, Quiets, Exited
  <2>2. CASE Dies
    BY <1>4, <2>2 DEF BeforePrompt, Dies, Exited, Unprompted
  <2>3. CASE Reads
    <3>1. stdout = <<>> /\ Len(stdin) = 2 /\ stdin[1].name = "loadFile" /\ stdin[2].name = "adjust"
      BY <1>4, <2>3 DEF BeforePrompt, Reads, Exited
    <3>2. /\ Head(stdin).name = "loadFile" /\ Len(Tail(stdin)) = 1
          /\ Tail(stdin)[1].name = "adjust"
      <4>1. stdin # <<>>
        BY <3>1
      <4> QED
        BY <1>1, <3>1, <4>1, Firsts
    <3>3. Unprompted'
      <4>1. "echo" # "prompt"
        OBVIOUS
      <4> QED
        BY <1>1, <1>4, <2>3, <4>1, PlainLines, AppendsLine, Zenon DEF Reads, BeforePrompt
    <3>4. /\ console'.at = "working" /\ console'.command = "loadFile"
          /\ Len(stdin') = 1 /\ stdin'[1].name = "adjust"
      BY <2>3, <3>2 DEF Reads
    <3> QED
      BY <3>3, <3>4 DEF BeforePrompt
  <2>4. CASE Prompting
    <3>1. Unprompted /\ Len(stdin) = 1 /\ stdin[1].name = "adjust"
      BY <1>4, <2>4 DEF BeforePrompt, Prompting, Exited
    <3>0. PICK k \in Nat : k = Len(stdout) + 1
      BY <1>1
    <3>2. /\ Len(stdout') = k /\ stdout'[k].tag = "prompt"
          /\ \A i \in 1 .. Len(stdout) : stdout'[i] = stdout[i]
      BY <1>1, <2>4, <3>0, PlainLines, Appends, Zenon DEF Prompting
    <3>3. \A i \in 1 .. k : stdout'[i].tag = "prompt" => i = k
      <4>1. \A i \in 1 .. k : i \in 1 .. Len(stdout) \/ i = k
        BY <1>1, <3>0
      <4> QED
        BY <3>1, <3>2, <4>1 DEF Unprompted
    <3>4. console'.at = "waiting" /\ stdin' = stdin
      BY <2>4 DEF Prompting
    <3>5. k \in 1 .. Len(stdout')
      BY <1>1, <3>0, <3>2
    <3>6. AfterPrompt(k)'
      BY <3>1, <3>2, <3>3, <3>4 DEF AfterPrompt
    <3> QED
      BY <3>4, <3>5, <3>6
  <2>5. CASE \E line, todo : Writes(line, todo)
    <3>1. PICK line, todo : Writes(line, todo)
      BY <2>5
    <3>2. console.command = "loadFile" /\ Len(stdin) = 1 /\ stdin[1].name = "adjust" /\ Unprompted
      BY <1>4, <3>1 DEF BeforePrompt, Writes, Exited
    <3>3. Unprompted'
      BY <1>1, <3>1, <3>2, AppendsLine, Zenon DEF Writes
    <3> QED
      BY <3>1, <3>2, <3>3 DEF Writes, BeforePrompt
  <2> QED
    BY <2>1, <2>2, <2>3, <2>4, <2>5, Zenon DEF Moves
<1>5. CASE \E k \in 1 .. Len(stdout) : AfterPrompt(k)
  <2>1. PICK k \in 1 .. Len(stdout) : AfterPrompt(k)
    BY <1>5
  <2>2. SUFFICES console'.at # "none" /\ k \in 1 .. Len(stdout') /\ AfterPrompt(k)'
    OBVIOUS
  <2>3. /\ stdout[k].tag = "prompt"
        /\ \A i \in 1 .. Len(stdout) :
             stdout[i].tag = "prompt" => i = k \/ (i > k /\ i = Len(stdout) /\ stdout[i] = Prompt)
    BY <2>1 DEF AfterPrompt
  <2>4. ~Starts
    BY <2>1 DEF AfterPrompt, Starts, Exited
  \* A line is added after the prompt.
  <2>5. ASSUME NEW line \in Lines, stdout' = Append(stdout, line),
               \A i \in 1 .. Len(stdout) : stdout[i].tag = "prompt" => i = k,
               line.tag = "prompt" => line = Prompt
        PROVE  /\ k \in 1 .. Len(stdout') /\ stdout'[k].tag = "prompt" /\ Len(stdout') > k
               /\ stdout'[Len(stdout')] = line
               /\ \A i \in 1 .. Len(stdout') :
                    stdout'[i].tag = "prompt" =>
                      i = k \/ (i > k /\ i = Len(stdout') /\ stdout'[i] = Prompt)
               /\ line.tag # "prompt" =>
                    \A i \in 1 .. Len(stdout') : stdout'[i].tag = "prompt" => i = k
    <3>1. /\ Len(stdout') = Len(stdout) + 1
          /\ \A i \in 1 .. Len(stdout) : stdout'[i] = stdout[i]
          /\ stdout'[Len(stdout) + 1] = line
      BY <1>1, <2>5, Appends
    <3>2. \A i \in 1 .. Len(stdout') : i \in 1 .. Len(stdout) \/ (i = Len(stdout') /\ i > k)
      BY <1>1, <3>1
    <3>3. k \in 1 .. Len(stdout') /\ Len(stdout') > k
      BY <1>1, <3>1
    <3> HIDE DEF Prompt
    <3> QED
      BY <2>3, <2>5, <3>1, <3>2, <3>3
  <2>6. CASE Dies
    BY <2>1, <2>6 DEF AfterPrompt, Dies, Exited
  <2>7. CASE Reads
    <3>1. Len(stdout) = k \/ stdin = <<>>
      BY <2>1, <2>7 DEF AfterPrompt, Reads, Exited
    <3>2. Len(stdout) = k /\ Len(stdin) = 1 /\ stdin[1].name = "adjust"
      BY <2>1, <2>7, <3>1 DEF AfterPrompt, Reads, Exited
    <3>3. Head(stdin).name = "adjust" /\ Tail(stdin) = <<>>
      BY <1>1, <3>2, OneElement
    <3>4. /\ stdin' = <<>> /\ console'.at = "working" /\ console'.command = "adjust"
      BY <2>7, <3>3 DEF Reads
    <3> DEFINE line == Line("echo", 0, "none")
    <3>5. line \in Lines /\ line.tag = "echo" /\ stdout' = Append(stdout, line)
      BY <2>7, PlainLines DEF Reads
    <3>6. \A i \in 1 .. Len(stdout) : stdout[i].tag = "prompt" => i = k
      BY <1>1, <2>3, <3>2
    <3> HIDE DEF line
    <3>7. /\ k \in 1 .. Len(stdout') /\ stdout'[k].tag = "prompt"
          /\ \A i \in 1 .. Len(stdout') : stdout'[i].tag = "prompt" => i = k
      BY <2>5, <3>5, <3>6
    <3> QED
      BY <3>4, <3>7 DEF AfterPrompt
  <2>8. CASE Prompting
    <3>1. stdin = <<>> /\ \A i \in 1 .. Len(stdout) : stdout[i].tag = "prompt" => i = k
      BY <2>1, <2>8 DEF AfterPrompt, Prompting, Exited
    <3> DEFINE line == Prompt
    <3>2. line \in Lines /\ line.tag = "prompt" /\ stdout' = Append(stdout, line)
      BY <2>8, PlainLines DEF Prompting
    <3>3. /\ k \in 1 .. Len(stdout') /\ stdout'[k].tag = "prompt" /\ Len(stdout') > k
          /\ stdout'[Len(stdout')] = line
          /\ \A i \in 1 .. Len(stdout') :
               stdout'[i].tag = "prompt" =>
                 i = k \/ (i > k /\ i = Len(stdout') /\ stdout'[i] = Prompt)
      BY <2>5, <3>1, <3>2, Zenon
    <3>4. console'.at = "waiting" /\ stdin' = <<>>
      BY <2>8, <3>1 DEF Prompting
    <3> HIDE DEF line
    <3> QED
      BY <3>2, <3>3, <3>4, PlainLines, Zenon DEF AfterPrompt
  <2>9. CASE Quiets
    BY <2>1, <2>9 DEF AfterPrompt, Quiets, Exited
  <2>10. CASE \E line, todo : Writes(line, todo)
    <3>1. PICK line, todo : Writes(line, todo)
      BY <2>10
    <3>2. /\ stdin = <<>> /\ console.command = "adjust"
          /\ \A i \in 1 .. Len(stdout) : stdout[i].tag = "prompt" => i = k
      BY <2>1, <3>1 DEF AfterPrompt, Writes, Exited
    <3>3. /\ line \in Lines /\ line.tag # "prompt" /\ stdout' = Append(stdout, line)
          /\ stdin' = <<>> /\ console'.at = "working" /\ console'.command = "adjust"
      BY <3>1, <3>2 DEF Writes
    <3>4. /\ k \in 1 .. Len(stdout') /\ stdout'[k].tag = "prompt"
          /\ \A i \in 1 .. Len(stdout') : stdout'[i].tag = "prompt" => i = k
      BY <2>5, <3>2, <3>3
    <3> QED
      BY <3>3, <3>4 DEF AfterPrompt
  <2> QED
    BY <2>4, <2>6, <2>7, <2>8, <2>9, <2>10, Zenon DEF Moves
<1> QED
  BY <1>4, <1>5 DEF Adjusting

LEMMA FlowingMoves ==
  ASSUME TypeOK, client.at \in {"echo", "lines"}, Flowing, Moves, Unasked
  PROVE  Flowing'
<1>1. /\ client' = client /\ next' = next /\ decode' = decode
      /\ console.at # "none" /\ PromptLast /\ LinesFit /\ HeardSoFar
      /\ stdin \in Seq(Commands) /\ stdout \in Seq(Lines) /\ client.left \in Seq(Addresses)
      /\ console.todo \in Seq(Numbers)
  BY DEF Flowing, Unasked, TypeOK, Clients, Consoles
<1>2. client'.op \in Flows /\ NotHeld' /\ HeardSoFar' /\ Echoes' = Echoes
  BY <1>1, Zenon DEF Flowing, NotHeld, Unasked, HeardSoFar, Echoes
<1>3. Echoes \in {0, 1} /\ (client.at = "echo" <=> Echoes = 1) /\ Len(client.left) \in Nat
  BY <1>1, LenProperties DEF Echoes
<1> DEFINE Where(at) ==
       \/ /\ at = "waiting" /\ client.at = "echo" /\ stdout' = <<>>
          /\ Len(stdin') = 1 /\ stdin'[1].name = "flow" /\ stdin'[1].arguments = client.left
       \/ /\ at = "working" /\ stdin' = <<>> /\ Unprompted'
          /\ console'.command = "flow" /\ Len(stdout') >= Echoes /\ ToCome'
       \/ /\ at = "waiting" /\ stdin' = <<>> /\ Prompted'
<1>4. SUFFICES /\ console'.at # "none" /\ PromptLast' /\ LinesFit'
               /\ ~Exited' => Where(console'.at)
  BY <1>1, <1>2, Zenon DEF Flowing
<1>5. ASSUME NEW line \in Lines, stdout' = Append(stdout, line), Fits(Len(stdout) + 1, line)
      PROVE  LinesFit'
  <2>1. /\ Len(stdout') = Len(stdout) + 1 /\ Len(stdout) \in Nat
        /\ \A i \in 1 .. Len(stdout) : stdout'[i] = stdout[i]
        /\ stdout'[Len(stdout) + 1] = line
    BY <1>1, <1>5, Appends
  <2>2. SUFFICES ASSUME NEW i \in 1 .. Len(stdout')
                 PROVE  Fits(i, stdout'[i])
    BY <1>1, <1>2, Zenon DEF LinesFit, Fits
  <2>3. i \in 1 .. Len(stdout) \/ i = Len(stdout) + 1
    BY <2>1
  <2>4. CASE i \in 1 .. Len(stdout)
    <3>1. stdout'[i] = stdout[i]
      BY <2>1, <2>4
    <3> QED
      BY <1>1, <2>4, <3>1, Zenon DEF LinesFit
  <2>5. CASE i = Len(stdout) + 1
    BY <1>5, <2>1, <2>5, Zenon
  <2> QED
    BY <2>3, <2>4, <2>5
<1>6. CASE Dies
  <2>1. stdout' = stdout /\ console'.at = "exited"
    BY <1>6 DEF Dies
  <2>2. PromptLast' /\ LinesFit'
    BY <1>1, <1>2, <2>1, Zenon DEF PromptLast, LinesFit, Fits
  <2> QED
    BY <2>1, <2>2 DEF Exited
<1>7. ~Starts
  BY DEF Starts, Flowing, Exited
<1>8. CASE Reads
  <2>1. /\ client.at = "echo" /\ stdout = <<>> /\ Len(stdin) = 1
        /\ stdin[1].name = "flow" /\ stdin[1].arguments = client.left
    BY <1>8 DEF Reads, Flowing, Exited
  <2>2. Head(stdin) = stdin[1] /\ Tail(stdin) = <<>> /\ Len(stdout) = 0
    BY <1>1, <2>1, OneElement
  <2>3. Unprompted
    BY <2>2 DEF Unprompted
  <2>4. Unprompted' /\ PromptLast'
    <3>1. "echo" # "prompt"
      OBVIOUS
    <3> QED
      BY <1>1, <1>8, <2>3, <3>1, PlainLines, AppendsLine, Zenon DEF Reads
  <2>5. /\ stdin' = <<>> /\ console'.at = "working" /\ console'.command = "flow"
        /\ console'.todo = client.left
    <3>1. "flow" # "quit"
      OBVIOUS
    <3> QED
      BY <1>8, <2>1, <2>2, <3>1, Zenon DEF Reads
  <2>6. Len(stdout') = 1
    BY <1>1, <1>8, <2>2, PlainLines, Appends DEF Reads
  <2>7. LinesFit'
    <3>1. Echoes = 1 /\ Len(stdout) + 1 <= Echoes /\ ~(Len(stdout) + 1 > Echoes)
      BY <1>3, <2>1, <2>2
    <3> QED
      BY <1>5, <1>8, <3>1, PlainLines, Zenon DEF Reads, Fits
  <2>8. ToCome'
    BY <1>1, <1>2, <1>3, <2>1, <2>5, <2>6 DEF ToCome
  <2> QED
    BY <1>3, <2>4, <2>5, <2>6, <2>7, <2>8
<1>9. CASE Prompting
  <2>1. stdin = <<>> /\ Unprompted /\ Len(stdout) >= Echoes /\ Len(stdout) \in Nat
    BY <1>1, <1>9, LenProperties DEF Prompting, Flowing, Exited
  <2>2. Prompted' /\ PromptLast'
    BY <1>1, <1>9, <2>1, PlainLines, AppendsPrompt, Zenon DEF Prompting
  <2>3. LinesFit'
    <3> DEFINE line == Prompt
    <3>1. line \in Lines /\ line.tag = "prompt" /\ stdout' = Append(stdout, line)
      BY <1>9, PlainLines DEF Prompting
    <3> HIDE DEF line
    <3>2. ~(Len(stdout) + 1 <= Echoes)
      BY <1>3, <2>1
    <3>3. "prompt" # "flow" /\ "prompt" \in {"flow", "error", "refused", "prompt"}
      OBVIOUS
    <3> QED
      BY <1>5, <3>1, <3>2, <3>3, Zenon DEF Fits
  <2> QED
    BY <1>9, <2>1, <2>2, <2>3 DEF Prompting
<1>10. CASE \E line, todo : Writes(line, todo)
  <2>1. PICK line, todo : Writes(line, todo)
    BY <1>10
  <2>2. /\ stdin = <<>> /\ Unprompted /\ console.command = "flow" /\ Len(stdout) >= Echoes
        /\ ToCome /\ Len(stdout) \in Nat
    BY <1>1, <2>1, LenProperties DEF Writes, Flowing, Exited
  <2>3. Unprompted' /\ PromptLast'
    BY <1>1, <2>1, <2>2, AppendsLine, Zenon DEF Writes
  <2>4. /\ line \in Lines /\ stdout' = Append(stdout, line) /\ stdin' = <<>>
        /\ console'.at = "working" /\ console'.command = "flow" /\ console'.todo = todo
        /\ console.todo # <<>>
    BY <2>1, <2>2 DEF Writes
  <2>5. \/ line.tag \in {"error", "refused"} /\ todo = <<>>
        \/ /\ line.tag = "flow" /\ todo = Tail(console.todo)
           /\ line.address = Head(console.todo) /\ line.kind = decode[Head(console.todo)]
    BY <2>1, <2>2 DEF Writes
  <2>6. /\ Len(stdout) - Echoes + Len(console.todo) = Len(client.left)
        /\ \A j \in 1 .. Len(console.todo) :
             console.todo[j] = client.left[Len(stdout) - Echoes + j]
    BY <2>2, <2>4 DEF ToCome
  <2>7. /\ Head(console.todo) = console.todo[1]
        /\ Len(Tail(console.todo)) = Len(console.todo) - 1 /\ Len(console.todo) \in Nat
        /\ Len(console.todo) >= 1
        /\ \A i \in 1 .. Len(Tail(console.todo)) : Tail(console.todo)[i] = console.todo[i + 1]
    BY <1>1, <2>4, Firsts
  <2>8. Head(console.todo) = client.left[Len(stdout) + 1 - Echoes]
    <3>1. console.todo[1] = client.left[Len(stdout) - Echoes + 1]
      BY <2>6, <2>7
    <3>2. Len(stdout) - Echoes + 1 = Len(stdout) + 1 - Echoes
      BY <1>3, <2>2
    <3> QED
      BY <2>7, <3>1, <3>2
  <2>9. LinesFit'
    <3>1. ~(Len(stdout) + 1 <= Echoes) /\ Len(stdout) + 1 - Echoes <= Len(client.left)
      BY <1>3, <2>2, <2>6, <2>7
    <3>2. line.tag \in {"flow", "error", "refused", "prompt"}
      BY <2>5
    <3>3. line.tag = "flow" => /\ line.address = client.left[Len(stdout) + 1 - Echoes]
                               /\ line.kind = decode[client.left[Len(stdout) + 1 - Echoes]]
      <4>1. "flow" \notin {"error", "refused"}
        OBVIOUS
      <4> QED
        BY <2>5, <2>8, <4>1, Zenon
    <3>4. PICK n \in Nat : n = Len(stdout) + 1
      BY <2>2
    <3>5. ~(n <= Echoes) /\ n - Echoes <= Len(client.left) /\ n - Echoes = Len(stdout) + 1 - Echoes
      <4> HIDE DEF Echoes
      <4>0. Echoes \in Int
        BY <1>3
      <4>1. n - Echoes = Len(stdout) + 1 - Echoes
        BY <3>4, <4>0
      <4>2. ~(n <= Echoes)
        BY <3>1, <3>4
      <4>3. n - Echoes <= Len(client.left)
        BY <3>1, <4>1
      <4> QED
        BY <4>1, <4>2, <4>3
    <3>6. line.tag = "flow" => /\ line.address = client.left[n - Echoes]
                               /\ line.kind = decode[client.left[n - Echoes]]
      BY <3>3, <3>5, Zenon
    <3>7. Fits(n, line)
      BY <3>2, <3>5, <3>6, Zenon DEF Fits
    <3>8. Fits(Len(stdout) + 1, line)
      BY <3>4, <3>7, Zenon
    <3> QED
      BY <1>5, <2>4, <3>8, Zenon
  <2>10. Len(stdout') = Len(stdout) + 1
    BY <1>1, <2>4, Appends
  <2>11. ToCome'
    <3>1. CASE todo = <<>>
      BY <2>4, <3>1, Zenon DEF ToCome
    <3>2. CASE todo = Tail(console.todo)
      <4>1. Len(stdout') - Echoes + Len(todo) = Len(client.left)
        <5>1. Len(todo) = Len(console.todo) - 1
          BY <2>7, <3>2, Zenon
        <5>2. Len(stdout) - Echoes + Len(console.todo) = Len(client.left)
          BY <2>6, Zenon
        <5> DEFINE n == Len(stdout)   m == Len(stdout')   e == Echoes
                   t == Len(console.todo)   u == Len(todo)   l == Len(client.left)
        <5>3. n \in Int /\ e \in Int /\ t \in Int /\ m = n + 1 /\ u = t - 1 /\ n - e + t = l
          BY <1>3, <2>2, <2>7, <2>10, <5>1, <5>2
        <5> HIDE DEF n, m, e, t, u, l
        <5>4. m - e + u = l
          BY <5>3
        <5> QED
          BY <5>4 DEF n, m, e, t, u, l
      <4>2. ASSUME NEW j \in 1 .. Len(todo)
            PROVE  todo[j] = client.left[Len(stdout') - Echoes + j]
        <5>1. todo[j] = console.todo[j + 1] /\ j + 1 \in 1 .. Len(console.todo)
          BY <2>7, <3>2
        <5>2. console.todo[j + 1] = client.left[Len(stdout) - Echoes + (j + 1)]
          BY <2>6, <5>1
        <5>3. Len(stdout) - Echoes + (j + 1) = Len(stdout') - Echoes + j
          BY <1>3, <2>2, <2>7, <2>10, <3>2
        <5> QED
          BY <5>1, <5>2, <5>3
      <4> QED
        BY <1>1, <1>2, <2>4, <4>1, <4>2, Zenon DEF ToCome
    <3> QED
      BY <2>5, <3>1, <3>2
  <2>12. Len(stdout') >= Echoes
    BY <1>3, <2>2, <2>10
  <2> QED
    BY <2>3, <2>4, <2>9, <2>11, <2>12
<1>11. ~Quiets
  BY DEF Quiets, Flowing, Exited
<1> QED
  BY <1>6, <1>7, <1>8, <1>9, <1>10, <1>11, Zenon DEF Moves

LEMMA QuittingMoves ==
  ASSUME TypeOK, Quitting, Moves, Unasked
  PROVE  Quitting'
<1>1. /\ client' = client /\ NotHeld' /\ client.op = "quit" /\ stdin \in Seq(Commands)
      /\ ~Exited => console.at = "waiting" /\ Len(stdin) = 1 /\ stdin[1].name = "quit"
  BY DEF Quitting, Unasked, NotHeld, TypeOK
<1>2. ~Starts /\ ~Prompting /\ ~Quiets /\ \A line, todo : ~Writes(line, todo)
  BY <1>1 DEF Starts, Prompting, Quiets, Writes, Exited
<1>3. CASE Dies
  BY <1>1, <1>3 DEF Dies, Quitting, Exited
<1>4. CASE Reads
  <2>1. Len(stdin) = 1 /\ stdin[1].name = "quit"
    BY <1>1, <1>4 DEF Reads, Exited
  <2>2. Head(stdin) = stdin[1]
    BY <1>1, <2>1, OneElement
  <2>3. console'.at = "exited"
    BY <1>4, <2>1, <2>2, Zenon DEF Reads
  <2> QED
    BY <1>1, <2>3 DEF Quitting, Exited
<1> QED
  BY <1>2, <1>3, <1>4, Zenon DEF Moves

\* What a line of a drained console says.
Drains(line) ==
  line.tag = "flow" =>
    line.address = client.asked[1] /\ line.kind = decode[client.asked[1]]
\* What a command asks there.
Scripted(name, arguments) ==
  /\ name = "load" => client.op = "once" /\ arguments = <<next - 1>>
  /\ name = "flow" => arguments = client.asked

LEMMA DrainingMoves ==
  ASSUME TypeOK, Draining, Moves, Unasked
  PROVE  Draining'
<1>1. /\ client' = client /\ next' = next /\ decode' = decode
      /\ stdin \in Seq(Commands) /\ stdout \in Seq(Lines) /\ client.asked \in Seq(Addresses)
      /\ console.todo \in Seq(Numbers)
  BY DEF Unasked, TypeOK, Clients, Consoles
<1>2. /\ client.op \in {"once", "onceFile"} /\ session = "none" /\ Len(client.asked) = 1
      /\ IF client.op = "once" THEN Held ELSE NotHeld
      /\ \A i \in 1 .. Len(stdin) : Scripted(stdin[i].name, stdin[i].arguments)
      /\ console.todo # <<>> => Scripted(console.command, console.todo)
      /\ \A i \in 1 .. Len(stdout) : Drains(stdout[i])
  BY Zenon DEF Draining, Scripted, Drains
<1>3. /\ client'.op \in {"once", "onceFile"} /\ session' = "none" /\ Len(client'.asked) = 1
      /\ (IF client.op = "once" THEN Held ELSE NotHeld)'
  BY <1>1, <1>2, Zenon DEF Held, NotHeld, Unasked
<1>4. SUFFICES /\ \A i \in 1 .. Len(stdin') : Scripted(stdin'[i].name, stdin'[i].arguments)
               /\ console'.todo # <<>> => Scripted(console'.command, console'.todo)
               /\ \A i \in 1 .. Len(stdout') : Drains(stdout'[i])
  BY <1>1, <1>3, Zenon DEF Draining, Scripted, Drains
<1>5. ASSUME NEW line \in Lines, stdout' = Append(stdout, line), Drains(line)
      PROVE  \A i \in 1 .. Len(stdout') : Drains(stdout'[i])
  <2>1. /\ Len(stdout') = Len(stdout) + 1 /\ Len(stdout) \in Nat
        /\ \A i \in 1 .. Len(stdout) : stdout'[i] = stdout[i]
        /\ stdout'[Len(stdout) + 1] = line
    BY <1>1, <1>5, Appends
  <2>2. TAKE i \in 1 .. Len(stdout')
  <2>3. i \in 1 .. Len(stdout) \/ i = Len(stdout) + 1
    BY <2>1
  <2>4. stdout'[i] = line \/ (i \in 1 .. Len(stdout) /\ stdout'[i] = stdout[i])
    BY <2>1, <2>3, Zenon
  <2> QED
    BY <1>2, <1>5, <2>4, Zenon
<1>6. CASE Starts
  <2>1. Drains(Prompt)
    BY PlainLines DEF Drains
  <2>2. /\ stdin' = stdin /\ console'.todo = console.todo /\ stdout' = Append(stdout, Prompt)
        /\ console'.command = console.command /\ Prompt \in Lines
    BY <1>6, PlainLines, Zenon DEF Starts
  <2> QED
    BY <1>2, <1>5, <2>1, <2>2, Zenon
<1>7. CASE Reads
  <2> DEFINE echo == Line("echo", 0, "none")
  <2>1. echo \in Lines /\ Drains(echo)
    BY PlainLines DEF Drains
  <2>2. stdin # <<>> /\ stdin' = Tail(stdin) /\ stdout' = Append(stdout, echo)
    BY <1>7, Zenon DEF Reads
  <2>3. /\ Head(stdin) = stdin[1] /\ Len(Tail(stdin)) = Len(stdin) - 1 /\ Len(stdin) \in Nat
        /\ Len(stdin) >= 1 /\ \A i \in 1 .. Len(Tail(stdin)) : Tail(stdin)[i] = stdin[i + 1]
    BY <1>1, <2>2, Firsts
  <2>4. Scripted(Head(stdin).name, Head(stdin).arguments)
    <3>1. 1 \in 1 .. Len(stdin)
      BY <2>3
    <3> QED
      BY <1>2, <2>3, <3>1, Zenon
  <2>5. console'.todo # <<>> => Scripted(console'.command, console'.todo)
    BY <1>2, <1>7, <2>4, Zenon DEF Reads
  <2>6. ASSUME NEW i \in 1 .. Len(stdin')
        PROVE  Scripted(stdin'[i].name, stdin'[i].arguments)
    <3>1. i + 1 \in 1 .. Len(stdin) /\ stdin'[i] = stdin[i + 1]
      BY <2>2, <2>3
    <3> QED
      BY <1>2, <3>1, Zenon
  <2> HIDE DEF echo
  <2> QED
    BY <1>5, <2>1, <2>2, <2>5, <2>6, Zenon
<1>8. CASE Prompting
  <2>1. Prompt \in Lines /\ Drains(Prompt)
    BY PlainLines DEF Drains
  <2>2. stdin' = stdin /\ console'.todo = <<>> /\ stdout' = Append(stdout, Prompt)
    BY <1>8, Zenon DEF Prompting
  <2> QED
    BY <1>2, <1>5, <2>1, <2>2, Zenon
<1>9. CASE Dies
  BY <1>2, <1>9, Zenon DEF Dies
<1>10. CASE \E line, todo : Writes(line, todo)
  <2>1. PICK line, todo : Writes(line, todo)
    BY <1>10
  <2>2. /\ line \in Lines /\ stdout' = Append(stdout, line) /\ stdin' = stdin
        /\ console'.command = console.command /\ console'.todo = todo /\ console.todo # <<>>
    BY <2>1, Zenon DEF Writes
  <2>3. /\ Head(console.todo) = console.todo[1]
        /\ Len(Tail(console.todo)) = Len(console.todo) - 1 /\ Tail(console.todo) \in Seq(Numbers)
    BY <1>1, <2>2, Firsts
  <2>4. Drains(line)
    <3>1. SUFFICES ASSUME line.tag = "flow"
                   PROVE  line.address = client.asked[1] /\ line.kind = decode[client.asked[1]]
      BY Zenon DEF Drains
    <3>2. /\ console.command = "flow"
          /\ line.address = Head(console.todo) /\ line.kind = decode[Head(console.todo)]
      BY <2>1, <3>1 DEF Writes
    <3>3. console.todo = client.asked
      BY <1>2, <2>2, <3>2, Zenon DEF Scripted
    <3> QED
      BY <2>3, <3>2, <3>3, Zenon
  <2>5. ASSUME todo # <<>>
        PROVE  Scripted(console.command, todo)
    <3>1. todo = Tail(console.todo) /\ Len(todo) # 0
      BY <2>1, <2>3, <2>5, EmptySeq, Zenon DEF Writes
    <3>2. Len(console.todo) # 1
      BY <2>3, <3>1
    <3>3. console.command \notin {"load", "flow"}
      <4>1. Len(<<next - 1>>) = 1
        OBVIOUS
      <4> QED
        BY <1>2, <2>2, <3>2, <4>1, Zenon DEF Scripted
    <3> QED
      BY <3>3 DEF Scripted
  <2> QED
    BY <1>2, <1>5, <2>2, <2>4, <2>5, Zenon
<1>11. CASE Quiets
  BY <1>2, <1>11, Zenon DEF Quiets
<1> QED
  BY <1>6, <1>7, <1>8, <1>9, <1>10, <1>11, Zenon DEF Moves

LEMMA ConsoleKeeps ==
  ASSUME SessionInv, ConsoleStep \/ ConsoleDies
  PROVE  SessionInv'
<1>1. TypeOK /\ TypeOK' /\ Moves /\ Unasked /\ client' = client
  BY ConsoleMoves, Zenon DEF SessionInv, Moves, Unasked
<1>2. CASE client.at = "idle" /\ Resting
  BY <1>1, <1>2, RestingMoves, Zenon DEF SessionInv, Place
<1>3. CASE client.at = "until" /\ Until
  BY <1>1, <1>3, UntilMoves, Zenon DEF SessionInv, Place
<1>4. CASE client.at \in {"echo", "lines"} /\ Flowing
  BY <1>1, <1>4, FlowingMoves, Zenon DEF SessionInv, Place
<1>5. CASE client.at = "drain" /\ Draining
  BY <1>1, <1>5, DrainingMoves, Zenon DEF SessionInv, Place
<1>6. CASE client.at = "quitting" /\ Quitting
  BY <1>1, <1>6, QuittingMoves, Zenon DEF SessionInv, Place
<1>7. CASE client.at = "until" /\ Adjusting
  BY <1>1, <1>7, AdjustingMoves, Zenon DEF SessionInv, Place
<1> QED
  BY <1>2, <1>3, <1>4, <1>5, <1>6, <1>7, Zenon DEF SessionInv, Place
-----------------------------------------------------------------------------
(* The steps of the client.  What the oracle sees of them is the sequence  *)
(* asked about and the answer.                                             *)

Asked == IF client.op \in FlowRequests THEN client.asked ELSE <<>>
Abstracted == <<decode, Asked, heard>>
OracleStep == Oracle!Ask \/ Oracle!Answer \/ UNCHANGED Abstracted

LEMMA IdleClient == Idle \in Clients /\ Idle.at = "idle" /\ Idle.op = "none"
<1>1. <<>> \in Seq(Addresses) /\ <<>> \in Seq(Heard)
  BY EmptySeq
<1> QED
  BY <1>1 DEF Idle, Clients

LEMMA NothingLeft ==
  ASSUME stdout' = <<>>
  PROVE  PromptLast' /\ LinesFit' /\ Unprompted' /\ stdout' \in Seq(Lines)
<1>1. Len(stdout') = 0 /\ stdout' \in Seq(Lines)
  BY EmptySeq
<1>2. \A i \in 1 .. Len(stdout') : FALSE
  BY <1>1
<1> QED
  BY <1>1, <1>2, Zenon DEF PromptLast, LinesFit, Unprompted

LEMMA Rests ==
  ASSUME client' = Idle, NotHeld', stdout' = <<>>,
         console'.at \in {"none", "waiting", "exited"},
         console'.at = "none" => session' = "none",
         console'.at # "exited" => stdin' = <<>>
  PROVE  Place'
<1>1. Resting'
  BY Zenon DEF Resting, Exited
<1> QED
  BY <1>1, IdleClient, Zenon DEF Place

LEMMA Afterwards ==
  ASSUME NEW S, NEW s \in Seq(S), Len(s) >= 1, NEW t, t = SubSeq(s, 2, Len(s))
  PROVE  /\ t \in Seq(S) /\ Len(t) = Len(s) - 1
         /\ \A i \in 1 .. Len(t) : t[i] = s[i + 1] /\ i + 1 \in 1 .. Len(s)
<1> DEFINE n == Len(s)
<1>1. n \in Nat /\ n >= 1 /\ \A i \in 2 .. n : s[i] \in S
  BY LenProperties
<1> HIDE DEF n
<1>2. 2 \in Int /\ n \in Int
  BY <1>1
<1>3. /\ t \in Seq(S) /\ Len(t) = IF 2 <= n THEN n - 2 + 1 ELSE 0
      /\ \A i \in 1 .. n - 2 + 1 : t[i] = s[2 + i - 1]
  <2>1. t = SubSeq(s, 2, n)
    BY Zenon DEF n
  <2> QED
    BY <1>1, <1>2, <2>1, SubSeqProperties
<1>4. Len(t) = n - 1
  BY <1>1, <1>3
<1>5. ASSUME NEW i \in 1 .. Len(t)
      PROVE  t[i] = s[i + 1] /\ i + 1 \in 1 .. n
  <2>1. i \in 1 .. n - 2 + 1 /\ 2 + i - 1 = i + 1 /\ i + 1 \in 1 .. n
    BY <1>1, <1>4
  <2>2. t[i] = s[2 + i - 1]
    BY <1>3, <2>1
  <2> QED
    BY <2>1, <2>2
<1> QED
  BY <1>3, <1>4, <1>5 DEF n

\* After its first line the output is shorter by it.
LEMMA AfterFirst ==
  ASSUME stdout \in Seq(Lines), PromptLast, LineEnd # 0, stdout' = AfterLine,
         stdout[1].tag # "prompt"
  PROVE  /\ LineEnd = 1 /\ Len(stdout) \in Nat /\ Len(stdout) >= 1 /\ stdout[1] \in Lines
         /\ stdout' \in Seq(Lines) /\ Len(stdout') = Len(stdout) - 1
         /\ \A i \in 1 .. Len(stdout') : stdout'[i] = stdout[i + 1] /\ i + 1 \in 1 .. Len(stdout)
         /\ PromptLast' /\ (Unprompted => Unprompted') /\ (Prompted => Prompted')
<1>1. /\ LineEnd \in 1 .. Len(stdout) /\ Len(stdout) \in Nat
      /\ \A i \in 1 .. Len(stdout) : stdout[i].tag # "prompt" => LineEnd <= i
  BY LineEnds, LenProperties
<1>2. LineEnd = 1 /\ Len(stdout) >= 1
  <2>1. 1 \in 1 .. Len(stdout)
    BY <1>1
  <2>2. LineEnd <= 1
    BY <1>1, <2>1
  <2> QED
    BY <1>1, <2>2
<1>3. stdout' = SubSeq(stdout, 2, Len(stdout))
  BY <1>2 DEF AfterLine
<1>4. /\ stdout' \in Seq(Lines) /\ Len(stdout') = Len(stdout) - 1
      /\ \A i \in 1 .. Len(stdout') : stdout'[i] = stdout[i + 1] /\ i + 1 \in 1 .. Len(stdout)
  BY <1>2, <1>3, Afterwards, Zenon
<1>5. PromptLast'
  <2>1. SUFFICES ASSUME NEW i \in 1 .. Len(stdout'), stdout'[i].tag = "prompt"
                 PROVE  i = Len(stdout') /\ stdout'[i] = Prompt
    BY Zenon DEF PromptLast, Prompt, Line
  <2>2. stdout'[i] = stdout[i + 1] /\ i + 1 \in 1 .. Len(stdout)
    BY <1>4
  <2>3. i + 1 = Len(stdout) /\ stdout[i + 1] = Prompt
    BY <2>1, <2>2, Zenon DEF PromptLast
  <2> QED
    BY <1>1, <1>4, <2>2, <2>3
<1>6. Unprompted => Unprompted'
  BY <1>4, Zenon DEF Unprompted
<1>7. ASSUME Prompted
      PROVE  Prompted'
  <2>1. stdout[Len(stdout)].tag = "prompt" /\ Len(stdout) # 1
    BY <1>7, Zenon DEF Prompted
  <2>2. Len(stdout') \in 1 .. Len(stdout') /\ Len(stdout') + 1 = Len(stdout) /\ Len(stdout') # 0
    BY <1>1, <1>2, <1>4, <2>1
  <2>3. stdout'[Len(stdout')] = stdout[Len(stdout)]
    BY <1>4, <2>2
  <2>4. stdout' # <<>>
    BY <2>2
  <2> QED
    BY <2>1, <2>3, <2>4, Zenon DEF Prompted
<1>8. stdout[1] \in Lines
  BY <1>1, <1>2
<1> QED
  BY <1>1, <1>2, <1>4, <1>5, <1>6, <1>7, <1>8

LEMMA ReadTypes ==
  ASSUME TypeOK, UNCHANGED <<decode, console, stdin, session, next>>, client' \in Clients,
         stdout' \in Seq(Lines)
  PROVE  TypeOK'
BY DEF TypeOK

LEMMA FlowAsks ==
  ASSUME client.op \in Flows
  PROVE  Asked = client.asked
BY DEF Asked, Flows, FlowRequests

LEMMA IdleAsks ==
  ASSUME client' = Idle
  PROVE  Asked' = <<>>
<1>1. client'.op = "none"
  BY IdleClient
<1> QED
  BY <1>1 DEF Asked, FlowRequests

\* An answer, in the oracle's words.
LEMMA Answers ==
  ASSUME client.op \in FlowRequests, client.asked # <<>>, client' = Idle,
         decode' = decode,
         \/ heard' = <<>>
         \/ /\ DOMAIN heard' = DOMAIN client.asked
            /\ \A i \in DOMAIN client.asked :
                 /\ heard'[i].address = client.asked[i]
                 /\ heard'[i].kind \in {decode[client.asked[i]], "bad"}
  PROVE  OracleStep
<1>1. Asked = client.asked /\ Asked' = <<>>
  BY IdleAsks DEF Asked
<1>2. Oracle!Answer
  BY <1>1, Zenon DEF Oracle!Answer, Oracle!Says, Asked
<1> QED
  BY <1>2, Zenon DEF OracleStep

LEMMA FailsRests ==
  ASSUME SessionInv, client.at \in {"echo", "lines"}, stdout' = <<>>, Fails,
         console.at \in {"waiting", "exited"}, ~Exited => stdin = <<>>,
         UNCHANGED <<decode, console, stdin, session, images, next>>
  PROVE  SessionInv' /\ OracleStep
<1>1. TypeOK /\ Flowing
  BY Zenon DEF SessionInv, Place
<1>2. /\ client.op \in Flows /\ NotHeld /\ client.asked # <<>>
      /\ client.asked \in Seq(Addresses) /\ client.op \in FlowRequests
      /\ console.at # "exited" => stdin = <<>>
  BY <1>1 DEF Flowing, HeardSoFar, Matches, TypeOK, Clients, Exited, Flows, FlowRequests
<1>3. /\ client' = Idle
      /\ heard' = IF client.op # "tryFlow" THEN <<>>
                  ELSE [i \in DOMAIN client.asked |-> [address |-> client.asked[i], kind |-> "bad"]]
  BY Zenon DEF Fails
<1>4. SessionInv'
  <2>1. TypeOK'
    BY <1>1, <1>3, NothingLeft, IdleClient, ReadTypes, Zenon
  <2>2. NotHeld'
    BY <1>2 DEF NotHeld
  <2>3. console' = console
    OBVIOUS
  <2>4. console.at # "none" /\ console.at \in {"none", "waiting", "exited"}
    OBVIOUS
  <2>5. Place'
    BY <1>2, <1>3, <2>2, <2>3, <2>4, Rests, Zenon
  <2> QED
    BY <2>1, <2>5, Zenon DEF SessionInv
<1>5. \/ heard' = <<>>
      \/ /\ DOMAIN heard' = DOMAIN client.asked
         /\ \A i \in DOMAIN client.asked :
              /\ heard'[i].address = client.asked[i]
              /\ heard'[i].kind \in {decode[client.asked[i]], "bad"}
  <2>1. CASE client.op # "tryFlow"
    BY <1>3, <2>1
  <2>2. CASE client.op = "tryFlow"
    <3>1. heard' = [i \in DOMAIN client.asked |-> [address |-> client.asked[i], kind |-> "bad"]]
      BY <1>3, <2>2
    <3> QED
      BY <3>1
  <2> QED
    BY <2>1, <2>2
<1>6. OracleStep
  BY <1>2, <1>3, <1>5, Answers, Zenon
<1> QED
  BY <1>4, <1>6

\* The client goes on reading, and the oracle sees nothing of it.
LEMMA ReadsOn ==
  ASSUME client.op \in Flows, client'.op \in Flows,
         client'.asked = client.asked, UNCHANGED <<decode, heard>>
  PROVE  OracleStep
<1>1. Asked' = Asked
  BY DEF Asked, Flows, FlowRequests
<1> QED
  BY <1>1, Zenon DEF OracleStep, Abstracted

\* A line after the echo, by its place among the addresses.
FlowsAt(k, line) ==
  /\ line.tag \in {"flow", "error", "refused", "prompt"}
  /\ line.tag # "prompt" => k <= Len(client.left)
  /\ line.tag = "flow" =>
       line.address = client.left[k] /\ line.kind = decode[client.left[k]]

LEMMA FitsLater ==
  ASSUME NEW i \in Int, NEW line, Fits(i, line), i > Echoes, NEW k, k = i - Echoes
  PROVE  FlowsAt(k, line)
<1> HIDE DEF Echoes
<1> QED
  BY DEF Fits, FlowsAt

LEMMA EchoStep ==
  ASSUME SessionInv, FlowEcho
  PROVE  SessionInv' /\ OracleStep
<1>1. /\ client.at = "echo" /\ LineThere /\ stdout' = AfterLine
      /\ IF EndOfOutput THEN Fails
         ELSE client' = [client EXCEPT !.at = "lines"] /\ UNCHANGED heard
      /\ UNCHANGED <<decode, console, stdin, session, images, next>>
  BY Zenon DEF FlowEcho
<1>2. TypeOK /\ Flowing
  <2>1. "echo" # "idle" /\ "echo" # "until" /\ "echo" # "drain" /\ "echo" # "quitting"
    OBVIOUS
  <2> QED
    BY <1>1, <2>1, Zenon DEF SessionInv, Place
<1>3. stdout \in Seq(Lines) /\ Len(stdout) \in Nat /\ client \in Clients
  BY <1>2, LenProperties DEF TypeOK
<1>4. Echoes = 1
  BY <1>1 DEF Echoes
<1>5. ASSUME stdout # <<>>
      PROVE  LineEnd # 0 /\ stdout[1].tag = "echo"
  <2>1. 1 \in 1 .. Len(stdout)
    BY <1>3, <1>5, EmptySeq
  <2>2. Fits(1, stdout[1])
    BY <1>2, <2>1, Zenon DEF Flowing, LinesFit
  <2>3. stdout[1].tag = "echo"
    BY <1>4, <2>2 DEF Fits
  <2> QED
    BY <1>3, <2>1, <2>3, LineEnds
<1>6. CASE stdout = <<>>
  <2>1. LineEnd = 0
    <3>1. Len(stdout) = 0
      BY <1>6
    <3>2. LineEnd # 0 => LineEnd \in 1 .. Len(stdout)
      BY <1>3, LineEnds
    <3> QED
      BY <3>1, <3>2
  <2>2. Exited /\ stdout' = <<>> /\ EndOfOutput
    BY <1>1, <1>6, <2>1 DEF LineThere, AfterLine, EndOfOutput
  <2> QED
    BY <1>1, <2>2, FailsRests DEF Exited
<1>7. CASE stdout # <<>>
  <2>1. client' = [client EXCEPT !.at = "lines"] /\ UNCHANGED heard
    BY <1>1, <1>7 DEF EndOfOutput
  <2>2. /\ client' \in Clients /\ client'.at = "lines" /\ client'.op = client.op
        /\ client'.asked = client.asked /\ client'.left = client.left
        /\ client'.results = client.results
    BY <1>3, <2>1 DEF Clients
  <2>3. OracleStep
    BY <1>1, <1>2, <2>1, <2>2, ReadsOn, Zenon DEF Flowing
  <2>4. stdout[1].tag # "prompt" /\ LineEnd # 0
    BY <1>5, <1>7
  <2>5. /\ Len(stdout) >= 1
        /\ stdout' \in Seq(Lines) /\ Len(stdout') = Len(stdout) - 1
        /\ \A i \in 1 .. Len(stdout') : stdout'[i] = stdout[i + 1] /\ i + 1 \in 1 .. Len(stdout)
        /\ PromptLast' /\ (Unprompted => Unprompted') /\ (Prompted => Prompted')
    BY <1>1, <1>2, <1>3, <2>4, AfterFirst, Zenon DEF Flowing
  <2>6. Echoes' = 0
    BY <2>2 DEF Echoes
  <2>7. LinesFit'
    <3>1. SUFFICES ASSUME NEW i \in 1 .. Len(stdout')
                   PROVE  /\ i <= Echoes' => stdout'[i].tag = "echo"
                          /\ i > Echoes' => FlowsAt(i - Echoes', stdout'[i])
      BY <1>1, <2>2, Zenon DEF LinesFit, Fits, FlowsAt
    <3>2. stdout'[i] = stdout[i + 1] /\ i + 1 \in 1 .. Len(stdout)
      BY <2>5
    <3>3. Fits(i + 1, stdout'[i])
      BY <1>2, <3>2, Zenon DEF Flowing, LinesFit
    <3>4. PICK m \in Int : m = i + 1
      OBVIOUS
    <3>5. FlowsAt(i, stdout'[i])
      <4>1. Fits(m, stdout'[i]) /\ m > Echoes /\ i = m - Echoes
        BY <1>4, <3>3, <3>4
      <4> QED
        BY <4>1, FitsLater
    <3>6. ~(i <= Echoes') /\ i - Echoes' = i
      BY <2>6
    <3> QED
      BY <3>5, <3>6
  <2>8. HeardSoFar'
    BY <1>1, <1>2, <2>2, Zenon DEF Flowing, HeardSoFar
  <2>9. ToCome => ToCome'
    <3>1. Len(stdout') - Echoes' = Len(stdout) - Echoes
      BY <1>3, <1>4, <2>5, <2>6
    <3> QED
      BY <1>1, <2>2, <3>1, Zenon DEF ToCome
  <2>10. Flowing'
    <3>1. client'.op \in Flows /\ NotHeld' /\ console'.at # "none"
      BY <1>1, <1>2, <2>2, Zenon DEF Flowing, NotHeld
    <3>2. Len(stdout') >= Echoes'
      BY <1>3, <2>5, <2>6
    <3>3. ASSUME ~Exited'
          PROVE  \/ /\ console'.at = "working" /\ stdin' = <<>> /\ Unprompted'
                    /\ console'.command = "flow" /\ Len(stdout') >= Echoes' /\ ToCome'
                 \/ /\ console'.at = "waiting" /\ stdin' = <<>> /\ Prompted'
      BY <1>1, <1>2, <1>7, <2>5, <2>9, <3>2, <3>3, Zenon DEF Flowing, Exited
    <3> QED
      BY <2>5, <2>7, <2>8, <3>1, <3>3, Zenon DEF Flowing
  <2>11. TypeOK'
    BY <1>1, <1>2, <2>2, <2>5, ReadTypes, Zenon
  <2>12. client'.at \in {"echo", "lines"}
    BY <2>2
  <2> QED
    BY <2>3, <2>10, <2>11, <2>12, Zenon DEF SessionInv, Place
<1> QED
  BY <1>6, <1>7

\* An answer taken from a line: it matches its address.
LEMMA MatchesNext ==
  ASSUME NEW asked \in Seq(Addresses), NEW left \in Seq(Addresses), NEW results \in Seq(Heard),
         Matches(decode, asked, left, results), left # <<>>,
         NEW said \in Heard, said.address = left[1], said.kind \in {decode[left[1]], "bad"}
  PROVE  /\ Matches(decode, asked, Tail(left), Append(results, said))
         /\ Tail(left) \in Seq(Addresses) /\ Append(results, said) \in Seq(Heard)
<1> DEFINE left1 == Tail(left)   results1 == Append(results, said)
<1>1. /\ left1 \in Seq(Addresses) /\ Len(left1) = Len(left) - 1
      /\ Len(left) \in Nat /\ Len(left) >= 1
      /\ \A i \in 1 .. Len(left1) : left1[i] = left[i + 1]
  BY Firsts
<1>2. /\ results1 \in Seq(Heard) /\ Len(results1) = Len(results) + 1 /\ Len(results) \in Nat
      /\ \A i \in 1 .. Len(results) : results1[i] = results[i]
      /\ results1[Len(results) + 1] = said
  BY AppendProperties, LenProperties
<1>3. /\ asked # <<>> /\ Len(results) + Len(left) = Len(asked) /\ Len(asked) \in Nat
      /\ \A j \in 1 .. Len(left) : left[j] = asked[Len(results) + j]
      /\ \A j \in 1 .. Len(results) :
           results[j].address = asked[j] /\ results[j].kind \in {decode[asked[j]], "bad"}
  BY LenProperties DEF Matches
<1> HIDE DEF left1, results1
<1> DEFINE n == Len(results)   l == Len(left)
<1>4. n \in Nat /\ l \in Nat /\ l >= 1 /\ Len(left1) = l - 1 /\ Len(results1) = n + 1
      /\ n + l = Len(asked)
  BY <1>1, <1>2, <1>3
<1>5. Len(results1) + Len(left1) = Len(asked)
  <2> DEFINE n1 == Len(results1)   l1 == Len(left1)   m == Len(asked)
  <2>1. n \in Int /\ l \in Int /\ l1 = l - 1 /\ n1 = n + 1 /\ n + l = m
    BY <1>4
  <2> HIDE DEF n, l, n1, l1, m
  <2>2. n1 + l1 = m
    BY <2>1
  <2> QED
    BY <2>2 DEF n1, l1, m
<1>6. ASSUME NEW j \in 1 .. Len(left1)
      PROVE  left1[j] = asked[Len(results1) + j]
  <2> HIDE DEF n, l
  <2>1. left1[j] = left[j + 1] /\ j + 1 \in 1 .. l /\ Len(results1) + j = n + (j + 1)
    BY <1>1, <1>4
  <2>2. left[j + 1] = asked[n + (j + 1)]
    BY <1>3, <2>1 DEF n, l
  <2> QED
    BY <2>1, <2>2
<1>7. said.address = asked[n + 1] /\ said.kind \in {decode[asked[n + 1]], "bad"}
  <2>1. left[1] = asked[n + 1]
    BY <1>1, <1>3
  <2> QED
    BY <2>1, Zenon
<1>8. ASSUME NEW j \in 1 .. Len(results1)
      PROVE  results1[j].address = asked[j] /\ results1[j].kind \in {decode[asked[j]], "bad"}
  <2>1. j \in 1 .. n \/ j = n + 1
    BY <1>4
  <2>2. CASE j \in 1 .. n
    <3>1. results1[j] = results[j]
      BY <1>2, <2>2
    <3> QED
      BY <1>3, <2>2, <3>1, Zenon
  <2>3. CASE j = n + 1
    <3>1. results1[j] = said
      BY <1>2, <2>3
    <3> HIDE DEF n
    <3> QED
      BY <1>7, <2>3, <3>1, Zenon
  <2> QED
    BY <2>1, <2>2, <2>3
<1> QED
  BY <1>1, <1>2, <1>3, <1>5, <1>6, <1>8, Zenon DEF Matches, left1, results1

\* The same of a line in the next state.
FlowsAfter(k, line) ==
  /\ line.tag \in {"flow", "error", "refused", "prompt"}
  /\ line.tag # "prompt" => k <= Len(Tail(client.left))
  /\ line.tag = "flow" =>
       line.address = Tail(client.left)[k] /\ line.kind = decode[Tail(client.left)[k]]

LEMMA LinesStep ==
  ASSUME SessionInv, FlowLines
  PROVE  SessionInv' /\ OracleStep
<1>1. /\ client.at = "lines" /\ LineThere /\ stdout' = AfterLine /\ client.left # <<>>
      /\ IF EndOfOutput THEN Fails
         ELSE /\ client' = [client EXCEPT !.left = Tail(@),
                              !.results = Append(@, ParseFlowOutput(ReadLine, Head(client.left))),
                              !.op = IF @ = "flow" /\ ReadLine.tag \notin {"flow", "error"}
                                     THEN "refused" ELSE @]
              /\ UNCHANGED heard
      /\ UNCHANGED <<decode, console, stdin, session, images, next>>
  BY Zenon DEF FlowLines
<1>2. TypeOK /\ Flowing
  <2>1. "lines" # "idle" /\ "lines" # "until" /\ "lines" # "drain" /\ "lines" # "quitting"
    OBVIOUS
  <2> QED
    BY <1>1, <2>1, Zenon DEF SessionInv, Place
<1>3. stdout \in Seq(Lines) /\ Len(stdout) \in Nat /\ client \in Clients
  BY <1>2, LenProperties DEF TypeOK
<1>4. Echoes = 0 /\ 0 \in Int
  BY <1>1 DEF Echoes
<1>5. CASE stdout = <<>> /\ Exited
  <2>1. LineEnd = 0
    <3>1. Len(stdout) = 0
      BY <1>5
    <3>2. LineEnd # 0 => LineEnd \in 1 .. Len(stdout)
      BY <1>3, LineEnds
    <3> QED
      BY <3>1, <3>2
  <2>2. stdout' = <<>> /\ EndOfOutput
    BY <1>1, <1>5, <2>1 DEF AfterLine, EndOfOutput
  <2> QED
    BY <1>1, <1>5, <2>2, FailsRests DEF Exited
<1>6. CASE ~(stdout = <<>> /\ Exited)
  <2> DEFINE a == Head(client.left)   said == ParseFlowOutput(ReadLine, a)
  <2>0. client.op \in Flows
    BY <1>2 DEF Flowing
  <2>1. PICK op \in Flows :
          /\ client' = [client EXCEPT !.left = Tail(@), !.results = Append(@, said), !.op = op]
          /\ UNCHANGED heard
    <3> DEFINE op == IF client.op = "flow" /\ ReadLine.tag \notin {"flow", "error"}
                     THEN "refused" ELSE client.op
    <3>1. op \in Flows
      BY <2>0 DEF Flows
    <3>2. /\ client' = [client EXCEPT !.left = Tail(@), !.results = Append(@, said), !.op = op]
          /\ UNCHANGED heard
      BY <1>1, <1>6 DEF EndOfOutput
    <3> QED
      BY <3>1, <3>2
  <2>2. /\ client.left \in Seq(Addresses) /\ client.asked \in Seq(Addresses)
        /\ client.results \in Seq(Heard)
    BY <1>3 DEF Clients
  <2>3. /\ a = client.left[1] /\ a \in Addresses /\ Len(client.left) \in Nat
        /\ Len(client.left) >= 1 /\ Len(Tail(client.left)) = Len(client.left) - 1
        /\ \A i \in 1 .. Len(Tail(client.left)) : Tail(client.left)[i] = client.left[i + 1]
    BY <1>1, <2>2, Firsts
  <2>4. \/ /\ LineEnd # 0 /\ stdout[1].tag # "prompt" /\ FlowsAt(1, stdout[1])
        \/ /\ LineEnd = 0 /\ Exited
    <3>1. CASE LineEnd = 0
      BY <1>1, <3>1 DEF LineThere
    <3>2. CASE LineEnd # 0
      <4>1. /\ LineEnd \in 1 .. Len(stdout) /\ stdout[LineEnd].tag # "prompt"
            /\ 1 \in 1 .. Len(stdout)
        BY <1>3, <3>2, LineEnds
      <4>2. stdout[1].tag # "prompt"
        <5>1. SUFFICES ASSUME stdout[1].tag = "prompt"
                       PROVE  FALSE
          OBVIOUS
        <5>2. Len(stdout) = 1
          BY <1>2, <4>1, <5>1 DEF Flowing, PromptLast
        <5>3. LineEnd = 1
          BY <4>1, <5>2
        <5> QED
          BY <4>1, <5>1, <5>3, Zenon
      <4>3. Fits(1, stdout[1])
        BY <1>2, <4>1, Zenon DEF Flowing, LinesFit
      <4>4. FlowsAt(1, stdout[1])
        BY <1>4, <4>3, FitsLater
      <4> QED
        BY <3>2, <4>2, <4>4
    <3> QED
      BY <3>1, <3>2
  <2>5. said \in Heard /\ said.address = client.left[1]
        /\ said.kind \in {decode[client.left[1]], "bad"}
    <3>1. a \in Numbers /\ "bad" \in Kinds
      BY <2>3 DEF Numbers, Kinds
    <3>2. CASE LineEnd # 0
      <4>1. LineEnd = 1 /\ stdout[1] \in Lines
        BY <1>1, <1>2, <1>3, <2>4, <3>2, AfterFirst, Zenon DEF Flowing
      <4>2. ReadLine = stdout[1] /\ FlowsAt(1, stdout[1])
        BY <2>4, <3>2, <4>1 DEF ReadLine
      <4> DEFINE line == stdout[1]
      <4>3. /\ line.address \in Numbers /\ line.kind \in Kinds
            /\ line.tag = "flow" =>
                 line.address = client.left[1] /\ line.kind = decode[client.left[1]]
        BY <4>1, <4>2 DEF Lines, FlowsAt
      <4>4. said = ParseFlowOutput(line, a)
        BY <4>2
      <4> HIDE DEF line, said
      <4> QED
        BY <2>3, <3>1, <4>3, <4>4 DEF ParseFlowOutput, Heard
    <3>3. CASE LineEnd = 0
      <4>1. ReadLine = RefusedLine /\ RefusedLine.tag # "flow"
        BY <3>3, PlainLines DEF ReadLine
      <4> HIDE DEF a
      <4>2. said = [address |-> a, kind |-> "bad"]
        BY <4>1 DEF ParseFlowOutput
      <4> QED
        BY <2>3, <3>1, <4>2 DEF Heard
    <3> QED
      BY <3>2, <3>3
  <2> HIDE DEF said
  <2>6. /\ Matches(decode, client.asked, Tail(client.left), Append(client.results, said))
        /\ Tail(client.left) \in Seq(Addresses) /\ Append(client.results, said) \in Seq(Heard)
    <3>1. Matches(decode, client.asked, client.left, client.results) /\ client.left # <<>>
      BY <1>1, <1>2, Zenon DEF Flowing, HeardSoFar
    <3> QED
      BY <2>2, <2>5, <3>1, MatchesNext
  <2>7. /\ client' \in Clients /\ client'.at = "lines" /\ client'.op \in Flows
        /\ client'.asked = client.asked /\ client'.left = Tail(client.left)
        /\ client'.results = Append(client.results, said)
    BY <1>1, <1>3, <2>1, <2>6 DEF Clients, Flows, FlowRequests
  <2>8. OracleStep
    BY <1>1, <2>0, <2>1, <2>7, ReadsOn, Zenon
  <2>9. Echoes' = 0 /\ HeardSoFar'
    BY <1>1, <2>6, <2>7 DEF Echoes, HeardSoFar
  <2>10. client'.op \in Flows /\ NotHeld' /\ console'.at # "none"
    BY <1>1, <1>2, <2>7, Zenon DEF Flowing, NotHeld
  <2>11. stdout' \in Seq(Lines) /\ Flowing'
    <3>1. CASE LineEnd = 0
      <4>1. stdout' = <<>> /\ Exited'
        BY <1>1, <2>4, <3>1 DEF AfterLine, Exited
      <4> QED
        BY <2>9, <2>10, <4>1, NothingLeft, Zenon DEF Flowing
    <3>2. CASE LineEnd # 0
      <4>1. /\ Len(stdout) >= 1 /\ FlowsAt(1, stdout[1])
            /\ stdout' \in Seq(Lines) /\ Len(stdout') = Len(stdout) - 1
            /\ \A i \in 1 .. Len(stdout') : stdout'[i] = stdout[i + 1] /\ i + 1 \in 1 .. Len(stdout)
            /\ PromptLast' /\ (Unprompted => Unprompted') /\ (Prompted => Prompted')
        BY <1>1, <1>2, <1>3, <2>4, <3>2, AfterFirst, Zenon DEF Flowing
      <4>2. LinesFit'
        <5>1. SUFFICES ASSUME NEW i \in 1 .. Len(stdout')
                       PROVE  /\ i <= Echoes' => stdout'[i].tag = "echo"
                              /\ i > Echoes' => FlowsAfter(i - Echoes', stdout'[i])
          BY <1>1, <2>7, Zenon DEF LinesFit, Fits, FlowsAfter
        <5>2. stdout'[i] = stdout[i + 1] /\ i + 1 \in 1 .. Len(stdout)
          BY <4>1
        <5>3. PICK m \in Int : m = i + 1
          OBVIOUS
        <5>4. Fits(m, stdout'[i]) /\ m > Echoes /\ m = m - Echoes
          <6>1. Fits(i + 1, stdout'[i])
            BY <1>2, <5>2, Zenon DEF Flowing, LinesFit
          <6> QED
            BY <1>4, <5>3, <6>1
        <5>5. FlowsAt(m, stdout'[i])
          BY <5>4, FitsLater
        <5> DEFINE line == stdout'[i]   rest == Tail(client.left)
        <5>6. line.tag # "prompt" => i <= Len(rest) /\ rest[i] = client.left[m]
          <6>1. line.tag # "prompt" => i <= Len(rest)
            BY <2>3, <5>3, <5>5 DEF FlowsAt
          <6>2. i <= Len(rest) => i \in 1 .. Len(rest)
            BY <2>3
          <6> QED
            BY <2>3, <5>3, <6>1, <6>2
        <5>7. FlowsAfter(i, line)
          <6>1. "flow" # "prompt"
            OBVIOUS
          <6> HIDE DEF line, rest
          <6>2. line.tag = "flow" => line.address = rest[i] /\ line.kind = decode[rest[i]]
            BY <5>5, <5>6, <6>1, Zenon DEF FlowsAt, line
          <6> QED
            BY <5>5, <5>6, <6>2, Zenon DEF FlowsAt, FlowsAfter, line, rest
        <5>8. ~(i <= Echoes') /\ i - Echoes' = i
          BY <2>9
        <5> QED
          BY <5>7, <5>8
      <4>3. ToCome => ToCome'
        <5>1. SUFFICES ASSUME ToCome, console.todo # <<>>
                       PROVE  /\ Len(stdout') + Len(console.todo) = Len(Tail(client.left))
                              /\ \A j \in 1 .. Len(console.todo) :
                                   console.todo[j] = Tail(client.left)[Len(stdout') + j]
          <6>1. Len(stdout') - Echoes' = Len(stdout')
            BY <1>3, <2>9, <4>1
          <6> QED
            BY <1>1, <2>7, <6>1, Zenon DEF ToCome
        <5> DEFINE todo == console.todo   n == Len(stdout)   t == Len(todo)   l == Len(client.left)
                   rest == Tail(client.left)
        <5>2. /\ n - Echoes + t = l
              /\ \A j \in 1 .. t : todo[j] = client.left[n - Echoes + j]
          BY <5>1, Zenon DEF ToCome
        <5>3. /\ n \in Nat /\ n >= 1 /\ t \in Nat /\ l \in Nat /\ Len(rest) = l - 1
              /\ Len(stdout') = n - 1 /\ n - Echoes = n
              /\ \A i \in 1 .. Len(rest) : rest[i] = client.left[i + 1]
          <6>1. todo \in Seq(Numbers)
            BY <1>2 DEF TypeOK, Consoles
          <6> QED
            BY <1>3, <1>4, <2>3, <4>1, <6>1, LenProperties
        <5> HIDE DEF todo, n, t, l, rest
        <5>4. Len(stdout') + t = Len(rest)
          BY <5>2, <5>3
        <5>5. ASSUME NEW j \in 1 .. t
              PROVE  todo[j] = rest[Len(stdout') + j]
          <6>1. todo[j] = client.left[n + j]
            BY <5>2, <5>3
          <6>2. PICK i \in 1 .. Len(rest) : i = Len(stdout') + j /\ i + 1 = n + j
            <7> DEFINE r == Len(rest)
            <7>1. r \in Int /\ n - 1 + t = r /\ Len(stdout') + j = n - 1 + j
              BY <5>3, <5>4
            <7> HIDE DEF r
            <7>2. n - 1 + j \in 1 .. r /\ n - 1 + j + 1 = n + j
              BY <5>3, <7>1
            <7> QED
              BY <7>1, <7>2 DEF r
          <6>3. rest[i] = client.left[n + j]
            BY <5>3, <6>2
          <6> QED
            BY <6>1, <6>2, <6>3
        <5> QED
          BY <5>4, <5>5 DEF todo, t, rest
      <4>4. Len(stdout') >= Echoes'
        BY <1>3, <2>9, <4>1
      <4>5. ASSUME ~Exited'
            PROVE  \/ /\ console'.at = "working" /\ stdin' = <<>> /\ Unprompted'
                      /\ console'.command = "flow" /\ Len(stdout') >= Echoes' /\ ToCome'
                   \/ /\ console'.at = "waiting" /\ stdin' = <<>> /\ Prompted'
        <5>1. client.at # "echo"
          BY <1>1
        <5> QED
          BY <1>1, <1>2, <4>1, <4>3, <4>4, <4>5, <5>1, Zenon DEF Flowing, Exited
      <4> QED
        BY <2>9, <2>10, <4>1, <4>2, <4>5, Zenon DEF Flowing
    <3> QED
      BY <3>1, <3>2
  <2>12. TypeOK'
    BY <1>1, <1>2, <2>7, <2>11, ReadTypes, Zenon
  <2>13. client'.at \in {"echo", "lines"}
    BY <2>7
  <2> QED
    BY <2>8, <2>11, <2>12, <2>13, Zenon DEF SessionInv, Place
<1> QED
  BY <1>5, <1>6

LEMMA PromptStep ==
  ASSUME SessionInv, FlowPrompt
  PROVE  SessionInv' /\ OracleStep
<1>1. /\ client.at = "lines" /\ client.left = <<>> /\ (stdout # <<>> \/ Exited)
      /\ IF EndOfOutput THEN Fails /\ UNCHANGED stdout
         ELSE /\ IF client.op = "refused" THEN Fails
                 ELSE client' = Idle /\ heard' = client.results
              /\ stdout' = IF Head(stdout) = Prompt THEN Tail(stdout)
                           ELSE <<RefusedLine>> \o Tail(stdout)
      /\ UNCHANGED <<decode, console, stdin, session, images, next>>
  BY Zenon DEF FlowPrompt
<1>2. TypeOK /\ Flowing
  <2>1. "lines" # "idle" /\ "lines" # "until" /\ "lines" # "drain" /\ "lines" # "quitting"
    OBVIOUS
  <2> QED
    BY <1>1, <2>1, Zenon DEF SessionInv, Place
<1>3. stdout \in Seq(Lines) /\ Len(stdout) \in Nat /\ client \in Clients
  BY <1>2, LenProperties DEF TypeOK
<1>4. Echoes = 0
  BY <1>1 DEF Echoes
<1>5. CASE EndOfOutput
  <2>1. stdout' = <<>> /\ Exited /\ Fails
    BY <1>1, <1>5 DEF EndOfOutput
  <2> QED
    BY <1>1, <2>1, FailsRests DEF Exited
<1>6. CASE ~EndOfOutput
  <2>1. stdout # <<>>
    BY <1>1, <1>6 DEF EndOfOutput
  <2>2. 1 \in 1 .. Len(stdout)
    BY <1>3, <2>1, EmptySeq
  \* No address is left, so that what stands there is the prompt.
  <2>3. stdout[1].tag = "prompt"
    <3>1. Fits(1, stdout[1])
      BY <1>2, <2>2, Zenon DEF Flowing, LinesFit
    <3>2. FlowsAt(1, stdout[1])
      BY <1>4, <3>1, FitsLater
    <3>3. Len(client.left) = 0
      BY <1>1
    <3> QED
      BY <3>2, <3>3 DEF FlowsAt
  <2>4. Len(stdout) = 1 /\ stdout[1] = Prompt
    BY <1>2, <2>2, <2>3, Zenon DEF Flowing, PromptLast
  <2>5. Head(stdout) = stdout[1] /\ Tail(stdout) = <<>>
    BY <1>3, <2>4, OneElement
  <2>6. stdout' = <<>> /\ client' = Idle
    BY <1>1, <1>6, <2>4, <2>5, Zenon DEF Fails
  <2>7. ~Unprompted
    BY <2>2, <2>3, Zenon DEF Unprompted
  <2>8. /\ console.at \in {"none", "waiting", "exited"} /\ console.at # "none"
        /\ console.at # "exited" => stdin = <<>>
    BY <1>2, <2>1, <2>7 DEF Flowing, Exited
  <2>9. Place'
    <3>1. NotHeld'
      BY <1>1, <1>2, Zenon DEF Flowing, NotHeld
    <3> QED
      BY <1>1, <2>6, <2>8, <3>1, Rests, Zenon
  <2>10. TypeOK'
    BY <1>1, <1>2, <2>6, NothingLeft, IdleClient, ReadTypes, Zenon
  <2>14. client.op \in FlowRequests
    BY <1>2 DEF Flowing, Flows, FlowRequests
  <2>11. CASE client.op = "refused"
    <3>1. Fails
      BY <1>1, <1>6, <2>11, Zenon
    <3> QED
      BY <1>1, <2>6, <2>8, <3>1, FailsRests DEF Exited
  <2>12. CASE client.op # "refused"
    <3>0. heard' = client.results
      BY <1>1, <1>6, <2>12, Zenon
    <3>1. client.asked \in Seq(Addresses) /\ client.results \in Seq(Heard)
      BY <1>3 DEF Clients
    <3>2. /\ client.asked # <<>> /\ Len(client.results) + Len(client.left) = Len(client.asked)
          /\ \A j \in 1 .. Len(client.results) :
               /\ client.results[j].address = client.asked[j]
               /\ client.results[j].kind \in {decode[client.asked[j]], "bad"}
      BY <1>2, Zenon DEF Flowing, HeardSoFar, Matches
    <3>3. Len(client.left) = 0 /\ Len(client.results) \in Nat /\ Len(client.asked) \in Nat
          /\ DOMAIN client.asked = 1 .. Len(client.asked)
          /\ DOMAIN client.results = 1 .. Len(client.results)
      BY <1>1, <3>1, LenProperties
    <3>4. Len(client.results) = Len(client.asked)
      BY <3>2, <3>3
    <3>5. client.asked # <<>> /\ DOMAIN heard' = DOMAIN client.asked
          /\ \A i \in DOMAIN client.asked :
               /\ heard'[i].address = client.asked[i]
               /\ heard'[i].kind \in {decode[client.asked[i]], "bad"}
      BY <3>0, <3>2, <3>3, <3>4, Zenon
    <3>6. OracleStep
      BY <1>1, <2>6, <2>14, <3>5, Answers, Zenon
    <3> QED
      BY <2>9, <2>10, <3>6, Zenon DEF SessionInv
  <2> QED
    BY <2>11, <2>12
<1> QED
  BY <1>5, <1>6

\* What is removed was the request's own image.
LEMMA ImageRemoved ==
  ASSUME Held
  PROVE  images \ {next - 1} = Leftover
BY DEF Held

LEMMA UntilStep ==
  ASSUME SessionInv, UntilPrompt
  PROVE  SessionInv' /\ OracleStep
<1>1. /\ client.at = "until"
      /\ (PromptAt # 0 /\ client.op # "twoPrompts") \/ (PromptAt = 0 /\ Exited)
      /\ stdout' = IF PromptAt = 0 THEN <<>> ELSE SubSeq(stdout, PromptAt + 1, Len(stdout))
      /\ client' = Idle
      /\ images' = IF client.op = "load" THEN images \ {next - 1} ELSE images
      /\ UNCHANGED <<decode, console, stdin, next, heard>>
  BY Zenon DEF UntilPrompt
<1>2. session' = CASE client.op = "new" -> IF PromptAt # 0 /\ Accepted THEN "spawned" ELSE "broken"
                   [] client.op \in Loading -> IF PromptAt # 0 /\ Accepted THEN "loaded" ELSE "broken"
                   [] OTHER -> session
  BY Zenon DEF UntilPrompt
<1>3. TypeOK /\ (Until \/ Adjusting) /\ (PromptAt # 0 => Until)
  <2>1. "until" # "idle" /\ "until" # "echo" /\ "until" # "lines" /\ "until" # "drain"
        /\ "until" # "quitting"
    OBVIOUS
  <2>2. TypeOK /\ (Until \/ Adjusting)
    BY <1>1, <2>1, Zenon DEF SessionInv, Place
  <2> QED
    BY <1>1, <2>2, Zenon DEF Adjusting
<1>4. stdout \in Seq(Lines) /\ Len(stdout) \in Nat
  BY <1>3, LenProperties DEF TypeOK
<1>5. session' \in {"none", "spawned", "loaded", "broken"}
  <2> DEFINE accepted == PromptAt # 0 /\ Accepted
  <2>1. session' = CASE client.op = "new" -> IF accepted THEN "spawned" ELSE "broken"
                     [] client.op \in Loading -> IF accepted THEN "loaded" ELSE "broken"
                     [] OTHER -> session
    BY <1>2, Zenon
  <2> HIDE DEF accepted
  <2> QED
    BY <1>3, <2>1 DEF TypeOK
<1>6. /\ PromptAt = 0 => Unprompted
      /\ PromptAt # 0 => PromptAt \in 1 .. Len(stdout) /\ stdout[PromptAt].tag = "prompt"
  BY <1>4, Prompts
<1>7. stdout' = <<>>
  <2>1. CASE PromptAt = 0
    BY <1>1, <2>1
  <2>2. CASE PromptAt # 0
    <3>1. PromptAt = Len(stdout)
      BY <1>3, <1>6, <2>2, Zenon DEF Until, PromptLast
    <3> DEFINE n == Len(stdout)
    <3>2. stdout' = SubSeq(stdout, n + 1, n)
      BY <1>1, <2>2, <3>1
    <3> HIDE DEF n
    <3>3. n \in Int /\ n + 1 \in Int /\ n < n + 1
      BY <1>4 DEF n
    <3> QED
      BY <3>2, <3>3, SubSeqEmpty
  <2> QED
    BY <2>1, <2>2
<1>8. NotHeld'
  <2>1. CASE client.op = "load"
    <3>1. ~Adjusting
      BY <2>1 DEF Adjusting
    <3> QED
      BY <1>1, <1>3, <2>1, <3>1, ImageRemoved, Zenon DEF Until, NotHeld
  <2>2. CASE client.op # "load"
    BY <1>1, <1>3, <2>2, Zenon DEF Until, Adjusting, NotHeld
  <2> QED
    BY <2>1, <2>2
<1>9. /\ console.at \in {"none", "waiting", "exited"} /\ console.at # "none"
      /\ console.at # "exited" => stdin = <<>>
  <2>1. CASE Exited
    BY <2>1 DEF Exited
  <2>2. CASE ~Exited
    <3>1. PromptAt \in 1 .. Len(stdout) /\ stdout[PromptAt].tag = "prompt" /\ Until
      BY <1>1, <1>3, <1>6, <2>2
    <3>2. ~Unprompted
      BY <3>1, Zenon DEF Unprompted
    <3>3. stdout # <<>>
      BY <3>1
    <3> QED
      BY <2>2, <3>1, <3>2, <3>3 DEF Until, Exited
  <2> QED
    BY <2>1, <2>2
<1>10. Place'
  BY <1>1, <1>7, <1>8, <1>9, Rests, Zenon
<1>11. TypeOK'
  BY <1>1, <1>3, <1>5, <1>7, NothingLeft, IdleClient DEF TypeOK
<1>12. OracleStep
  <2>1. Asked = <<>>
    BY <1>3 DEF Until, Adjusting, Asked, Answered, FlowRequests
  <2>2. Asked' = <<>>
    BY <1>1, IdleAsks
  <2> QED
    BY <1>1, <2>1, <2>2, Zenon DEF OracleStep, Abstracted
<1> QED
  BY <1>10, <1>11, <1>12, Zenon DEF SessionInv

\* What follows the k-th element.
LEMMA Following ==
  ASSUME NEW S, NEW s \in Seq(S), NEW k \in 1 .. Len(s), NEW t, t = SubSeq(s, k + 1, Len(s))
  PROVE  /\ t \in Seq(S) /\ Len(t) = Len(s) - k
         /\ \A i \in 1 .. Len(t) : t[i] = s[k + i] /\ k + i \in 1 .. Len(s)
<1> DEFINE n == Len(s)
<1>1. n \in Nat /\ k \in 1 .. n /\ \A i \in k + 1 .. n : s[i] \in S
  BY LenProperties
<1>2. t = SubSeq(s, k + 1, n)
  OBVIOUS
<1> HIDE DEF n
<1>3. k + 1 \in Int /\ n \in Int
  BY <1>1
<1>4. /\ t \in Seq(S) /\ Len(t) = IF k + 1 <= n THEN n - (k + 1) + 1 ELSE 0
      /\ \A i \in 1 .. n - (k + 1) + 1 : t[i] = s[k + 1 + i - 1]
  BY <1>1, <1>2, <1>3, SubSeqProperties
<1>5. Len(t) = n - k
  BY <1>1, <1>4
<1>6. ASSUME NEW i \in 1 .. Len(t)
      PROVE  t[i] = s[k + i] /\ k + i \in 1 .. n
  <2>1. i \in 1 .. n - (k + 1) + 1 /\ k + 1 + i - 1 = k + i /\ k + i \in 1 .. n
    BY <1>1, <1>5
  <2>2. t[i] = s[k + 1 + i - 1]
    BY <1>4, <2>1
  <2> QED
    BY <2>1, <2>2
<1> QED
  BY <1>4, <1>5, <1>6 DEF n

LEMMA FirstPromptStep ==
  ASSUME SessionInv, UntilFirstPrompt
  PROVE  SessionInv' /\ OracleStep
<1>1. /\ client.at = "until" /\ client.op = "twoPrompts" /\ PromptAt # 0
      /\ stdout' = SubSeq(stdout, PromptAt + 1, Len(stdout))
      /\ client' = [client EXCEPT !.op = "adjust"]
      /\ UNCHANGED <<decode, console, stdin, session, images, next, heard>>
  BY Zenon DEF UntilFirstPrompt
<1>2. TypeOK /\ Adjusting
  <2>1. "until" # "idle" /\ "until" # "echo" /\ "until" # "lines" /\ "until" # "drain"
        /\ "until" # "quitting"
    OBVIOUS
  <2>2. ~Until
    BY <1>1 DEF Until, Answered
  <2> QED
    BY <1>1, <2>1, <2>2, Zenon DEF SessionInv, Place
<1>3. stdout \in Seq(Lines) /\ Len(stdout) \in Nat /\ client \in Clients
  BY <1>2, LenProperties DEF TypeOK
<1>4. /\ PromptAt \in 1 .. Len(stdout) /\ stdout[PromptAt].tag = "prompt"
      /\ \A i \in 1 .. Len(stdout) : stdout[i].tag = "prompt" => PromptAt <= i
  BY <1>1, <1>3, Prompts
<1>5. PICK k \in 1 .. Len(stdout) : AfterPrompt(k)
  <2>1. ~Unprompted
    BY <1>4, Zenon DEF Unprompted
  <2> QED
    BY <1>2, <2>1 DEF Adjusting, BeforePrompt
<1>6. k = PromptAt
  BY <1>3, <1>4, <1>5 DEF AfterPrompt
<1>7. /\ stdout' \in Seq(Lines) /\ Len(stdout') = Len(stdout) - k
      /\ \A i \in 1 .. Len(stdout') : stdout'[i] = stdout[k + i] /\ k + i \in 1 .. Len(stdout)
  <2>1. stdout' = SubSeq(stdout, k + 1, Len(stdout))
    BY <1>1, <1>6
  <2>2. k \in 1 .. Len(stdout)
    OBVIOUS
  <2> QED
    BY <1>3, <2>1, <2>2, Following
<1>8. /\ client' \in Clients /\ client'.at = "until" /\ client'.op = "adjust"
  BY <1>1, <1>3 DEF Clients
<1>9. PromptLast'
  <2>1. SUFFICES ASSUME NEW i \in 1 .. Len(stdout'), stdout'[i].tag = "prompt"
                 PROVE  i = Len(stdout') /\ stdout'[i] = Prompt
    BY Zenon DEF PromptLast, Prompt, Line
  <2>2. stdout'[i] = stdout[k + i] /\ k + i \in 1 .. Len(stdout) /\ k + i # k
    BY <1>7
  <2>3. k + i = Len(stdout) /\ stdout[k + i] = Prompt
    BY <1>5, <2>1, <2>2 DEF AfterPrompt
  <2> HIDE DEF Prompt
  <2>4. i = Len(stdout) - k
    BY <1>3, <2>3
  <2> QED
    BY <1>7, <2>2, <2>3, <2>4
<1>10. ASSUME ~Exited
       PROVE  \/ /\ console.at = "waiting" /\ stdout' = <<>>
                 /\ Len(stdin) = 1 /\ stdin[1].name = "adjust"
              \/ /\ console.at = "working" /\ stdin = <<>> /\ Unprompted'
                 /\ console.command = "adjust"
              \/ /\ console.at = "waiting" /\ stdin = <<>> /\ Prompted'
  <2>1. CASE console.at = "waiting" /\ Len(stdout) = k /\ Len(stdin) = 1 /\ stdin[1].name = "adjust"
    <3>1. Len(stdout') = 0
      BY <1>7, <2>1
    <3> QED
      BY <1>7, <2>1, <3>1, EmptySeq
  <2>2. CASE /\ console.at = "working" /\ console.command = "adjust" /\ stdin = <<>>
             /\ \A i \in 1 .. Len(stdout) : stdout[i].tag = "prompt" => i = k
    <3>1. \A i \in 1 .. Len(stdout') : k + i # k
      BY <1>7
    <3> QED
      BY <1>7, <2>2, <3>1, Zenon DEF Unprompted
  <2>3. CASE /\ console.at = "waiting" /\ stdin = <<>> /\ Len(stdout) > k
             /\ stdout[Len(stdout)].tag = "prompt"
    <3>1. Len(stdout') \in 1 .. Len(stdout') /\ k + Len(stdout') = Len(stdout)
      BY <1>3, <1>7, <2>3
    <3>2. stdout'[Len(stdout')] = stdout[Len(stdout)]
      BY <1>7, <3>1
    <3>3. stdout' # <<>>
      BY <3>1
    <3> QED
      BY <2>3, <3>2, <3>3 DEF Prompted
  <2> QED
    BY <1>5, <1>10, <2>1, <2>2, <2>3 DEF AfterPrompt
<1>11. Until'
  <2>1. /\ client'.op \in Answered /\ client'.op # "load" /\ console'.at # "none" /\ NotHeld'
    BY <1>1, <1>2, <1>8 DEF Answered, Adjusting, NotHeld
  <2>2. console' = console /\ stdin' = stdin
    BY <1>1
  <2> QED
    BY <1>8, <1>9, <1>10, <2>1, <2>2, Zenon DEF Until, Exited
<1>12. TypeOK'
  BY <1>1, <1>2, <1>7, <1>8, ReadTypes, Zenon
<1>13. OracleStep
  <2>1. Asked = <<>> /\ Asked' = <<>>
    BY <1>1, <1>8 DEF Asked, FlowRequests
  <2> QED
    BY <1>1, <2>1, Zenon DEF OracleStep, Abstracted
<1> QED
  BY <1>8, <1>11, <1>12, <1>13, Zenon DEF SessionInv, Place

LEMMA FirstFlow ==
  ASSUME stdout \in Seq(Lines)
  PROVE  LET at == SelectInSeq(stdout, LAMBDA l : l.tag = "flow")
         IN  at = 0 \/ (at \in 1 .. Len(stdout) /\ stdout[at].tag = "flow")
<1> DEFINE I == {i \in 1 .. Len(stdout) : stdout[i].tag = "flow"}
           at == SelectInSeq(stdout, LAMBDA l : l.tag = "flow")
<1>1. at = IF I # {} THEN Min(I) ELSE 0
  BY Zenon DEF SelectInSeq
<1>2. I \subseteq Nat
  OBVIOUS
<1>3. I # {} => Min(I) \in I
  BY <1>2, LeastOf
<1> HIDE DEF at
<1>4. at = 0 \/ (at \in 1 .. Len(stdout) /\ stdout[at].tag = "flow")
  BY <1>1, <1>3
<1> QED
  BY <1>4 DEF at

LEMMA DrainedStep ==
  ASSUME SessionInv, Drained
  PROVE  SessionInv' /\ OracleStep
<1> DEFINE at == SelectInSeq(stdout, LAMBDA l : l.tag = "flow")
<1>1. /\ client.at = "drain" /\ client' = Idle
      /\ images' = IF client.op = "once" THEN images \ {next - 1} ELSE images
      /\ heard' = IF at = 0 THEN <<>> ELSE <<ParseFlowOutput(stdout[at], Head(client.asked))>>
      /\ console' = NoConsole /\ stdin' = <<>> /\ stdout' = <<>>
      /\ UNCHANGED <<decode, session, next>>
  BY Zenon DEF Drained
<1>2. TypeOK /\ Draining
  <2>1. "drain" # "idle" /\ "drain" # "echo" /\ "drain" # "lines" /\ "drain" # "until"
        /\ "drain" # "quitting"
    OBVIOUS
  <2> QED
    BY <1>1, <2>1, Zenon DEF SessionInv, Place
<1>3. stdout \in Seq(Lines) /\ client.asked \in Seq(Addresses)
  BY <1>2 DEF TypeOK, Clients
<1>4. at = 0 \/ (at \in 1 .. Len(stdout) /\ stdout[at].tag = "flow")
  BY <1>3, FirstFlow, Zenon
<1> HIDE DEF at
<1>5. NotHeld'
  BY <1>1, <1>2, ImageRemoved, Zenon DEF Draining, NotHeld
<1>6. console'.at = "none" /\ session' = "none"
  BY <1>1, <1>2, NoConsoleTypes, Zenon DEF Draining
<1>7. Place'
  <2>1. "none" \in {"none", "waiting", "exited"}
    OBVIOUS
  <2> QED
    BY <1>1, <1>5, <1>6, <2>1, Rests, Zenon
<1>8. TypeOK'
  BY <1>1, <1>2, <1>6, NoConsoleTypes, IdleClient, Zenon DEF TypeOK
<1>9. client.op \in FlowRequests /\ client.asked # <<>> /\ DOMAIN client.asked = {1}
  <2>1. Len(client.asked) = 1 /\ client.op \in FlowRequests
    BY <1>2 DEF Draining, FlowRequests
  <2>2. 1 .. 1 = {1} /\ Len(<<>>) = 0
    OBVIOUS
  <2>3. DOMAIN client.asked = 1 .. Len(client.asked)
    BY <1>3, LenProperties
  <2>5. Len(client.asked) = 1
    BY <2>1, Zenon
  <2>4. client.asked # <<>>
    BY <2>5
  <2> QED
    BY <2>1, <2>2, <2>3, <2>4, Zenon
<1>10. \/ heard' = <<>>
       \/ /\ DOMAIN heard' = DOMAIN client.asked
          /\ \A i \in DOMAIN client.asked :
               /\ heard'[i].address = client.asked[i]
               /\ heard'[i].kind \in {decode[client.asked[i]], "bad"}
  <2>1. CASE at # 0
    <3> DEFINE line == stdout[at]   said == ParseFlowOutput(line, Head(client.asked))
    <3>1. /\ line.address = client.asked[1] /\ line.kind = decode[client.asked[1]]
          /\ line.tag = "flow"
      BY <1>2, <1>4, <2>1, Zenon DEF Draining
    <3>2. said = [address |-> line.address, kind |-> line.kind]
      BY <3>1 DEF ParseFlowOutput
    <3> HIDE DEF line
    <3>3. said.address = client.asked[1] /\ said.kind = decode[client.asked[1]]
      BY <3>1, <3>2
    <3>4. heard' = <<said>>
      BY <1>1, <2>1, Zenon DEF line
    <3> HIDE DEF said
    <3>5. DOMAIN heard' = {1} /\ heard'[1] = said
      BY <3>4
    <3> QED
      BY <1>9, <3>3, <3>5, Zenon
  <2> QED
    BY <1>1, <2>1
<1>11. OracleStep
  BY <1>1, <1>9, <1>10, Answers, Zenon
<1> QED
  BY <1>7, <1>8, <1>11, Zenon DEF SessionInv

\* The session ends, by itself or because it is dropped.
LEMMA GoneStep ==
  ASSUME SessionInv, Drop \/ QuitEnds
  PROVE  SessionInv' /\ OracleStep
<1>1. /\ console' = NoConsole /\ stdin' = <<>> /\ stdout' = <<>>
      /\ client' = Idle /\ session' = "none"
      /\ UNCHANGED <<decode, images, next, heard>>
      /\ client.at \in {"idle", "quitting"}
  BY DEF Drop, QuitEnds, Gone
<1>2. TypeOK /\ NotHeld /\ client.op \in {"none", "quit"}
  BY <1>1, IdleClient DEF SessionInv, Place, Resting, Quitting
<1>3. NotHeld'
  BY <1>1, <1>2, Zenon DEF NotHeld
<1>4. Place'
  <2>1. "none" \in {"none", "waiting", "exited"}
    OBVIOUS
  <2> QED
    BY <1>1, <1>3, <2>1, NoConsoleTypes, Rests, Zenon
<1>5. TypeOK'
  BY <1>1, <1>2, NoConsoleTypes, IdleClient DEF TypeOK
<1>6. Asked = <<>> /\ Asked' = <<>>
  BY <1>1, <1>2, IdleAsks DEF Asked, FlowRequests
<1> QED
  BY <1>1, <1>4, <1>5, <1>6, Zenon DEF SessionInv, OracleStep, Abstracted
-----------------------------------------------------------------------------
(* The requests.                                                           *)

LEMMA AtRest ==
  ASSUME SessionInv, client.at = "idle"
  PROVE  /\ TypeOK /\ Resting /\ Asked = <<>> /\ client.op = "none"
         /\ session # "none" => console.at \in {"waiting", "exited"}
<1>1. TypeOK /\ Resting
  <2>1. "until" # "idle" /\ "idle" # "echo" /\ "idle" # "lines" /\ "drain" # "idle"
        /\ "idle" # "quitting"
    OBVIOUS
  <2> QED
    BY <2>1, Zenon DEF SessionInv, Place
<1>2. client.op = "none"
  BY <1>1, IdleClient, Zenon DEF Resting
<1> QED
  BY <1>1, <1>2 DEF Asked, Resting, FlowRequests

\* One command is sent to a console that waits, or to one that has gone.
LEMMA OneCommand ==
  ASSUME NEW command \in Commands, TypeOK, Resting, stdin' = Append(stdin, command)
  PROVE  /\ stdin' \in Seq(Commands)
         /\ ~Exited => Len(stdin') = 1 /\ stdin'[1] = command
<1>1. /\ stdin \in Seq(Commands) /\ stdin' \in Seq(Commands)
      /\ Len(stdin') = Len(stdin) + 1 /\ stdin'[Len(stdin) + 1] = command
  BY AppendProperties DEF TypeOK
<1>2. ~Exited => Len(stdin) = 0
  BY DEF Resting
<1> QED
  BY <1>1, <1>2

LEMMA CommandTypes ==
  ASSUME NEW name \in Names, NEW arguments \in Seq(Numbers)
  PROVE  /\ Command(name, arguments) \in Commands
         /\ Command(name, arguments).name = name
         /\ Command(name, arguments).arguments = arguments
BY DEF Command, Commands

LEMMA Sending ==
  ASSUME NEW op \in Sent,
         NEW command, Send(op, command, "until")
  PROVE  /\ client' \in Clients /\ client'.at = "until" /\ client'.op = op
         /\ stdin' = Append(stdin, command) /\ UNCHANGED <<console, stdout>>
<1>1. <<>> \in Seq(Heard) /\ <<>> \in Seq(Addresses)
  BY EmptySeq
<1>2. client' = [Idle EXCEPT !.at = "until", !.op = op]
  BY Zenon DEF Send
<1>3. client' \in Clients /\ client'.at = "until" /\ client'.op = op
  BY <1>1, <1>2 DEF Idle, Clients, Sent
<1> QED
  BY <1>3, Zenon DEF Send

LEMMA OneArgument ==
  ASSUME NEW x \in Numbers
  PROVE  <<x>> \in Seq(Numbers)
OBVIOUS

\* A command whose response is read up to its prompt.
LEMMA Sends ==
  ASSUME SessionInv, client.at = "idle", session # "none",
         NEW op \in Sent,
         NEW arguments \in Seq(Numbers), stdin' = Append(stdin, Command(op, arguments)),
         client' \in Clients, client'.at = "until", client'.op = op,
         UNCHANGED <<decode, console, stdout, heard>>,
         session' = session, next' \in Nat,
         IF op = "load" THEN Held' /\ arguments = <<next' - 1>> ELSE NotHeld'
  PROVE  SessionInv' /\ OracleStep
<1>1. /\ TypeOK /\ Resting /\ Asked = <<>> /\ console.at \in {"waiting", "exited"}
  BY AtRest
<1>2. stdout = <<>> /\ stdout' = <<>>
  BY <1>1 DEF Resting
<1> DEFINE command == Command(op, arguments)
<1>3. command \in Commands /\ command.name = op /\ command.arguments = arguments
  <2>1. op \in Names
    BY DEF Names, Sent
  <2> QED
    BY <2>1, CommandTypes, Zenon
<1> HIDE DEF command
<1>4. stdin' = Append(stdin, command)
  BY DEF command
<1>5. stdin' \in Seq(Commands) /\ (~Exited => Len(stdin') = 1 /\ stdin'[1] = command)
  BY <1>1, <1>3, <1>4, OneCommand, Zenon
<1>6. client' \in Clients /\ client'.at = "until" /\ client'.op = op
  OBVIOUS
<1>7. TypeOK'
  BY <1>1, <1>2, <1>5, <1>6, NothingLeft DEF TypeOK
<1>8. Until'
  <2>1. client'.op \in Answered
        /\ (IF client.op = "load" THEN Held ELSE NotHeld)'
    BY <1>6 DEF Answered, Sent
  <2>2. console'.at # "none" /\ PromptLast' /\ console' = console
    BY <1>1, <1>2, NothingLeft
  <2>3. ASSUME ~Exited'
        PROVE  /\ console'.at = "waiting" /\ stdout' = <<>>
               /\ Len(stdin') = 1 /\ stdin'[1].name = client'.op
               /\ client'.op = "load" => stdin'[1].arguments = <<next' - 1>>
    <3>1. ~Exited /\ console'.at = "waiting"
      BY <1>1, <2>2, <2>3 DEF Exited
    <3>2. Len(stdin') = 1 /\ stdin'[1] = command
      BY <1>5, <3>1
    <3>3. op = "load" => command.arguments = <<next' - 1>>
      BY <1>3, Zenon
    <3> QED
      BY <1>2, <1>3, <1>6, <3>1, <3>2, <3>3, Zenon
  <2> QED
    BY <2>1, <2>2, <2>3, Zenon DEF Until
<1>9. OracleStep
  <2>1. Asked' = <<>>
    BY <1>6 DEF Asked, Sent, FlowRequests
  <2> QED
    BY <1>1, <2>1, Zenon DEF OracleStep, Abstracted
<1> QED
  BY <1>6, <1>7, <1>8, <1>9, Zenon DEF SessionInv, Place

\* The next image of a request, and none.
LEMMA Creates ==
  ASSUME TypeOK, NotHeld
  PROVE  /\ Create(TRUE) => Held' /\ next' = next + 1 /\ next' - 1 = next /\ next' \in Nat
         /\ Create(FALSE) => NotHeld' /\ next' = next + 1 /\ next' \in Nat
<1>1. next \in Nat /\ images = Leftover
  BY DEF TypeOK, NotHeld
<1>2. ASSUME Create(TRUE)
      PROVE  Held' /\ next' = next + 1 /\ next' - 1 = next /\ next' \in Nat
  <2>1. next' = next + 1 /\ next \notin images /\ images' = images \union {next}
    BY <1>2 DEF Create
  <2>2. next' - 1 = next
    BY <1>1, <2>1
  <2> QED
    BY <1>1, <2>1, <2>2 DEF Held
<1>3. ASSUME Create(FALSE)
      PROVE  NotHeld' /\ next' = next + 1 /\ next' \in Nat
  BY <1>1, <1>3 DEF Create, NotHeld
<1> QED
  BY <1>2, <1>3

\* A request that fails before it is made leaves everything at rest.
LEMMA NotMade ==
  ASSUME SessionInv, client.at = "idle", NotHeld', next' \in Nat,
         session' = session \/ (session # "none" /\ session' = "broken"),
         UNCHANGED <<decode, console, stdin, stdout, client, heard>>
  PROVE  SessionInv' /\ OracleStep
<1>1. TypeOK /\ Resting /\ Asked = <<>> /\ (session # "none" => console.at # "none")
  BY AtRest
<1>2. TypeOK'
  BY <1>1 DEF TypeOK
<1>3. Resting'
  BY <1>1 DEF Resting, Exited
<1>4. Asked' = Asked
  BY Zenon DEF Asked
<1> QED
  BY <1>2, <1>3, <1>4, Zenon DEF SessionInv, Place, OracleStep, Abstracted

LEMMA LoadStep ==
  ASSUME SessionInv, Load
  PROVE  SessionInv' /\ OracleStep
<1>1. client.at = "idle" /\ session = "spawned" /\ UNCHANGED <<decode, heard>>
  BY DEF Load, Asking
<1>2. TypeOK /\ NotHeld
  BY <1>1, AtRest DEF Resting
<1>3. CASE Create(TRUE) /\ Send("load", Command("load", <<next>>), "until") /\ UNCHANGED session
  <2>1. Held' /\ <<next>> = <<next' - 1>> /\ next' \in Nat /\ next \in Nat
    <3>1. Held' /\ next' - 1 = next /\ next' \in Nat
      BY <1>2, <1>3, Creates, Zenon
    <3> QED
      BY <1>2, <3>1, Zenon DEF TypeOK
  <2>2. <<next>> \in Seq(Numbers)
    BY <2>1, OneArgument DEF Numbers
  <2> DEFINE arguments == <<next>>   op == "load"
  <2>3. /\ client' \in Clients /\ client'.at = "until" /\ client'.op = op
        /\ stdin' = Append(stdin, Command(op, arguments)) /\ UNCHANGED <<console, stdout>>
    <3>1. op \in Sent
      BY DEF Sent
    <3> QED
      BY <1>3, <3>1, Sending
  <2>4. /\ arguments \in Seq(Numbers) /\ op \in Sent
        /\ IF op = "load" THEN Held' /\ arguments = <<next' - 1>> ELSE NotHeld'
    BY <2>1, <2>2 DEF Sent
  <2>5. session # "none" /\ session' = session
    BY <1>1, <1>3
  <2> HIDE DEF arguments, op
  <2> QED
    BY <1>1, <2>1, <2>3, <2>4, <2>5, Sends, Zenon
<1>4. CASE Create(FALSE) /\ session' = "broken" /\ UNCHANGED <<child, client>>
  BY <1>1, <1>2, <1>4, Creates, NotMade DEF child
<1> QED
  BY <1>3, <1>4, Zenon DEF Load

LEMMA LoadFileStep ==
  ASSUME SessionInv, LoadFile
  PROVE  SessionInv' /\ OracleStep
<1>1. /\ client.at = "idle" /\ session = "spawned"
      /\ UNCHANGED <<decode, images, next, heard>>
  BY DEF LoadFile, Asking
<1>2. /\ TypeOK /\ Resting /\ NotHeld /\ Asked = <<>> /\ console.at \in {"waiting", "exited"}
  BY <1>1, AtRest DEF Resting
<1>3. NotHeld' /\ next' \in Nat
  BY <1>1, <1>2 DEF NotHeld, TypeOK
<1>4. <<0>> \in Seq(Numbers)
  BY OneArgument DEF Numbers
<1>5. CASE Send("loadFile", Command("loadFile", <<0>>), "until") /\ UNCHANGED session
  <2> DEFINE arguments == <<0>>   op == "loadFile"
  <2>1. op \in Sent /\ arguments \in Seq(Numbers) /\ op # "load"
    BY <1>4 DEF Sent
  <2>2. Send(op, Command(op, arguments), "until") /\ session' = session /\ session # "none"
    BY <1>1, <1>5
  <2> HIDE DEF arguments, op
  <2>3. /\ client' \in Clients /\ client'.at = "until" /\ client'.op = op
        /\ stdin' = Append(stdin, Command(op, arguments)) /\ UNCHANGED <<console, stdout>>
    BY <2>1, <2>2, Sending
  <2> QED
    BY <1>1, <1>3, <2>1, <2>2, <2>3, Sends, Zenon
<1>6. CASE /\ stdin' = stdin \o <<Command("loadFile", <<0>>), Command("adjust", <<0>>)>>
           /\ client' = [Idle EXCEPT !.at = "until", !.op = "twoPrompts"]
           /\ UNCHANGED <<console, stdout, session>>
  <2> DEFINE first == Command("loadFile", <<0>>)   second == Command("adjust", <<0>>)
             both == <<first, second>>
  <2>1. /\ first \in Commands /\ first.name = "loadFile"
        /\ second \in Commands /\ second.name = "adjust"
    <3>1. "loadFile" \in Names /\ "adjust" \in Names
      BY DEF Names
    <3> QED
      BY <1>4, <3>1, CommandTypes
  <2> HIDE DEF first, second
  <2>2. both \in Seq(Commands) /\ Len(both) = 2 /\ both[1] = first /\ both[2] = second
    BY <2>1
  <2> HIDE DEF both
  <2>3. stdin' = stdin \o both /\ stdin \in Seq(Commands)
    BY <1>2, <1>6 DEF both, first, second, TypeOK
  <2>4. stdin' \in Seq(Commands)
    BY <2>2, <2>3, ConcatProperties
  <2>5. ASSUME ~Exited
        PROVE  Len(stdin') = 2 /\ stdin'[1] = first /\ stdin'[2] = second
    <3>1. stdin = <<>>
      BY <1>2, <2>5 DEF Resting
    <3>2. stdin' = both
      BY <2>2, <2>3, <3>1
    <3> QED
      BY <2>2, <3>2
  <2>6. client' \in Clients /\ client'.at = "until" /\ client'.op = "twoPrompts"
    <3>1. <<>> \in Seq(Heard) /\ <<>> \in Seq(Addresses)
      BY EmptySeq
    <3> QED
      BY <1>6, <3>1 DEF Idle, Clients
  <2>7. stdout' = <<>> /\ console' = console /\ session' = session
    BY <1>2, <1>6 DEF Resting
  <2>8. TypeOK'
    BY <1>1, <1>2, <2>4, <2>6, <2>7, NothingLeft DEF TypeOK
  <2>9. Adjusting'
    <3>1. BeforePrompt'
      BY <1>2, <2>1, <2>5, <2>7, NothingLeft DEF BeforePrompt, Exited
    <3>2. console'.at # "none"
      BY <1>2, <2>7
    <3> QED
      BY <1>3, <2>6, <3>1, <3>2 DEF Adjusting
  <2>10. Asked' = <<>>
    BY <2>6 DEF Asked, FlowRequests
  <2> QED
    BY <1>1, <1>2, <2>6, <2>8, <2>9, <2>10, Zenon DEF SessionInv, Place, OracleStep, Abstracted
<1>7. CASE session' = "broken" /\ UNCHANGED <<child, client>>
  BY <1>1, <1>3, <1>7, NotMade DEF child
<1> QED
  BY <1>5, <1>6, <1>7, Zenon DEF LoadFile

LEMMA LinkageStep ==
  ASSUME SessionInv, LinkageBatch
  PROVE  SessionInv' /\ OracleStep
<1>1. /\ client.at = "idle" /\ session = "loaded"
      /\ UNCHANGED <<decode, console, stdout, session, images, next, heard>>
  BY DEF LinkageBatch, Asking
<1>2. PICK asked \in Batches :
        /\ stdin' = Append(stdin, Command("linkage", asked))
        /\ client' = [Idle EXCEPT !.at = "until", !.op = "linkage", !.asked = asked]
  BY Zenon DEF LinkageBatch
<1>3. asked \in Seq(Addresses) /\ asked \in Seq(Numbers)
  BY ConsoleAssumption DEF Numbers
<1>4. TypeOK /\ NotHeld
  BY <1>1, AtRest DEF Resting
<1>5. NotHeld' /\ next' \in Nat /\ session # "none" /\ session' = session
  BY <1>1, <1>4 DEF NotHeld, TypeOK
<1>6. client' \in Clients /\ client'.at = "until" /\ client'.op = "linkage"
  <2>1. <<>> \in Seq(Heard) /\ <<>> \in Seq(Addresses)
    BY EmptySeq
  <2> QED
    BY <1>2, <1>3, <2>1 DEF Idle, Clients
<1> DEFINE op == "linkage"
<1>7. /\ op \in Sent
      /\ client'.op = op /\ stdin' = Append(stdin, Command(op, asked))
      /\ IF op = "load" THEN Held' /\ asked = <<next' - 1>> ELSE NotHeld'
  BY <1>2, <1>5, <1>6 DEF Sent
<1> HIDE DEF op
<1> QED
  BY <1>1, <1>3, <1>5, <1>6, <1>7, Sends, Zenon

LEMMA QueryStep ==
  ASSUME SessionInv, Query
  PROVE  SessionInv' /\ OracleStep
<1>1. /\ client.at = "idle" /\ session = "loaded"
      /\ UNCHANGED <<decode, session, images, next, heard>>
  BY DEF Query, Asking
<1>2. PICK op \in {"functionstarts", "constants"} : Send(op, Command(op, <<0>>), "until")
  BY Zenon DEF Query
<1>8. op \in Sent
  BY DEF Sent
<1> DEFINE arguments == <<0>>
<1>3. /\ client' \in Clients /\ client'.at = "until" /\ client'.op = op
      /\ stdin' = Append(stdin, Command(op, arguments)) /\ UNCHANGED <<console, stdout>>
  BY <1>2, <1>8, Sending
<1>4. arguments \in Seq(Numbers)
  <2>1. 0 \in Numbers
    BY DEF Numbers
  <2> QED
    BY <2>1, OneArgument
<1>5. TypeOK /\ NotHeld
  BY <1>1, AtRest DEF Resting
<1>6. NotHeld' /\ next' \in Nat /\ session # "none" /\ session' = session
  BY <1>1, <1>5 DEF NotHeld, TypeOK
<1> HIDE DEF arguments
<1>7. IF op = "load" THEN Held' /\ arguments = <<next' - 1>> ELSE NotHeld'
  BY <1>6
<1> QED
  BY <1>1, <1>3, <1>4, <1>6, <1>7, <1>8, Sends, Zenon

LEMMA NewStep ==
  ASSUME SessionInv, New
  PROVE  SessionInv' /\ OracleStep
<1>1. /\ client.at = "idle" /\ console' = [NoConsole EXCEPT !.at = "starting"]
      /\ stdin' = <<>> /\ stdout' = <<>>
      /\ client' = [Idle EXCEPT !.at = "until", !.op = "new"]
      /\ UNCHANGED <<decode, session, images, next, heard>>
  BY Zenon DEF New, Asking, Spawn
<1>2. TypeOK /\ NotHeld /\ Asked = <<>>
  BY <1>1, AtRest DEF Resting
<1>3. console' \in Consoles /\ console'.at = "starting"
  BY <1>1, NoConsoleTypes DEF NoConsole, Consoles
<1>4. client' \in Clients /\ client'.at = "until" /\ client'.op = "new"
  <2>1. <<>> \in Seq(Heard) /\ <<>> \in Seq(Addresses)
    BY EmptySeq
  <2> QED
    BY <1>1, <2>1 DEF Idle, Clients
<1>5. TypeOK'
  BY <1>1, <1>2, <1>3, <1>4, NoConsoleTypes DEF TypeOK
<1>6. NotHeld'
  BY <1>1, <1>2 DEF NotHeld
<1>7. Until'
  <2>1. client'.op \in Answered
        /\ (IF client.op = "load" THEN Held ELSE NotHeld)' /\ console'.at # "none"
    BY <1>3, <1>4, <1>6 DEF Answered
  <2> QED
    BY <1>1, <1>3, <2>1, NothingLeft, Zenon DEF Until
<1>8. Asked' = <<>>
  BY <1>4 DEF Asked, FlowRequests
<1> QED
  BY <1>1, <1>2, <1>4, <1>5, <1>7, <1>8, Zenon DEF SessionInv, Place, OracleStep, Abstracted

LEMMA Asks ==
  ASSUME Asked = <<>>, Asked' \in (Batches \union {<<a>> : a \in Addresses}) \ {<<>>},
         UNCHANGED <<decode, heard>>
  PROVE  OracleStep
<1>1. Oracle!Ask
  BY Zenon DEF Oracle!Ask, Asked
<1> QED
  BY <1>1, Zenon DEF OracleStep

LEMMA FlowStep ==
  ASSUME SessionInv, FlowBatch
  PROVE  SessionInv' /\ OracleStep
<1>1. /\ client.at = "idle" /\ session = "loaded"
      /\ UNCHANGED <<decode, console, stdout, session, images, next, heard>>
  BY DEF FlowBatch, Asking
<1>2. PICK asked \in Batches, op \in {"flow", "batch", "tryFlow"} :
        /\ stdin' = Append(stdin, Command("flow", asked))
        /\ client' = [Idle EXCEPT !.at = "echo", !.op = op, !.asked = asked, !.left = asked]
  BY Zenon DEF FlowBatch
<1>3. asked \in Seq(Addresses) /\ asked \in Seq(Numbers) /\ asked # <<>>
  BY ConsoleAssumption DEF Numbers
<1>4. /\ TypeOK /\ Resting /\ NotHeld /\ Asked = <<>> /\ stdout = <<>>
      /\ console.at \in {"waiting", "exited"}
  BY <1>1, AtRest DEF Resting
<1>5. /\ client' \in Clients /\ client'.at = "echo" /\ client'.op = op /\ client'.asked = asked
      /\ client'.left = asked /\ client'.results = <<>>
  <2>1. <<>> \in Seq(Heard)
    BY EmptySeq
  <2> QED
    BY <1>2, <1>3, <2>1 DEF Idle, Clients, FlowRequests
<1> DEFINE command == Command("flow", asked)
<1>6. command \in Commands /\ command.name = "flow" /\ command.arguments = asked
  <2>1. "flow" \in Names
    BY DEF Names
  <2> QED
    BY <1>3, <2>1, CommandTypes
<1> HIDE DEF command
<1>7. stdin' = Append(stdin, command)
  BY <1>2 DEF command
<1>8. stdin' \in Seq(Commands) /\ (~Exited => Len(stdin') = 1 /\ stdin'[1] = command)
  BY <1>4, <1>6, <1>7, OneCommand, Zenon
<1>9. TypeOK'
  BY <1>1, <1>4, <1>5, <1>8, NothingLeft DEF TypeOK
<1>10. HeardSoFar'
  <2>1. Len(asked) \in Nat /\ Len(<<>>) = 0
    BY <1>3, LenProperties
  <2>2. Matches(decode', asked, asked, <<>>)
    BY <1>3, <2>1 DEF Matches
  <2> QED
    BY <1>5, <2>2, Zenon DEF HeardSoFar
<1>11. Flowing'
  <2>1. client'.op \in Flows /\ NotHeld' /\ console'.at # "none"
    BY <1>1, <1>4, <1>5 DEF NotHeld, Flows
  <2>2. PromptLast' /\ LinesFit' /\ stdout' = <<>>
    BY <1>1, <1>4, NothingLeft
  <2>3. ASSUME ~Exited'
        PROVE  /\ console'.at = "waiting" /\ client'.at = "echo" /\ stdout' = <<>>
               /\ Len(stdin') = 1 /\ stdin'[1].name = "flow" /\ stdin'[1].arguments = client'.left
    <3>1. ~Exited /\ console'.at = "waiting"
      BY <1>1, <1>4, <2>3 DEF Exited
    <3> QED
      BY <1>5, <1>6, <1>8, <2>2, <3>1, Zenon
  <2> QED
    BY <1>10, <2>1, <2>2, <2>3, Zenon DEF Flowing
<1>12. OracleStep
  <2>1. Asked' = asked
    BY <1>5 DEF Asked, FlowRequests
  <2>2. asked \in (Batches \union {<<a>> : a \in Addresses}) \ {<<>>}
    BY <1>3
  <2> QED
    BY <1>1, <1>4, <2>1, <2>2, Asks, Zenon
<1>13. client'.at \in {"echo", "lines"}
  BY <1>5
<1> QED
  BY <1>9, <1>11, <1>12, <1>13, Zenon DEF SessionInv, Place

LEMMA QuitStep ==
  ASSUME SessionInv, Quit
  PROVE  SessionInv' /\ OracleStep
<1>1. /\ client.at = "idle" /\ session = "loaded"
      /\ UNCHANGED <<decode, session, images, next, heard>>
      /\ stdin' = Append(stdin, Command("quit", <<>>)) /\ UNCHANGED <<console, stdout>>
      /\ client' = [Idle EXCEPT !.at = "quitting", !.op = "quit"]
  BY Zenon DEF Quit, Send
<1>2. /\ TypeOK /\ Resting /\ NotHeld /\ Asked = <<>>
      /\ console.at \in {"waiting", "exited"}
  BY <1>1, AtRest DEF Resting
<1>3. client' \in Clients /\ client'.at = "quitting" /\ client'.op = "quit"
  <2>1. <<>> \in Seq(Heard) /\ <<>> \in Seq(Addresses)
    BY EmptySeq
  <2> QED
    BY <1>1, <2>1 DEF Idle, Clients
<1> DEFINE command == Command("quit", <<>>)
<1>4. command \in Commands /\ command.name = "quit"
  <2>1. "quit" \in Names
    BY DEF Names
  <2> QED
    BY <2>1, NoConsoleTypes, CommandTypes
<1> HIDE DEF command
<1>5. stdin' = Append(stdin, command)
  BY <1>1 DEF command
<1>6. stdin' \in Seq(Commands) /\ (~Exited => Len(stdin') = 1 /\ stdin'[1] = command)
  BY <1>2, <1>4, <1>5, OneCommand, Zenon
<1>7. TypeOK'
  BY <1>1, <1>2, <1>3, <1>6 DEF TypeOK
<1>8. NotHeld'
  BY <1>1, <1>2 DEF NotHeld
<1>9. ASSUME ~Exited'
      PROVE  console'.at = "waiting" /\ Len(stdin') = 1 /\ stdin'[1].name = "quit"
  <2>1. ~Exited /\ console'.at = "waiting"
    BY <1>1, <1>2, <1>9 DEF Exited
  <2> QED
    BY <1>4, <1>6, <2>1
<1>10. Quitting'
  BY <1>3, <1>8, <1>9, Zenon DEF Quitting
<1>11. Asked' = <<>>
  BY <1>3 DEF Asked, FlowRequests
<1> QED
  BY <1>1, <1>2, <1>3, <1>7, <1>10, <1>11, Zenon DEF SessionInv, Place, OracleStep, Abstracted

LEMMA OneQuestion ==
  ASSUME NEW a \in Addresses
  PROVE  <<a>> \in (Batches \union {<<b>> : b \in Addresses}) \ {<<>>}
<1>1. Len(<<a>>) = 1 /\ Len(<<>>) = 0
  OBVIOUS
<1>2. <<a>> # <<>>
  BY <1>1
<1> QED
  BY <1>2

LEMMA OnceStep ==
  ASSUME SessionInv, ConsoleFlow
  PROVE  SessionInv' /\ OracleStep
<1>1. client.at = "idle" /\ session = "none" /\ UNCHANGED <<decode, session, heard>>
  BY DEF ConsoleFlow, Asking
<1>2. TypeOK /\ NotHeld /\ Asked = <<>>
  BY <1>1, AtRest DEF Resting
<1>3. PICK a \in Addresses :
        \/ /\ Create(TRUE)
           /\ Spawn(<<Command("load", <<next>>), Command("flow", <<a>>), Command("quit", <<>>)>>)
           /\ client' = [Idle EXCEPT !.at = "drain", !.op = "once", !.asked = <<a>>]
        \/ Create(FALSE) /\ UNCHANGED <<child, client>>
  BY Zenon DEF ConsoleFlow
<1>4. CASE Create(FALSE) /\ UNCHANGED <<child, client>>
  BY <1>1, <1>2, <1>4, Creates, NotMade DEF child
<1>5. CASE /\ Create(TRUE)
           /\ Spawn(<<Command("load", <<next>>), Command("flow", <<a>>), Command("quit", <<>>)>>)
           /\ client' = [Idle EXCEPT !.at = "drain", !.op = "once", !.asked = <<a>>]
  <2>1. Held' /\ next' - 1 = next /\ next' \in Nat /\ next \in Nat
    BY <1>2, <1>5, Creates, Zenon DEF TypeOK
  <2> DEFINE load == Command("load", <<next>>)   flow == Command("flow", <<a>>)
             quit == Command("quit", <<>>)
  <2>2. /\ console' = [NoConsole EXCEPT !.at = "starting"] /\ stdin' = <<load, flow, quit>>
        /\ stdout' = <<>>
    BY <1>5, Zenon DEF Spawn
  <2>3. /\ load \in Commands /\ load.name = "load" /\ load.arguments = <<next>>
        /\ flow \in Commands /\ flow.name = "flow" /\ flow.arguments = <<a>>
        /\ quit \in Commands /\ quit.name = "quit"
    <3>1. <<next>> \in Seq(Numbers) /\ <<a>> \in Seq(Numbers) /\ <<>> \in Seq(Numbers)
      BY <2>1, OneArgument, NoConsoleTypes DEF Numbers
    <3>2. "load" \in Names /\ "flow" \in Names /\ "quit" \in Names
      BY DEF Names
    <3> QED
      BY <3>1, <3>2, CommandTypes
  <2> HIDE DEF load, flow, quit
  <2>4. /\ stdin' \in Seq(Commands) /\ Len(stdin') = 3
        /\ stdin'[1] = load /\ stdin'[2] = flow /\ stdin'[3] = quit
    BY <2>2, <2>3
  <2>5. console' \in Consoles /\ console'.todo = <<>>
    BY <2>2, NoConsoleTypes DEF NoConsole, Consoles
  <2>6. client' \in Clients /\ client'.at = "drain" /\ client'.op = "once" /\ client'.asked = <<a>>
    <3>1. <<>> \in Seq(Heard) /\ <<>> \in Seq(Addresses) /\ <<a>> \in Seq(Addresses)
      BY EmptySeq
    <3> QED
      BY <1>5, <3>1 DEF Idle, Clients, FlowRequests
  <2>7. TypeOK'
    BY <1>1, <1>2, <2>1, <2>2, <2>4, <2>5, <2>6, NothingLeft DEF TypeOK
  <2>8. Draining'
    <3>1. /\ client'.op \in {"once", "onceFile"} /\ session' = "none" /\ Len(client'.asked) = 1
          /\ (IF client.op = "once" THEN Held ELSE NotHeld)'
      BY <1>1, <2>1, <2>6
    <3>2. ASSUME NEW i \in 1 .. Len(stdin')
          PROVE  /\ stdin'[i].name = "load" =>
                      client'.op = "once" /\ stdin'[i].arguments = <<next' - 1>>
                 /\ stdin'[i].name = "flow" => stdin'[i].arguments = client'.asked
      <4>1. i \in {1, 2, 3}
        BY <2>4
      <4>2. CASE i = 1
        BY <2>1, <2>3, <2>4, <2>6, <4>2
      <4>3. CASE i = 2
        BY <2>3, <2>4, <2>6, <4>3
      <4>4. CASE i = 3
        BY <2>3, <2>4, <4>4
      <4> QED
        BY <4>1, <4>2, <4>3, <4>4
    <3>3. \A i \in 1 .. Len(stdout') : FALSE
      BY <2>2
    <3> QED
      BY <2>5, <3>1, <3>2, <3>3, Zenon DEF Draining
  <2>9. OracleStep
    <3>1. Asked' = <<a>>
      BY <2>6 DEF Asked, FlowRequests
    <3> QED
      BY <1>1, <1>2, <3>1, OneQuestion, Asks, Zenon
  <2> QED
    BY <2>6, <2>7, <2>8, <2>9, Zenon DEF SessionInv, Place
<1> QED
  BY <1>3, <1>4, <1>5

LEMMA FileOnceStep ==
  ASSUME SessionInv, FileFlow
  PROVE  SessionInv' /\ OracleStep
<1>1. client.at = "idle" /\ session = "none" /\ UNCHANGED <<decode, session, images, next, heard>>
  BY DEF FileFlow, Asking
<1>2. TypeOK /\ NotHeld /\ Asked = <<>>
  BY <1>1, AtRest DEF Resting
<1>3. PICK a \in Addresses :
        /\ \/ Spawn(<<Command("loadFile", <<0>>), Command("flow", <<a>>), Command("quit", <<>>)>>)
           \/ Spawn(<<Command("loadFile", <<0>>), Command("adjust", <<0>>),
                      Command("flow", <<a>>), Command("quit", <<>>)>>)
        /\ client' = [Idle EXCEPT !.at = "drain", !.op = "onceFile", !.asked = <<a>>]
  BY Zenon DEF FileFlow
<1> DEFINE load == Command("loadFile", <<0>>)   vma == Command("adjust", <<0>>)
           flow == Command("flow", <<a>>)       quit == Command("quit", <<>>)
<1>4. /\ console' = [NoConsole EXCEPT !.at = "starting"] /\ stdout' = <<>>
      /\ stdin' = <<load, flow, quit>> \/ stdin' = <<load, vma, flow, quit>>
  BY <1>3, Zenon DEF Spawn
<1>5. /\ load \in Commands /\ load.name = "loadFile"
      /\ vma \in Commands /\ vma.name = "adjust"
      /\ flow \in Commands /\ flow.name = "flow" /\ flow.arguments = <<a>>
      /\ quit \in Commands /\ quit.name = "quit"
  <2>1. <<0>> \in Seq(Numbers) /\ <<a>> \in Seq(Numbers) /\ <<>> \in Seq(Numbers)
    BY OneArgument, NoConsoleTypes DEF Numbers
  <2>2. "loadFile" \in Names /\ "adjust" \in Names /\ "flow" \in Names /\ "quit" \in Names
    BY DEF Names
  <2> QED
    BY <2>1, <2>2, CommandTypes
<1> HIDE DEF load, vma, flow, quit
<1>7. /\ stdin' \in Seq(Commands)
      /\ \A i \in 1 .. Len(stdin') : stdin'[i] \in {load, vma, flow, quit}
  <2>1. CASE stdin' = <<load, flow, quit>>
    BY <1>5, <2>1
  <2>2. CASE stdin' = <<load, vma, flow, quit>>
    BY <1>5, <2>2
  <2> QED
    BY <1>4, <2>1, <2>2
<1>8. console' \in Consoles /\ console'.todo = <<>>
  BY <1>4, NoConsoleTypes DEF NoConsole, Consoles
<1>9. client' \in Clients /\ client'.at = "drain" /\ client'.op = "onceFile" /\ client'.asked = <<a>>
  <2>1. <<>> \in Seq(Heard) /\ <<>> \in Seq(Addresses) /\ <<a>> \in Seq(Addresses)
    BY EmptySeq
  <2> QED
    BY <1>3, <2>1 DEF Idle, Clients, FlowRequests
<1>10. TypeOK'
  BY <1>1, <1>2, <1>4, <1>7, <1>8, <1>9, NothingLeft DEF TypeOK
<1>11. Draining'
  <2>1. NotHeld' /\ session' = "none" /\ Len(client'.asked) = 1
    BY <1>1, <1>2, <1>9 DEF NotHeld
  <2>2. ASSUME NEW i \in 1 .. Len(stdin')
        PROVE  /\ stdin'[i].name # "load"
               /\ stdin'[i].name = "flow" => stdin'[i].arguments = client'.asked
    BY <1>5, <1>7, <1>9
  <2>3. \A i \in 1 .. Len(stdout') : FALSE
    BY <1>4
  <2>4. client'.op \in {"once", "onceFile"} /\ client'.op # "once"
    BY <1>9
  <2> QED
    BY <1>8, <2>1, <2>2, <2>3, <2>4, Zenon DEF Draining
<1>12. OracleStep
  <2>1. Asked' = <<a>>
    BY <1>9 DEF Asked, FlowRequests
  <2> QED
    BY <1>1, <1>2, <2>1, OneQuestion, Asks, Zenon
<1> QED
  BY <1>9, <1>10, <1>11, <1>12, Zenon DEF SessionInv, Place
-----------------------------------------------------------------------------
(***************************************************************************)
(* The theorems.                                                           *)
(***************************************************************************)
LEMMA InitInv == Init => SessionInv /\ Oracle!Init
<1> SUFFICES ASSUME Init
             PROVE  SessionInv /\ Oracle!Init
  OBVIOUS
<1>1. /\ decode \in Images /\ console = NoConsole /\ stdin = <<>> /\ stdout = <<>>
      /\ client = Idle /\ session = "none" /\ heard = <<>> /\ images = Leftover /\ next = 0
  BY DEF Init
<1>2. TypeOK
  <2>1. 0 \in Nat
    OBVIOUS
  <2> QED
    BY <1>1, <2>1, NoConsoleTypes, IdleClient DEF TypeOK
<1>3. Resting
  BY <1>1, NoConsoleTypes DEF Resting, NotHeld, Exited
<1>4. client.at = "idle" /\ client.op = "none"
  BY <1>1, IdleClient
<1>5. Asked = <<>>
  BY <1>4 DEF Asked, FlowRequests
<1>6. Oracle!Init
  BY <1>1, <1>5, Zenon DEF Oracle!Init, Asked
<1> QED
  BY <1>2, <1>3, <1>4, <1>6, Zenon DEF SessionInv, Place

LEMMA StutterStep ==
  ASSUME SessionInv, UNCHANGED vars
  PROVE  SessionInv' /\ OracleStep
<1>1. UNCHANGED <<decode, console, stdin, stdout, client, session, images, next, requests, heard>>
  BY DEF vars, child
<1>0. client'.at = client.at
  BY <1>1
<1>2. TypeOK'
  BY <1>1, Zenon DEF SessionInv, TypeOK
<1>3. ASSUME client.at = "idle" /\ Resting
      PROVE  SessionInv'
  <2>1. Resting'
    BY <1>1, <1>3, Zenon DEF Resting, NotHeld, Exited
  <2> QED
    BY <1>0, <1>2, <1>3, <2>1 DEF SessionInv, Place
<1>4. ASSUME client.at = "until" /\ Until
      PROVE  SessionInv'
  <2>1. Until'
    BY <1>1, <1>4, Zenon DEF Until, Held, NotHeld, PromptLast, Exited, Unprompted, Prompted
  <2> QED
    BY <1>0, <1>2, <1>4, <2>1 DEF SessionInv, Place
<1>10. ASSUME client.at = "until" /\ Adjusting
       PROVE  SessionInv'
  <2>1. Adjusting'
    BY <1>1, <1>10, Zenon DEF Adjusting, NotHeld, BeforePrompt, AfterPrompt, Exited, Unprompted
  <2> QED
    BY <1>0, <1>2, <1>10, <2>1 DEF SessionInv, Place
<1>5. ASSUME client.at \in {"echo", "lines"} /\ Flowing
      PROVE  SessionInv'
  <2>1. Flowing'
    BY <1>1, <1>5, Zenon DEF Flowing, NotHeld, HeardSoFar, PromptLast, LinesFit, Fits, Echoes,
       ToCome, Exited, Unprompted, Prompted
  <2> QED
    BY <1>0, <1>2, <1>5, <2>1 DEF SessionInv, Place
<1>6. ASSUME client.at = "drain" /\ Draining
      PROVE  SessionInv'
  <2>1. Draining'
    BY <1>1, <1>6, Zenon DEF Draining, Held, NotHeld
  <2> QED
    BY <1>0, <1>2, <1>6, <2>1 DEF SessionInv, Place
<1>7. ASSUME client.at = "quitting" /\ Quitting
      PROVE  SessionInv'
  <2>1. Quitting'
    BY <1>1, <1>7, Zenon DEF Quitting, NotHeld, Exited
  <2> QED
    BY <1>0, <1>2, <1>7, <2>1 DEF SessionInv, Place
<1>8. SessionInv'
  BY <1>2, <1>3, <1>4, <1>5, <1>6, <1>7, <1>10, Zenon DEF SessionInv, Place
<1>9. Asked' = Asked
  BY <1>1, Zenon DEF Asked
<1> QED
  BY <1>1, <1>8, <1>9, Zenon DEF OracleStep, Abstracted

LEMMA InvStep == SessionInv /\ [Next]_vars => SessionInv' /\ [Oracle!Next]_<<decode, Asked, heard>>
<1> SUFFICES ASSUME SessionInv, [Next]_vars
             PROVE  SessionInv' /\ OracleStep
  BY DEF OracleStep, Abstracted, Oracle!Next
<1>1. CASE ConsoleStep \/ ConsoleDies
  <2>1. UNCHANGED <<decode, client, heard>>
    BY <1>1 DEF ConsoleStep, ConsoleDies
  <2>2. Asked' = Asked
    BY <2>1, Zenon DEF Asked
  <2> QED
    BY <1>1, <2>1, <2>2, ConsoleKeeps, Zenon DEF OracleStep, Abstracted
<1>2. CASE ClientReads
  BY <1>2, EchoStep, LinesStep, PromptStep, FirstPromptStep, UntilStep, DrainedStep, GoneStep, Zenon
     DEF ClientReads
<1>3. CASE \/ New \/ Load \/ LoadFile \/ FlowBatch \/ LinkageBatch \/ Query
           \/ ConsoleFlow \/ FileFlow \/ Quit \/ Drop
  BY <1>3, NewStep, LoadStep, LoadFileStep, FlowStep, LinkageStep, QueryStep, OnceStep,
     FileOnceStep, QuitStep, GoneStep, Zenon
<1>4. CASE Stop \/ UNCHANGED vars
  BY <1>4, StutterStep, Zenon DEF Stop
<1> QED
  BY <1>1, <1>2, <1>3, <1>4, Zenon DEF Next

\* In every reachable state the client is in one of its places, and the two
\* streams and the console are as that place says.
THEOREM SessionIsInvariant == Spec => []SessionInv
<1>1. Init => SessionInv
  BY InitInv
<1>2. SessionInv /\ [Next]_vars => SessionInv'
  BY InvStep
<1> QED
  BY <1>1, <1>2, PTL DEF Spec

\* Between requests nothing is left to read and the console waits for a
\* command, whatever was answered and however a request failed
\* (ConsoleSession::flow_batch, load_xml, read_linkages).
THEOREM SessionStaysInStep == Spec => []InStep
<1>1. SessionInv => InStep
  <2> SUFFICES ASSUME SessionInv, client.at = "idle", session \in {"spawned", "loaded"}, ~Exited
               PROVE  stdin = <<>> /\ stdout = <<>> /\ console.at = "waiting"
    BY DEF InStep
  <2>1. Resting /\ console.at \in {"waiting", "exited"}
    BY AtRest
  <2> QED
    BY <2>1 DEF Resting, Exited
<1> QED
  BY <1>1, SessionIsInvariant, PTL

\* The image of a load is on the disk until the console has opened it, and no
\* longer than the request (MappedImage and its drop).
THEOREM ImagesLiveAsLongAsLoads == Spec => []ImagesAreKept
<1>1. SessionInv => ImagesAreKept
  <2> SUFFICES ASSUME SessionInv
               PROVE  ImagesAreKept
    OBVIOUS
  <2>1. client.at = "idle" => images = Leftover
    BY AtRest DEF Resting, NotHeld
  <2>2. ASSUME console.at = "working", console.command = "load", console.todo # <<>>
        PROVE  Head(console.todo) \in images
    <3>1. Held /\ console.todo = <<next - 1>>
      <4>1. ~Resting /\ ~Adjusting /\ ~Flowing /\ ~Quitting
        BY <2>2 DEF Resting, Adjusting, BeforePrompt, AfterPrompt, Flowing, Quitting, Exited
      <4>2. CASE Until
        BY <2>2, <4>2 DEF Until, Exited
      <4>3. CASE Draining
        BY <2>2, <4>3 DEF Draining
      <4> QED
        BY <4>1, <4>2, <4>3, Zenon DEF SessionInv, Place
    <3>2. Head(console.todo) = next - 1
      BY <3>1
    <3> QED
      BY <3>1, <3>2 DEF Held
  <2> QED
    BY <2>1, <2>2 DEF ImagesAreKept
<1> QED
  BY <1>1, SessionIsInvariant, PTL

\* Whatever dies, is late or is answered with an error, a flow request returns
\* the decoder's answers about its own addresses in their order or fails: the
\* session and the child of its own implement FlowOracle, which discovery
\* takes them for (flow_batch, try_flow_batch, console_flow).
THEOREM FlowsAreAnswered == Spec => FlowAnswers
<1>1. Init => Oracle!Init
  BY InitInv
<1>2. SessionInv /\ [Next]_vars =>
        [Oracle!Next]_<<decode, IF client.op \in FlowRequests
                                THEN client.asked ELSE <<>>, heard>>
  BY InvStep DEF Asked
<1> QED
  BY <1>1, <1>2, SessionIsInvariant, PTL DEF Spec, FlowAnswers, Oracle!Spec
=============================================================================
