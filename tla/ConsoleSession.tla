--------------------------- MODULE ConsoleSession ---------------------------
(***************************************************************************)
(* The SLEIGH console and its client (crates/lre-core/src/                 *)
(* native_runtime.rs): a child process with a prompt, asked about          *)
(* instructions, linkage stubs and function starts over its standard       *)
(* streams, either by a session that lives for a whole discovery or by a   *)
(* child that is given one script (console_flow).                          *)
(*                                                                         *)
(* The streams are sequences; what was read is gone.  A line carries its   *)
(* meaning as a record; a prompt is a record that does not end a line.     *)
(* Flow batches are read by counting lines, all else up to a prompt.       *)
(***************************************************************************)
EXTENDS Integers, Sequences, FiniteSets, SequencesExt

CONSTANTS
  Addresses,   \* addresses asked about
  Batches,     \* the sequences of addresses of a request
  Images,      \* what decoding the addresses gives: functions to "ok", "bad",
               \* "unimpl" or, where the image has no bytes, "unmapped"
  Faults,      \* what may happen: subset of {"death", "load", "file", "query", "disk"}
  Leftover,    \* numbers of image files that an earlier process left
  MaxRequests  \* requests of a behaviour

ASSUME ConsoleAssumption ==
  /\ MaxRequests \in Nat /\ Leftover \subseteq Nat
  /\ Batches \subseteq Seq(Addresses) \ {<<>>}

VARIABLES
  decode,      \* the image
  console,     \* the child: [at, command, todo, loaded]
  stdin,       \* commands written and not read by the child
  stdout,      \* lines and prompts written and not read by the client
  client,      \* [at, op, asked, left, results]
  session,     \* "none", "spawned", "loaded" or "broken"
  images,      \* temporary image files on the disk
  next,        \* the counter of MappedImage::new
  requests,    \* requests made
  heard        \* results of the last flow request, <<>> if it failed

child == <<console, stdin, stdout>>
vars == <<decode, child, client, session, images, next, requests, heard>>

Line(tag, address, kind) == [tag |-> tag, address |-> address, kind |-> kind]
Prompt == Line("prompt", 0, "none")
ErrorLine == Line("error", 0, "none")       \* Low-level ERROR
RefusedLine == Line("refused", 0, "none")   \* any other error
Command(name, arguments) == [name |-> name, arguments |-> arguments]

NoConsole == [at |-> "none", command |-> "none", todo |-> <<>>, loaded |-> FALSE]
Idle == [at |-> "idle", op |-> "none", asked |-> <<>>, left |-> <<>>, results |-> <<>>]
Exited == console.at = "exited"

Init ==
  /\ decode \in Images
  /\ console = NoConsole /\ stdin = <<>> /\ stdout = <<>>
  /\ client = Idle /\ session = "none" /\ requests = 0 /\ heard = <<>>
  /\ images = Leftover /\ next = 0
-----------------------------------------------------------------------------
(***************************************************************************)
(* The console: mainloop and the commands of ghidra-opt-sleigh.patch.      *)
(***************************************************************************)
ConsoleStart ==
  /\ console.at = "starting"
  /\ console' = [console EXCEPT !.at = "waiting"] /\ stdout' = Append(stdout, Prompt)
  /\ UNCHANGED stdin

\* The command is echoed.
ConsoleRead ==
  /\ console.at = "waiting" /\ stdin # <<>>
  /\ stdin' = Tail(stdin) /\ stdout' = Append(stdout, Line("echo", 0, "none"))
  /\ console' = IF Head(stdin).name = "quit" THEN [console EXCEPT !.at = "exited"]
                ELSE [console EXCEPT !.at = "working", !.command = Head(stdin).name,
                                     !.todo = Head(stdin).arguments]

\* A line that is the last of its command, and one that is not.
Ends(line) ==
  stdout' = Append(stdout, line) /\ console' = [console EXCEPT !.todo = <<>>]
Goes(line) ==
  stdout' = Append(stdout, line) /\ console' = [console EXCEPT !.todo = Tail(@)]
Working(commands) ==
  /\ console.at = "working" /\ console.command \in commands /\ console.todo # <<>>
  /\ UNCHANGED stdin

\* IfcFlow: an address that is no instruction has a line of its own; any other
\* error ends the command, with one line.
FlowLine ==
  /\ Working({"flow"})
  /\ LET a == Head(console.todo)
     IN  \/ ~console.loaded /\ Ends(RefusedLine)
         \/ console.loaded /\ decode[a] = "unmapped" /\ Ends(ErrorLine)
         \/ console.loaded /\ decode[a] # "unmapped" /\ Goes(Line("flow", a, decode[a]))

\* linkage: errors of an address are in its line.
LinkageLine ==
  /\ Working({"linkage"})
  /\ \/ console.loaded /\ Goes(Line("linkage", Head(console.todo), "ok"))
     \/ ("query" \in Faults \/ ~console.loaded) /\ Ends(ErrorLine)

\* functionstarts and constants: one line, of the result or of an error.
QueryLine ==
  /\ Working({"functionstarts", "constants"})
  /\ \/ console.loaded /\ Ends(Line(console.command, 0, "ok"))
     \/ ("query" \in Faults \/ ~console.loaded) /\ Ends(ErrorLine)

\* load file: the image must be on the disk when the console opens it.
LoadLine ==
  /\ Working({"load"})
  /\ \E opened \in {Head(console.todo) \in images}
                     \union (IF "load" \in Faults THEN {FALSE} ELSE {}) :
       /\ console' = [console EXCEPT !.todo = <<>>, !.loaded = opened]
       /\ stdout' = Append(stdout, IF opened THEN Line("loaded", 0, "none") ELSE ErrorLine)

\* load file of a binary that BFD or the raw image reads.
FileLine ==
  /\ Working({"loadFile"})
  /\ \E opened \in {TRUE} \union (IF "file" \in Faults THEN {FALSE} ELSE {}) :
       /\ console' = [console EXCEPT !.todo = <<>>, !.loaded = opened]
       /\ stdout' = Append(stdout, IF opened THEN Line("loaded", 0, "none") ELSE RefusedLine)

\* adjust vma: no line, or one where there is no image or the base is 0.
AdjustQuietly ==
  /\ Working({"adjust"}) /\ console.loaded
  /\ console' = [console EXCEPT !.todo = <<>>] /\ UNCHANGED stdout
AdjustLine == Working({"adjust"}) /\ Ends(RefusedLine)

ConsolePrompt ==
  /\ console.at = "working" /\ console.todo = <<>>
  /\ stdout' = Append(stdout, Prompt) /\ console' = [console EXCEPT !.at = "waiting"]
  /\ UNCHANGED stdin

ConsoleStep ==
  /\ ConsoleStart \/ ConsoleRead \/ FlowLine \/ LinkageLine \/ QueryLine \/ LoadLine
       \/ FileLine \/ AdjustQuietly \/ AdjustLine \/ ConsolePrompt
  /\ UNCHANGED <<decode, client, session, images, next, requests, heard>>

ConsoleDies ==
  /\ "death" \in Faults /\ console.at \in {"starting", "waiting", "working"}
  /\ console' = [console EXCEPT !.at = "exited"]
  /\ UNCHANGED <<decode, stdin, stdout, client, session, images, next, requests, heard>>
-----------------------------------------------------------------------------
(***************************************************************************)
(* Reading.                                                                *)
(***************************************************************************)
\* read_line takes what stands before its line too, and at the end of the
\* output what is left.
LineEnd == SelectInSeq(stdout, LAMBDA l : l.tag # "prompt")
LineThere == LineEnd # 0 \/ Exited
ReadLine == IF LineEnd = 1 THEN stdout[1] ELSE RefusedLine
AfterLine == IF LineEnd = 0 THEN <<>> ELSE SubSeq(stdout, LineEnd + 1, Len(stdout))
EndOfOutput == Exited /\ stdout = <<>>

\* read_until_prompt.
PromptAt == SelectInSeq(stdout, LAMBDA l : l.tag = "prompt")
Response == SubSeq(stdout, 1, PromptAt - 1)
Has(tag) == SelectInSeq(Response, LAMBDA l : l.tag = tag) # 0

\* Fault: whatever the line is, its address and kind are taken.
ParseAnyLine(line, a) == [address |-> line.address, kind |-> line.kind]

\* parse_flow_output: a line that is no flow line makes a bad instruction.
ParseFlowOutput(line, a) ==
  IF line.tag = "flow" THEN [address |-> line.address, kind |-> line.kind]
  ELSE [address |-> a, kind |-> "bad"]

\* A flow request that fails has no results, or, of try_flow and
\* try_flow_batch, bad ones.
Fails ==
  /\ client' = Idle
  /\ heard' = IF client.op # "tryFlow" THEN <<>>
              ELSE [i \in DOMAIN client.asked |-> [address |-> client.asked[i], kind |-> "bad"]]

\* flow and flow_batch: the echo, a line for every address, and ten bytes that
\* should be the prompt.  A batch has a bad instruction for a line it cannot
\* parse; flow, when it has read the prompt too, is an error.
FlowEcho ==
  /\ client.at = "echo" /\ LineThere
  /\ stdout' = AfterLine
  /\ IF EndOfOutput THEN Fails
     ELSE client' = [client EXCEPT !.at = "lines"] /\ UNCHANGED heard
  /\ UNCHANGED <<decode, console, stdin, session, images, next, requests>>

FlowLines ==
  /\ client.at = "lines" /\ client.left # <<>> /\ LineThere
  /\ stdout' = AfterLine
  /\ IF EndOfOutput THEN Fails
     ELSE /\ client' = [client EXCEPT !.left = Tail(@),
                          !.results = Append(@, ParseFlowOutput(ReadLine, Head(client.left))),
                          !.op = IF @ = "flow" /\ ReadLine.tag \notin {"flow", "error"}
                                 THEN "refused" ELSE @]
          /\ UNCHANGED heard
  /\ UNCHANGED <<decode, console, stdin, session, images, next, requests>>

\* Fault: the prompt is left for the next request.
FlowPromptLeft ==
  /\ client.at = "lines" /\ client.left = <<>> /\ (stdout # <<>> \/ Exited)
  /\ client' = Idle /\ heard' = client.results
  /\ UNCHANGED <<decode, child, session, images, next, requests>>

FlowPrompt ==
  /\ client.at = "lines" /\ client.left = <<>> /\ (stdout # <<>> \/ Exited)
  /\ IF EndOfOutput THEN Fails /\ UNCHANGED stdout
     ELSE /\ IF client.op = "refused" THEN Fails
             ELSE client' = Idle /\ heard' = client.results
          /\ stdout' = IF Head(stdout) = Prompt THEN Tail(stdout)
                       ELSE <<RefusedLine>> \o Tail(stdout)
  /\ UNCHANGED <<decode, console, stdin, session, images, next, requests>>

\* What a response must hold: load_xml, constants, function_patterns,
\* read_linkages; nothing of a load by BFD.
Accepted ==
  CASE client.op \in {"new", "loadFile", "adjust"} -> TRUE
    [] client.op = "load" -> Has("loaded")
    [] client.op \in {"functionstarts", "constants"} -> Has(client.op)
    [] client.op = "linkage" ->
         LET rows == SelectSeq(Response, LAMBDA l : l.tag = "linkage")
         IN  [i \in DOMAIN rows |-> rows[i].address] = client.asked

\* Fault: a read of nothing is not taken for the end of the output.
UntilPromptSpins ==
  /\ client.at = "until"
  /\ IF PromptAt = 0 THEN Exited /\ UNCHANGED <<stdout, client, session, images>>
     ELSE /\ client.op # "twoPrompts"
          /\ stdout' = SubSeq(stdout, PromptAt + 1, Len(stdout))
          /\ client' = Idle /\ images' = Leftover
          /\ session' = IF client.op = "new" THEN "spawned" ELSE "loaded"
  /\ UNCHANGED <<decode, console, stdin, next, requests, heard>>

Loading == {"load", "loadFile", "twoPrompts", "adjust"}

\* The first of the two prompts of load file and adjust vma.
UntilFirstPrompt ==
  /\ client.at = "until" /\ client.op = "twoPrompts" /\ PromptAt # 0
  /\ stdout' = SubSeq(stdout, PromptAt + 1, Len(stdout))
  /\ client' = [client EXCEPT !.op = "adjust"]
  /\ UNCHANGED <<decode, console, stdin, session, images, next, requests, heard>>

\* A response up to its prompt.  The image of a load is removed with it; a
\* session that is not made or not loaded is dropped by its caller.
UntilPrompt ==
  LET accepted == PromptAt # 0 /\ Accepted
  IN  /\ client.at = "until"
      /\ \/ PromptAt # 0 /\ client.op # "twoPrompts"
         \/ PromptAt = 0 /\ Exited
      /\ stdout' = IF PromptAt = 0 THEN <<>> ELSE SubSeq(stdout, PromptAt + 1, Len(stdout))
      /\ client' = Idle
      /\ session' = CASE client.op = "new" -> IF accepted THEN "spawned" ELSE "broken"
                      [] client.op \in Loading -> IF accepted THEN "loaded" ELSE "broken"
                      [] OTHER -> session
      /\ images' = IF client.op = "load" THEN images \ {next - 1} ELSE images
      /\ UNCHANGED <<decode, console, stdin, next, requests, heard>>
-----------------------------------------------------------------------------
(***************************************************************************)
(* Requests.  A command to a child that has gone is not written; the       *)
(* request fails then as it does at the end of the output.                 *)
(***************************************************************************)
Spawn(commands) ==
  console' = [NoConsole EXCEPT !.at = "starting"] /\ stdin' = commands /\ stdout' = <<>>
Send(op, command, reading) ==
  /\ stdin' = Append(stdin, command) /\ UNCHANGED <<console, stdout>>
  /\ client' = [Idle EXCEPT !.at = reading, !.op = op]
Asking == client.at = "idle" /\ requests < MaxRequests /\ requests' = requests + 1

\* ConsoleSession::new.
New ==
  /\ Asking /\ session = "none"
  /\ Spawn(<<>>)
  /\ client' = [Idle EXCEPT !.at = "until", !.op = "new"]
  /\ UNCHANGED <<decode, session, images, next, heard>>

\* MappedImage::new: a file of a new number, unless its name is taken or it
\* cannot be written; what was written of it is removed.
Create(made) ==
  /\ next' = next + 1
  /\ IF made THEN next \notin images /\ images' = images \union {next}
     ELSE (next \in images \/ "disk" \in Faults) /\ UNCHANGED images

\* Fault: the image goes out of scope when the command is written.
LoadUnwaited ==
  /\ Asking /\ session = "spawned" /\ next \notin images
  /\ next' = next + 1 /\ UNCHANGED images
  /\ Send("load", Command("load", <<next>>), "until")
  /\ UNCHANGED <<decode, session, heard>>

\* load_mapped, and load of an ELF or DOL binary.
Load ==
  /\ Asking /\ session = "spawned"
  /\ \/ /\ Create(TRUE) /\ Send("load", Command("load", <<next>>), "until")
        /\ UNCHANGED session
     \/ Create(FALSE) /\ session' = "broken" /\ UNCHANGED <<child, client>>
  /\ UNCHANGED <<decode, heard>>

\* load of any other binary: one command where the language is an x86 one, two
\* otherwise, written together; or it cannot be read (bfd_target_for).
LoadFile ==
  /\ Asking /\ session = "spawned"
  /\ \/ Send("loadFile", Command("loadFile", <<0>>), "until") /\ UNCHANGED session
     \/ /\ stdin' = stdin \o <<Command("loadFile", <<0>>), Command("adjust", <<0>>)>>
        /\ client' = [Idle EXCEPT !.at = "until", !.op = "twoPrompts"]
        /\ UNCHANGED <<console, stdout, session>>
     \/ session' = "broken" /\ UNCHANGED <<child, client>>
  /\ UNCHANGED <<decode, images, next, heard>>

\* flow, flow_batch, and try_flow and try_flow_batch.
FlowBatch ==
  /\ Asking /\ session = "loaded"
  /\ \E asked \in Batches, op \in {"flow", "batch", "tryFlow"} :
       /\ op = "flow" => Len(asked) = 1
       /\ stdin' = Append(stdin, Command("flow", asked))
       /\ client' = [Idle EXCEPT !.at = "echo", !.op = op, !.asked = asked, !.left = asked]
  /\ UNCHANGED <<decode, console, stdout, session, images, next, heard>>

\* linkage_batch, plt_linkage_batch and context_linkage_batch.
LinkageBatch ==
  /\ Asking /\ session = "loaded"
  /\ \E asked \in Batches :
       /\ stdin' = Append(stdin, Command("linkage", asked))
       /\ client' = [Idle EXCEPT !.at = "until", !.op = "linkage", !.asked = asked]
  /\ UNCHANGED <<decode, console, stdout, session, images, next, heard>>

\* function_patterns and constants.
Query ==
  /\ Asking /\ session = "loaded"
  /\ \E op \in {"functionstarts", "constants"} : Send(op, Command(op, <<0>>), "until")
  /\ UNCHANGED <<decode, session, images, next, heard>>

\* console_flow: a child of its own, one script, and all of its output.
ConsoleFlow ==
  /\ Asking /\ session = "none"
  /\ \E a \in Addresses :
       \/ /\ Create(TRUE)
          /\ Spawn(<<Command("load", <<next>>), Command("flow", <<a>>), Command("quit", <<>>)>>)
          /\ client' = [Idle EXCEPT !.at = "drain", !.op = "once", !.asked = <<a>>]
       \/ Create(FALSE) /\ UNCHANGED <<child, client>>
  /\ UNCHANGED <<decode, session, heard>>

\* Its script for a binary that BFD or the raw image reads.
FileFlow ==
  /\ Asking /\ session = "none"
  /\ \E a \in Addresses :
       LET load == Command("loadFile", <<0>>)   vma == Command("adjust", <<0>>)
           flow == Command("flow", <<a>>)       quit == Command("quit", <<>>)
       IN  /\ Spawn(<<load, flow, quit>>) \/ Spawn(<<load, vma, flow, quit>>)
           /\ client' = [Idle EXCEPT !.at = "drain", !.op = "onceFile", !.asked = <<a>>]
  /\ UNCHANGED <<decode, session, images, next, heard>>

Drained ==
  LET at == SelectInSeq(stdout, LAMBDA l : l.tag = "flow")
  IN  /\ client.at = "drain" /\ Exited
      /\ heard' = IF at = 0 THEN <<>> ELSE <<ParseFlowOutput(stdout[at], Head(client.asked))>>
      /\ client' = Idle
      /\ images' = IF client.op = "once" THEN images \ {next - 1} ELSE images
      /\ console' = NoConsole /\ stdin' = <<>> /\ stdout' = <<>>
      /\ UNCHANGED <<decode, session, next, requests>>

Gone ==
  /\ console' = NoConsole /\ stdin' = <<>> /\ stdout' = <<>>
  /\ client' = Idle /\ session' = "none"
  /\ UNCHANGED <<decode, images, next, requests, heard>>

\* quit waits for the child to end by itself.
Quit ==
  /\ client.at = "idle" /\ session = "loaded"
  /\ Send("quit", Command("quit", <<>>), "quitting")
  /\ UNCHANGED <<decode, session, images, next, requests, heard>>
QuitEnds == client.at = "quitting" /\ Exited /\ Gone

\* The session is dropped: its child is killed and waited for.
Drop == client.at = "idle" /\ session # "none" /\ Gone

Stop == client.at = "idle" /\ session = "none" /\ requests = MaxRequests /\ UNCHANGED vars

ClientReads ==
  FlowEcho \/ FlowLines \/ FlowPrompt \/ UntilFirstPrompt \/ UntilPrompt \/ Drained \/ QuitEnds

Next ==
  \/ ConsoleStep \/ ConsoleDies \/ ClientReads
  \/ New \/ Load \/ LoadFile \/ FlowBatch \/ LinkageBatch \/ Query \/ ConsoleFlow \/ FileFlow
  \/ Quit \/ Drop \/ Stop

\* The child runs, and a blocking read returns when there is something to read.
Fairness == WF_vars(ConsoleStep) /\ WF_vars(ClientReads)

Spec == Init /\ [][Next]_vars /\ Fairness
-----------------------------------------------------------------------------
(***************************************************************************)
(* What the session owes its callers.                                      *)
(***************************************************************************)
\* Between requests the two ends are in step: nothing is left to read, and the
\* child waits for a command ("A rejected query must not poison the following
\* console request"), whatever was answered and however a request failed.
InStep ==
  client.at = "idle" /\ session \in {"spawned", "loaded"} /\ ~Exited =>
    stdin = <<>> /\ stdout = <<>> /\ console.at = "waiting"

\* The temporary image of a load is on the disk until the console has opened
\* it, and no longer than the request, on every path (MappedImage's drop).
ImagesAreKept ==
  /\ client.at = "idle" => images = Leftover
  /\ console.at = "working" /\ console.command = "load" /\ console.todo # <<>>
       => Head(console.todo) \in images

\* A flow request returns the decoder's answers about its own addresses in
\* their order or fails, as FlowOracle says: what discovery relies on.
FlowRequests == {"flow", "refused", "batch", "tryFlow", "once", "onceFile"}
Oracle ==
  INSTANCE FlowOracle WITH
    Questions <- Batches \union {<<a>> : a \in Addresses},
    asked <- IF client.op \in FlowRequests THEN client.asked ELSE <<>>,
    answer <- heard
FlowAnswers == Oracle!Spec

\* Every request ends: the client never waits for a line while the console
\* waits for a command (flow_batch "never errors, returning fallback results
\* on failure").  Excepted are batches on a session whose load by BFD failed:
\* load does not see that, and the one line of the refusal is not enough.
LoadUnseen ==
  /\ session = "loaded" /\ ~console.loaded
  /\ client.op \in FlowRequests /\ Len(client.asked) > 1
RequestEnds == client.at # "idle" ~> client.at = "idle" \/ LoadUnseen
=============================================================================
