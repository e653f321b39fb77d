--------------------------- MODULE WorkerProtocol ---------------------------
(***************************************************************************)
(* One worker session: NativeWorker and its ProgramProvider                *)
(* (crates/lre-worker/src/worker.rs, provider.rs) at one end of a pair of  *)
(* pipes, ghidra_opt (third_party/ghidra/decompiler) at the other.         *)
(*                                                                         *)
(* The client writes a command; the child may interrupt its own response   *)
(* with queries, which the client answers from the facts of the program,   *)
(* and ends it with a result, with warnings alone, or with an exception.   *)
(* The two share nothing but the pipes, so what one side writes and the    *)
(* other reads has to agree burst by burst: there is no length and no tag  *)
(* to resynchronise on.                                                    *)
(*                                                                         *)
(* A pipe is a sequence of bursts and of the data between them.  A frame   *)
(* that its writer flushes as a whole (a command, a query, an answer) is   *)
(* written in one step; the client reads a response burst by burst.  The   *)
(* payload of a query is its bytes, and what the client understands of it  *)
(* is what the decoders of module PackedFormat make of them.               *)
(***************************************************************************)
EXTENDS PackedFormat, FiniteSets, FiniteSetsExt

CONSTANTS
  Queries,       \* the queries the decompiler may ask in the instance
  FunctionName,  \* function_names by entry
  CellDigits,    \* the least width of an address in the store, 8
  SymbolName,    \* symbol_names by address
  Memory,        \* the program image: bytes by address
  Registers,     \* offset and size of a register by name (registers.txt)
  Datatypes,     \* names of the datatypes of the store
  Externals,     \* names of imported symbols by address
  Comments,      \* per function entry, its comments: [address, type, text]
  Strings,       \* contents of the defined strings by address
  MaxCommands,   \* commands of a session: a bound of the instance
  MaxQueries     \* queries of a command: a bound of the instance

ASSUME ProtocolAssumption ==
  /\ MaxCommands \in Nat \ {0}
  /\ MaxQueries \in Nat
  /\ CellDigits \in Nat

\* The address spaces of the instance: ram_space_index, register_space_index.
RamSpace == 3
RegisterSpace == 4

VARIABLES
  toChild,     \* the child's stdin: what it has not read yet
  fromChild,   \* the child's stdout: what the client has not read yet
  stdin,       \* whether the client's end of the child's stdin is open
  client,      \* where run_command is, and what it has read
  child,       \* where ghidra_opt is in readCommand and doit
  sent,        \* number of commands written
  results      \* history: per returned command, its outcome and its text

vars == <<toChild, fromChild, stdin, client, child, sent, results>>

Burst(name) == [burst |-> name, data |-> <<>>]
Data(content) == [burst |-> "data", data |-> content]
StringStream(content) == <<Burst("string"), Data(content), Burst("stringEnd")>>
-----------------------------------------------------------------------------
(***************************************************************************)
(* The decompiler's queries: their packed payloads and how it reads the    *)
(* answers (ghidra_arch.cc).                                               *)
(***************************************************************************)
ElementOf ==
  [isNameUsed |-> 239, getBytes |-> 240, getCallFixup |-> 241, getCallMech |-> 242,
   getCallOtherFixup |-> 243, getCodeLabel |-> 244, getComments |-> 245, getCPoolRef |-> 246,
   getDatatype |-> 247, getExternalRef |-> 248, getMappedSymbols |-> 249,
   getNamespacePath |-> 250, getPcode |-> 251, getPcodeExecutable |-> 252,
   getRegister |-> 253, getRegisterName |-> 254, getStringData |-> 255,
   getTrackedRegisters |-> 256, getUserOpName |-> 257, unsupported |-> 300]

Attributes(q) ==
  CASE q.kind \in {"getCodeLabel", "getMappedSymbols", "getExternalRef",
                   "getTrackedRegisters", "getPcode"}
         -> EncodeAddrElement(RamSpace, q.addr)
    [] q.kind \in {"getBytes", "getRegisterName"}
         -> EncodeAddrElementSize(RamSpace, q.addr, q.size)
    [] q.kind = "getComments"
         -> EncodeAttribute(ATYPE, UNSIGNED_INT, 63) \o EncodeAddrElement(RamSpace, q.addr)
    [] q.kind = "getStringData"
         -> EncodeAttribute(MAXSIZE, POSITIVE_INT, q.size)
              \o EncodeStringAttribute(ATYPE, q.name)
              \o EncodeAttribute(ID, UNSIGNED_INT, 77) \o EncodeAddrElement(RamSpace, q.addr)
    [] q.kind = "isNameUsed"
         -> EncodeStringAttribute(NAME, q.name)
              \o EncodeAttribute(FIRST, UNSIGNED_INT, q.addr)
              \o EncodeAttribute(LAST, UNSIGNED_INT, q.size)
    [] q.kind = "getDatatype"
         -> EncodeStringAttribute(NAME, q.name) \o EncodeAttribute(ID, POSITIVE_INT, 77)
    [] q.kind \in {"getRegister", "getCallFixup", "getCallMech", "getCallOtherFixup",
                   "getPcodeExecutable"}
         -> EncodeStringAttribute(NAME, q.name)
    [] OTHER -> EncodeAttribute(ID, POSITIVE_INT, q.size)

Payload(q) ==
  EncodeHeader(ELEMENT_START, ElementOf[q.kind]) \o Attributes(q)
    \o EncodeHeader(ELEMENT_END, ElementOf[q.kind])

QueryFrame(q) ==
  <<Burst("query")>> \o StringStream(Payload(q)) \o <<Burst("queryEnd")>>

Names(frame) == [i \in DOMAIN frame |-> frame[i].burst]
TextAnswer == <<"qresponse", "string", "data", "stringEnd", "qresponseEnd">>
ByteAnswer == <<"qresponse", "bytes", "data", "bytesEnd", "qresponseEnd">>
EmptyAnswer == <<"qresponse", "qresponseEnd">>
ExceptionFrame ==
  <<"exception", "string", "data", "stringEnd", "string", "data", "stringEnd",
    "exceptionEnd">>

\* How the child takes an answer: it goes on, it throws JavaError, or it goes
\* on reading.  getStringData expects a size before the bytes and reads the
\* first of them as one.
Taken(q, frame) ==
  LET shape == Names(frame)
      reading == CASE q.kind \in {"isNameUsed", "getCodeLabel", "getRegisterName",
                                  "getUserOpName"} -> {TextAnswer}
                   [] q.kind \in {"getBytes"} -> {ByteAnswer}
                   [] q.kind = "getStringData" -> {EmptyAnswer}
                   [] OTHER -> {TextAnswer, EmptyAnswer}
  IN  IF shape \in reading THEN "ok"
      ELSE IF q.kind = "getStringData" /\ shape = ByteAnswer THEN "starved"
      ELSE "java"
-----------------------------------------------------------------------------
(***************************************************************************)
(* The client's answers (answer_query and the functions it calls).         *)
(***************************************************************************)
Answer(content) ==
  <<Burst("qresponse")>> \o StringStream(content) \o <<Burst("qresponseEnd")>>
AnswerEmpty == <<Burst("qresponse"), Burst("qresponseEnd")>>
AnswerBytes(bytes) ==
  <<Burst("qresponse"), Burst("bytes"), Data(bytes), Burst("bytesEnd"),
    Burst("qresponseEnd")>>
AnswerBool(value) == Answer(IF value THEN <<116>> ELSE <<102>>)
Exception(type, message) ==
  <<Burst("exception")>> \o StringStream(<<type>>) \o StringStream(<<message>>)
    \o <<Burst("exceptionEnd")>>

\* The exceptions' type names.
DataUnavailError == 1
RuntimeException == 2
Unsupported == 3


\* slice::binary_search: looks right only on a list in numeric order.
BinarySearch(list, value) ==
  LET search[lo \in 1 .. Len(list) + 1, hi \in 0 .. Len(list)] ==
        IF lo > hi THEN FALSE
        ELSE LET mid == (lo + hi) \div 2
             IN  IF list[mid] = value THEN TRUE
                 ELSE IF list[mid] < value THEN search[mid + 1, hi]
                 ELSE search[lo, mid - 1]
  IN  search[1, Len(list)]

\* BinaryBacking::read: an address without a byte has none to give; a read that
\* leaves what is mapped is filled with zeros.
ReadImage(address, size) ==
  IF address \notin DOMAIN Memory THEN None
  ELSE Some([i \in 1..size |-> IF address .. address + i - 1 \subseteq DOMAIN Memory
                               THEN Memory[address + i - 1] ELSE 0])

AnswerGetBytes(addr) ==
  LET bytes == ReadImage(addr.offset, addr.size)
  IN  IF bytes = None THEN Exception(DataUnavailError, addr.offset)
      ELSE AnswerBytes(bytes[1])

\* The symbol of a function: <doc><mapsym><function/><addr/><rangelist/>.
FunctionSymbol(addr) ==
  EncodeElement(DOC,
    EncodeAttribute(ID, UNSIGNED_INT, 0)
      \o EncodeElement(MAPSYM,
           EncodeElement(FUNCTION,
             EncodeAttribute(ID, UNSIGNED_INT, addr.offset)
               \o EncodeStringAttribute(NAME, FunctionName[addr.offset])
               \o EncodeAttribute(SIZE, POSITIVE_INT, 8)
               \o EncodeAddrElement(addr.space, addr.offset))
           \o EncodeAddrElementSize(addr.space, addr.offset, 8)
           \o EncodeElement(RANGELIST, <<>>)))

\* addr_cell: an entry as the store has it, in digits of base 16, which is what
\* its ORDER BY compares.
Cell(address) ==
  LET digits[n \in Nat] == IF n = 0 THEN <<>> ELSE Append(digits[n \div 16], n % 16)
      text == digits[address]
  IN  [i \in 1 .. CellDigits - Len(text) |-> 0] \o text

TextBelow(s, t) ==
  \E i \in DOMAIN t : /\ i <= Len(s) + 1
                      /\ SubSeq(s, 1, i - 1) = SubSeq(t, 1, i - 1)
                      /\ i > Len(s) \/ s[i] < t[i]

\* ProgramProvider.functions: the entries in the order of the store.
Functions == SetToSortSeq(DOMAIN FunctionName, LAMBDA a, b : TextBelow(Cell(a), Cell(b)))

AnswerGetMappedSymbols(addr) ==
  IF addr.space = RamSpace /\ BinarySearch(Functions, addr.offset)
  THEN Answer(FunctionSymbol(addr)) ELSE AnswerEmpty

AnswerCodeLabel(addr) ==
  Answer(IF addr.offset \in DOMAIN SymbolName THEN SymbolName[addr.offset]
         ELSE IF addr.offset \in DOMAIN FunctionName THEN FunctionName[addr.offset]
         ELSE <<>>)

UsedNames ==
  {FunctionName[a] : a \in DOMAIN FunctionName}
    \union {SymbolName[a] : a \in DOMAIN SymbolName}

\* A payload without a name asks for the empty name.
NameOrEmpty(name) == IF name = None THEN <<>> ELSE name[1]

AnswerNameUsed(name) == AnswerBool(NameOrEmpty(name) \in UsedNames)

AnswerDatatype(name) ==
  IF NameOrEmpty(name) \in Datatypes
  THEN Answer(EncodeElement(TYPE,
         EncodeStringAttribute(NAME, name[1]) \o EncodeAttribute(ID, UNSIGNED_INT, 1)
           \o EncodeAttribute(SIZE, POSITIVE_INT, 1)
           \o EncodeStringAttribute(METATYPE, <<105>>)))
  ELSE AnswerEmpty

AnswerExternalRef(addr) ==
  IF addr.offset \in DOMAIN Externals
  THEN Answer(EncodeElement(EXTERNREFSYMBOL,
         EncodeStringAttribute(NAME, Externals[addr.offset])
           \o EncodeAddrElement(RamSpace, addr.offset)))
  ELSE AnswerEmpty

EncodeComment(function, comment) ==
  EncodeElement(COMMENT,
    EncodeStringAttribute(ATYPE, comment.type) \o EncodeAddrElement(RamSpace, function)
      \o EncodeAddrElement(RamSpace, comment.address)
      \o EncodeElement(TEXT, EncodeStringAttribute(CONTENT, comment.text)))

AnswerComments(addr) ==
  LET comments == IF addr.offset \in DOMAIN Comments THEN Comments[addr.offset] ELSE <<>>
  IN  Answer(EncodeElement(COMMENTDB,
        FlattenSeq([i \in DOMAIN comments |-> EncodeComment(addr.offset, comments[i])])))

AnswerGetRegister(name) ==
  IF name[1] \in DOMAIN Registers
  THEN Answer(EncodeAddrElementSize(RegisterSpace, Registers[name[1]].offset,
                                    Registers[name[1]].size))
  ELSE Exception(RuntimeException, Len(name[1]))

\* The first register found with that storage: names that share one are told
\* apart by the order of a hash map.
AnswerGetRegisterName(addr) ==
  LET found == {n \in DOMAIN Registers : Registers[n].offset = addr.offset
                                           /\ Registers[n].size = addr.size}
  IN  Answer(IF found = {} THEN <<>> ELSE CHOOSE n \in found : TRUE)

AnswerTrackedPointset == Answer(EncodeElement(TRACKED_POINTSET, <<>>))

\* The string, or the memory there, up to its NUL and the size asked for, which
\* counts if it is a size, and never for more than the megabyte.
AnswerStringData(addr, maxSize) ==
  LET asked == IF maxSize = None THEN 4096 ELSE IF maxSize[1] < 0 THEN 4096 ELSE maxSize[1]
      limit == Min({asked, 1024 * 1024})
      memory == ReadImage(addr.offset, limit)
      bytes == IF addr.offset \in DOMAIN Strings THEN Strings[addr.offset]
               ELSE IF memory = None THEN <<>> ELSE memory[1]
      ends == {i \in DOMAIN bytes : bytes[i] = 0} \union {limit + 1, Len(bytes) + 1}
  IN  AnswerBytes(SubSeq(bytes, 1, Min(ends) - 1))

\* answer_query on a payload; None is WorkerError::Protocol.
AnswerQuery(payload) ==
  LET id == DecodeRootElementId(payload)
      addr == DecodeAddrElement(payload)
      name == FindNameAttribute(payload)
      At(answer(_)) == IF addr = None THEN None ELSE Some(answer(addr[1]))
      Is(kind) == id = Some(ElementOf[kind])
  IN  CASE id = None -> None
        [] Is("getBytes") -> At(AnswerGetBytes)
        [] Is("getMappedSymbols") -> At(AnswerGetMappedSymbols)
        [] Is("getCodeLabel") -> At(AnswerCodeLabel)
        [] Is("getComments") -> At(AnswerComments)
        [] Is("getRegisterName") -> At(AnswerGetRegisterName)
        [] Is("getStringData")
             -> At(LAMBDA a : AnswerStringData(a, FindNumericAttribute(payload, MAXSIZE)))
        [] Is("isNameUsed") -> Some(AnswerNameUsed(name))
        [] Is("getDatatype") -> Some(AnswerDatatype(name))
        [] Is("getExternalRef") -> At(AnswerExternalRef)
        [] Is("getRegister") -> IF name = None THEN None
                                ELSE Some(AnswerGetRegister(name))
        [] \E kind \in {"getCallFixup", "getCallMech", "getCallOtherFixup", "getCPoolRef",
                        "getNamespacePath", "getPcode", "getPcodeExecutable"} : Is(kind)
             -> Some(AnswerEmpty)
        [] Is("getUserOpName") -> Some(Answer(<<>>))
        [] Is("getTrackedRegisters") -> Some(AnswerTrackedPointset)
        [] OTHER -> Some(<<Burst("exception")>> \o StringStream(<<Unsupported>>)
                           \o <<Burst("exceptionEnd")>>)
-----------------------------------------------------------------------------
Reading == {"loop", "query", "payload", "warnings", "text", "close", "exception"}

NoQuery == [kind |-> "unsupported", addr |-> 0, size |-> 0, name |-> <<>>]

Init ==
  /\ toChild = <<>> /\ fromChild = <<>> /\ stdin = TRUE
  /\ client = [pc |-> "idle", inResponse |-> FALSE, after |-> "loop",
               text |-> <<>>, error |-> "none"]
  /\ child = [pc |-> "ready", back |-> "run", query |-> NoQuery, asked |-> 0,
              command |-> 0]
  /\ sent = 0 /\ results = <<>>

Goto(pc) == client' = [client EXCEPT !.pc = pc]
Fail(error) ==
  /\ client' = [client EXCEPT !.pc = "failed", !.error = error]
  /\ results' = Append(results, [ok |-> FALSE, text |-> <<>>])
Return ==
  /\ client' = [client EXCEPT !.pc = "idle"]
  /\ results' = Append(results, [ok |-> TRUE, text |-> client.text])
-----------------------------------------------------------------------------
(***************************************************************************)
(* The client: run_command and the readers it calls.                       *)
(***************************************************************************)
CommandFrame(n) ==
  <<Burst("command")>> \o StringStream(<<n>>) \o <<Burst("commandEnd")>>

\* Fault: the text of the last command is kept.
RunCommandKeepsText ==
  /\ client.pc = "idle" /\ sent < MaxCommands /\ child.pc # "exited"
  /\ sent' = sent + 1
  /\ toChild' = toChild \o CommandFrame(sent + 1)
  /\ client' = [client EXCEPT !.pc = "loop", !.inResponse = FALSE]
  /\ UNCHANGED <<results, fromChild, stdin, child>>

RunCommand ==
  /\ client.pc = "idle" /\ sent < MaxCommands
  /\ sent' = sent + 1
  /\ \/ /\ child.pc # "exited"
        /\ toChild' = toChild \o CommandFrame(sent + 1)
        /\ client' = [client EXCEPT !.pc = "loop", !.inResponse = FALSE,
                                    !.text = <<>>]
        /\ UNCHANGED results
     \/ child.pc = "exited" /\ Fail("io") /\ UNCHANGED toChild
  /\ UNCHANGED <<fromChild, stdin, child>>

Read(burst) ==
  /\ fromChild # <<>>
  /\ fromChild[1].burst = burst
  /\ fromChild' = Tail(fromChild)
  /\ UNCHANGED <<toChild, stdin, child, sent>>

\* The arms of run_command's loop.
LoopReads ==
  /\ client.pc = "loop"
  /\ UNCHANGED results
  /\ \/ /\ Read("query")
        /\ client' = [client EXCEPT !.pc = "query", !.after = "loop"]
     \/ /\ Read("response")
        /\ client' = [client EXCEPT !.inResponse = TRUE]
     \/ Read("string") /\ client.inResponse /\ Goto("payload")
     \/ Read("warnings") /\ client.inResponse /\ Goto("text")
     \/ Read("exception") /\ Goto("exception")

\* read_string_payload: queries are answered in the middle of the result.
PayloadReads ==
  /\ client.pc = "payload"
  /\ UNCHANGED results
  /\ \/ /\ Read("data")
        /\ client' = [client EXCEPT !.text = @ \o fromChild[1].data]
     \/ /\ Read("query")
        /\ client' = [client EXCEPT !.pc = "query", !.after = "payload"]
     \/ Read("stringEnd") /\ Goto("warnings")

Accepted ==
  CASE client.pc = "payload" -> {"data", "query", "stringEnd"}
    [] client.pc = "loop" /\ client.inResponse
         -> {"query", "response", "exception", "string", "warnings"}
    [] OTHER -> {"query", "response", "exception"}

\* Any other burst, in either loop.
Rejects ==
  /\ client.pc \in {"loop", "payload"} /\ fromChild # <<>>
  /\ fromChild[1].burst \notin Accepted
  /\ Read(fromChild[1].burst)
  /\ Fail("protocol")

\* answer_query: the query, whole in the pipe, and its answer.
AnswersQuery ==
  /\ client.pc = "query" /\ Len(fromChild) >= 4
  /\ fromChild' = SubSeq(fromChild, 5, Len(fromChild))
  /\ LET answer == AnswerQuery(fromChild[2].data)
     IN  \/ answer = None /\ Fail("protocol") /\ UNCHANGED toChild
         \/ answer # None /\ child.pc = "exited" /\ Fail("io") /\ UNCHANGED toChild
         \/ /\ answer # None /\ child.pc # "exited"
            /\ toChild' = toChild \o answer[1]
            /\ Goto(client.after)
            /\ UNCHANGED results
  /\ UNCHANGED <<stdin, child, sent>>

\* Fault: the end of the warnings is taken for the end of the response.
ReadsWarningsOnly ==
  \/ client.pc = "warnings" /\ Read("warnings") /\ Goto("close") /\ UNCHANGED results
  \/ client.pc \in {"text", "close"} /\ Read("data") /\ UNCHANGED <<client, results>>
  \/ client.pc \in {"text", "close"} /\ Read("warningsEnd") /\ Return

\* After the result: the warnings, which are dropped, and the closer.  Without
\* a result the warnings are the command's answer.
ReadsWarnings ==
  \/ /\ client.pc = "warnings"
     /\ Read("warnings") /\ Goto("close") /\ UNCHANGED results
  \/ /\ client.pc = "text"
     /\ Read("data") /\ UNCHANGED results
     /\ client' = [client EXCEPT !.text = fromChild[1].data]
  \/ /\ client.pc = "close"
     /\ Read("data") /\ UNCHANGED <<client, results>>
  \/ /\ client.pc \in {"text", "close"}
     /\ Read("warningsEnd") /\ Goto("close") /\ UNCHANGED results
  \/ /\ client.pc = "close"
     /\ Read("responseEnd") /\ Return

\* An exception's two strings and its closer.
ReadsException ==
  /\ client.pc = "exception" /\ Len(fromChild) >= 7
  /\ fromChild' = SubSeq(fromChild, 8, Len(fromChild))
  /\ Fail("decompiler")
  /\ UNCHANGED <<toChild, stdin, child, sent>>

\* Fault: only run_command's own loop notices the end of the pipe.
EndOfFileInLoop ==
  /\ client.pc = "loop" /\ child.pc = "exited" /\ fromChild = <<>>
  /\ Fail("process")
  /\ UNCHANGED <<toChild, fromChild, stdin, child, sent>>

EndOfFile ==
  /\ client.pc \in Reading /\ child.pc = "exited"
  /\ fromChild = <<>> \/ (client.pc = "query" /\ Len(fromChild) < 4)
  /\ Fail("process")
  /\ UNCHANGED <<toChild, fromChild, stdin, child, sent>>

\* Drop: stdin is closed first, then the child is waited for.
Drop ==
  /\ client.pc \in {"idle", "failed"}
  /\ stdin' = FALSE /\ Goto("dropping")
  /\ UNCHANGED <<toChild, fromChild, child, sent, results>>

Dropped ==
  /\ client.pc = "dropping" /\ child.pc = "exited"
  /\ Goto("gone")
  /\ UNCHANGED <<toChild, fromChild, stdin, child, sent, results>>

ClientStep ==
  \/ LoopReads \/ PayloadReads \/ Rejects \/ AnswersQuery
  \/ ReadsWarnings \/ ReadsException \/ EndOfFile \/ Dropped
  \/ (client.pc = "failed" /\ Drop)
-----------------------------------------------------------------------------
(***************************************************************************)
(* The child: readCommand and doit (ghidra_process.cc).                    *)
(***************************************************************************)
Write(frame) == fromChild' = fromChild \o frame
ToPc(pc) == child' = [child EXCEPT !.pc = pc]

\* Everything before the next command burst is skipped.
ReadCommand ==
  /\ child.pc = "ready" /\ toChild # <<>>
  /\ LET begins == {i \in DOMAIN toChild : toChild[i].burst = "command"}
         i == CHOOSE i \in begins : \A j \in begins : i <= j
     IN  \/ begins = {} /\ toChild' = <<>> /\ UNCHANGED <<fromChild, child>>
         \/ /\ begins # {}
            /\ toChild' = SubSeq(toChild, i + 5, Len(toChild))
            /\ child' = [child EXCEPT !.pc = "run", !.asked = 0,
                                      !.command = toChild[i + 2].data[1]]
            /\ Write(<<Burst("response")>>)
  /\ UNCHANGED <<stdin, client, sent, results>>

Ask(q) ==
  /\ child.pc \in {"run", "result"} /\ child.asked < MaxQueries
  /\ child' = [child EXCEPT !.pc = "await", !.back = child.pc, !.query = q,
                            !.asked = @ + 1]
  /\ Write(QueryFrame(q))
  /\ UNCHANGED <<toChild, stdin, client, sent, results>>

OpenResult ==
  /\ child.pc = "run" /\ ToPc("result")
  /\ Write(<<Burst("string"), Data(<<child.command, 1>>)>>)
  /\ UNCHANGED <<toChild, stdin, client, sent, results>>

WarningFrame ==
  <<Burst("warnings"), Data(<<child.command, 3>>), Burst("warningsEnd"),
    Burst("responseEnd")>>
JavaException ==
  <<Burst("exception")>> \o StringStream(<<0>>) \o StringStream(<<0>>)
    \o <<Burst("exceptionEnd")>>

CloseResult ==
  /\ child.pc = "result" /\ ToPc("ready")
  /\ Write(<<Data(<<child.command, 2>>), Burst("stringEnd")>> \o WarningFrame)
  /\ UNCHANGED <<toChild, stdin, client, sent, results>>

\* A LowlevelError is caught and its message sent as a warning, wherever the
\* result stood; a JavaError cancels the response.
Throws ==
  /\ child.pc \in {"run", "result"} /\ ToPc("ready")
  /\ Write(WarningFrame) \/ Write(JavaException)
  /\ UNCHANGED <<toChild, stdin, client, sent, results>>

TakeAnswer ==
  /\ child.pc = "await" /\ toChild # <<>>
  /\ toChild' = <<>>
  /\ \/ Taken(child.query, toChild) = "ok" /\ ToPc(child.back) /\ UNCHANGED fromChild
     \/ Taken(child.query, toChild) = "starved" /\ ToPc("starved")
        /\ UNCHANGED fromChild
     \/ /\ Taken(child.query, toChild) = "java" /\ ToPc("ready")
        /\ Write(WarningFrame) \/ Write(JavaException)
  /\ UNCHANGED <<stdin, client, sent, results>>

ChildReading == {"ready", "await", "starved"}
EndOfInput ==
  /\ child.pc \in ChildReading /\ toChild = <<>> /\ ~stdin
  /\ ToPc("exited")
  /\ UNCHANGED <<toChild, fromChild, stdin, client, sent, results>>

Crash ==
  /\ child.pc # "exited" /\ ToPc("exited") /\ toChild' = <<>>
  /\ UNCHANGED <<fromChild, stdin, client, sent, results>>

ChildStep ==
  \/ ReadCommand \/ OpenResult \/ CloseResult \/ Throws \/ TakeAnswer \/ EndOfInput
  \/ \E q \in Queries : Ask(q)

Next == RunCommand \/ Drop \/ ClientStep \/ ChildStep \/ Crash

Spec == Init /\ [][Next]_vars
\* run_command reads on, and ghidra_opt computes on while it may.
FairSpec == Spec /\ WF_vars(ClientStep) /\ WF_vars(ChildStep)
-----------------------------------------------------------------------------
(***************************************************************************)
(* What the two owe each other.                                            *)
(***************************************************************************)
\* A command that returned text left nothing behind: no burst of its response
\* or of an answer is in a pipe when the next command is written, so that the
\* next response is read from its first burst (expect_burst of the closers).
InSync ==
  client.pc = "idle" /\ child.pc # "exited" =>
    toChild = <<>> /\ fromChild = <<>> /\ child.pc = "ready"

\* The text of a command is its own child's result for that command, both
\* halves of it when a query interrupts it, or that command's warnings; never
\* a part of another command's (read_string_payload, in_response).
ResultsAreOwn ==
  \A n \in DOMAIN results : results[n].ok =>
    results[n].text \in {<<n, 1, n, 2>>, <<n, 3>>}

Asked(kind) == client.pc = "query" /\ child.pc = "await" /\ child.query.kind = kind
Answered == client.pc = "query" /\ client'.pc = client.after

Payloads(frame) == {frame[i].data : i \in {j \in DOMAIN frame : frame[j].burst = "data"}}
Served(data) == Answered /\ Payloads(toChild') = {data}

\* The order of the entries' text is that of the entries.
InNumericOrder == \A i, j \in DOMAIN Functions : i < j => Functions[i] < Functions[j]

\* find_name_attribute does not skip the value of an attribute that is no name:
\* it takes each byte of one for a header, and for no more than the end of an
\* element only if the group is below 32.
PlainId(id) ==
  \A byte \in ToSet(EncodePackedInt(id)) : Tag(byte) = ELEMENT_END /\ ~Extended(byte)


\* The entries are taken for sorted ("Function entry addresses, sorted.",
\* provider.rs), so that every function is found: refuted where the text of one
\* is longer than another's.
FunctionsAreKnown ==
  [][Asked("getMappedSymbols") /\ client' # client
       /\ child.query.addr \in DOMAIN FunctionName => Payloads(toChild') # {}]_vars

\* "Answers `isNameUsed` from all durable function and symbol names."
\* (provider.rs), whatever the scopes' ids: refuted by an id with a group of 32
\* or more.
NamesAreKnown ==
  [][Asked("isNameUsed") /\ client' # client =>
       Served(IF child.query.name \in UsedNames THEN <<116>> ELSE <<102>>)]_vars

\* A string of the program the decompiler asks for is served: "Returns UTF-8
\* string bytes using the exact A-biased byte-stream shape consumed by
\* ArchitectureGhidra::getStringData." (provider.rs).
StringDataAnswered ==
  [][Asked("getStringData") /\ client' # client /\ child.pc # "exited"
       => Answered /\ Taken(child.query, toChild') = "ok"]_vars

\* A command returns, with text or with an error, once it is written: the two
\* ends never both wait for the other to write, and no query, exception or
\* death of the child leaves run_command reading.  And drop ends: closing stdin
\* ends the child, which the drop waits for, in whatever state the last command
\* left it.
CommandEnds ==
  /\ client.pc \in Reading ~> client.pc \notin Reading
  /\ client.pc = "dropping" ~> client.pc = "gone"
=============================================================================
