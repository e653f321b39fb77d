----------------------------- MODULE MCAnalyses -----------------------------
(***************************************************************************)
(* The parts of the Core that compute from bytes and tables alone, each    *)
(* over a family of inputs: a file is opened and patched (ProgramImage),   *)
(* or a decompiler document (DocTokens) or a function (FlowGraph) is taken *)
(* as the sample.                                                          *)
(***************************************************************************)
EXTENDS ProgramImage, DocTokens, FlowGraph

CONSTANT RawSizes   \* the raw sizes of a PE section of four bytes

VARIABLE sample     \* the document or function, or NoSample

NoSample == [is |-> "none"]

(***************************************************************************)
(* Files.  Every byte of a file tells its offset.                          *)
(***************************************************************************)
Data(n) == [i \in 1..n |-> i]

\* The RELR table a linker makes for a set of word-aligned places.
RelrTable(places) ==
  LET encode[S \in SUBSET Int, cursor \in Int] ==
        IF S = {} THEN <<>>
        ELSE LET first == CHOOSE p \in S : \A q \in S : p <= q
                 near == {p \in S : cursor # -1 /\ p < cursor + BitsPerBitmap * WordBytes}
                 bits == {(p - cursor) \div WordBytes + 1 : p \in near}
             IN  IF near = {} THEN <<first>> \o encode[S \ {first}, first + WordBytes]
                 ELSE <<FoldLeft(LAMBDA w, b : w + 2 ^ b, 1, SetToSeq(bits))>>
                        \o encode[S \ near, cursor + BitsPerBitmap * WordBytes]
  IN  [relr |-> TRUE, records |-> encode[places, -1]]

\* A RELA table, with a linkage slot and a record of a type that is left alone.
RelaTable(places) ==
  LET relative == {[place |-> p, type |-> "relative", addend |-> places[p]] : p \in DOMAIN places}
      linkage == [place |-> 20, type |-> "linkage", symbol |-> Just("puts")]
      other == [place |-> 1000, type |-> "other"]
  IN  [relr |-> FALSE, records |-> <<linkage, other>> \o SetToSeq(relative)]

Text == [addr |-> 4, size |-> 4, off |-> 0, alloc |-> TRUE, nobits |-> FALSE, code |-> TRUE]
Words(nobits) ==
  [addr |-> 16, size |-> 48, off |-> 4, alloc |-> TRUE, nobits |-> nobits, code |-> FALSE]
Notes == [addr |-> 0, size |-> 4, off |-> 0, alloc |-> FALSE, nobits |-> FALSE, code |-> FALSE]

ElfFile(header, be, nobits, places, table) ==
  [format |-> ELF, data |-> Data(52), rawBase |-> Nothing, dynamic |-> header[1],
   firstLoad |-> header[2], be |-> be, sections |-> <<Notes, Text, Words(nobits)>>,
   places |-> places, tables |-> <<table>>]

RelrFiles ==
  {ElfFile(h, FALSE, nobits, [p \in S |-> Nothing], RelrTable(S)) :
     h \in {<<FALSE, 0>>, <<TRUE, 0>>, <<TRUE, 4>>}, nobits \in BOOLEAN,
     S \in SUBSET {16, 18, 22, 46, 48, 62}}
RelaPlaces ==
  UNION {[S -> {Nothing, Just(2), Just(65535)}] :
           S \in {{}, {16}, {17, 19}, {17, 18}, {4, 30}, {63}, {62}}}
RelaFiles ==
  {ElfFile(<<TRUE, 0>>, be, nobits, places, RelaTable(places)) :
     be \in BOOLEAN, nobits \in BOOLEAN, places \in RelaPlaces}

PeSection(addr, size, off, raw) ==
  [addr |-> addr, size |-> size, off |-> off, raw |-> raw, code |-> FALSE]
PeFiles ==
  {[format |-> PE, data |-> Data(16), rawBase |-> Nothing, base |-> 32, places |-> <<>>,
    sections |-> <<PeSection(0, 4, 2, raw), PeSection(8, 3, 6, 4)>>] : raw \in RawSizes}

DolSection(addr, size, off, code) == [addr |-> addr, size |-> size, off |-> off, code |-> code]
DolFiles ==
  {[format |-> DOL, data |-> Data(16), header |-> 2, entry |-> 4, bss |-> bss,
    rawBase |-> IF bss[1] = 0 THEN Just(64) ELSE Nothing, places |-> <<>>,
    sections |-> <<DolSection(4, 3, 2, TRUE), DolSection(b, 2, 5, FALSE),
                   DolSection(c, 1, 9, FALSE)>>] :
     b \in {8, 12}, c \in {2, 9, 10, 14},
     bss \in {<<0, 5>>, <<0, 11>>, <<0, 20>>, <<5, 11>>, <<5, 20>>, <<9, 11>>, <<13, 20>>}}

Files == RelrFiles \cup RelaFiles \cup PeFiles \cup DolFiles

(***************************************************************************)
(* Documents of one and two elements, and functions of three instructions  *)
(* of every flow or of five with conditional jumps.                        *)
(***************************************************************************)
Nodes ==
  [id : {BREAK, FUNCNAME, 300}, name : {None, Some(<<65>>)}, address : {None, Some(<<3, 200>>)},
   ref : {None, Some(7)}, text : {None, Some(<<72, 105>>)}]
Documents == UNION {[1..n -> Nodes] : n \in 1..2}

Instructions(flows, targets) == [len : {1}, flow : flows, to : targets]
Functions3 ==
  [0..2 -> Instructions({"next", "stop", "bad"}, {0}) \cup Instructions({"jump", "cond"}, 0..2)
             \cup Instructions({"call"}, {0, 9})]
Functions5 == [0..4 -> Instructions({"next", "stop"}, {0}) \cup Instructions({"cond"}, {0, 3, 4})]
Walks == (Functions3 \X {0, 1} \X {9}) \cup (Functions5 \X {0} \X {3, 9})

MCInit == ImageInit /\ sample = NoSample

OpenFile == sample = NoSample /\ (\E f \in Files : Open(f)) /\ UNCHANGED sample
PatchImage ==
  (\E v \in {34, 279}, bytes \in {<<200>>, <<201, 202>>} : Patch(v, bytes)) /\ UNCHANGED sample
TakeDocument ==
  /\ file = NoFile /\ sample = NoSample
  /\ \E d \in Documents : sample' = [is |-> "document", nodes |-> d]
  /\ UNCHANGED imageVars
TakeFunction ==
  /\ file = NoFile /\ sample = NoSample
  /\ \E w \in Walks :
       sample' = [is |-> "function", program |-> w[1], entry |-> w[2], max |-> w[3]]
  /\ UNCHANGED imageVars

MCNext == OpenFile \/ PatchImage \/ TakeDocument \/ TakeFunction
MCSpec == MCInit /\ [][MCNext]_<<imageVars, sample>>

\* The tokens of a document are its own, of the whole and of every part of it
\* that a cut leaves (decode_tokens_with_ram_space).
DocumentTokens ==
  sample.is = "document" =>
    /\ TokensAreOwn(sample.nodes)
    /\ \A n \in 0 .. Len(EncodeDoc(sample.nodes)) : CutKeepsTokens(sample.nodes, n)

\* The graph of a function has each of its transfers once (basic_blocks).
FunctionEdges ==
  sample.is = "function" => TransfersAreDrawn(sample.program, sample.entry, sample.max)

\* Its layout puts no two boxes in one place, no box below a rank that does not
\* lead to it, and no block aside if the function starts at its lowest block
\* (layered_layout).
FunctionLayers ==
  sample.is = "function" =>
    LayoutIsLayered(BasicBlocks(sample.program, sample.entry, sample.max), sample.entry)

\* What the comment on the ranks says, where it can be said of every block: a
\* rank is one more than the greatest rank of a predecessor (layered_layout).
LongestLayers ==
  sample.is = "function" =>
    RanksAreLongest(BasicBlocks(sample.program, sample.entry, sample.max))

\* What it says of the first rank: the layers start at the entry
\* (layered_layout).
EntryLayer ==
  sample.is = "function" =>
    EntryIsFirst(BasicBlocks(sample.program, sample.entry, sample.max), sample.entry)
=============================================================================
