---------------------------- MODULE ProgramImage ----------------------------
(***************************************************************************)
(* The memory image of a program: what the loaders make of a file (ELF and *)
(* its relative relocations, PE sections, DOL sections and BSS, or raw     *)
(* bytes at a base), and ProgramImage, which reads windows of it straight  *)
(* from the file with relocations and patches laid over.                   *)
(*                                                                         *)
(* A file is given as its parsed tables and its bytes; addresses and file  *)
(* offsets count from 0.  Symbols, names and languages are left out but    *)
(* for the imported names of linkage slots.                                *)
(***************************************************************************)
EXTENDS Integers, Sequences, FiniteSets, SequencesExt

CONSTANTS
  WordBytes,      \* width: the bytes of a word of the target
  DefaultBase,    \* where a position-independent file without a base is put
  AddressLimit,   \* the end of the target's address space
  MaxPatches      \* bound: patches of one image

ASSUME WordAssumption == WordBytes \in 1 .. 8

VARIABLES
  file,      \* the file that was opened, or NoFile
  image,     \* what open_with_raw_base returned
  patches    \* ProgramImage.patches: start |-> bytes

imageVars == <<file, image, patches>>

NoFile == [format |-> "none"]
Nothing == <<>>
Just(x) == <<x>>
Bad == [ok |-> FALSE]
ELF == "elf"
PE == "pe"
DOL == "dol"

Within(address, length, m) == address >= m.vaddr /\ address + length <= m.vaddr + m.size
Slice(data, off, size) == SubSeq(data, off + 1, off + size)
FirstIndex(s, Test(_)) ==
  LET hits == {i \in DOMAIN s : Test(s[i])}
  IN  IF hits = {} THEN 0 ELSE CHOOSE i \in hits : \A j \in hits : i <= j

(***************************************************************************)
(* ELF.                                                                    *)
(***************************************************************************)

Weight(i, be) == 256 ^ (IF be THEN WordBytes - i ELSE i - 1)
WordOf(bytes, be) ==
  FoldLeft(LAMBDA sum, i : sum + bytes[i] * Weight(i, be), 0, [i \in 1..WordBytes |-> i])
BytesOf(value, be) == [i \in 1..WordBytes |-> (value \div Weight(i, be)) % 256]
WordLimit == 256 ^ WordBytes

\* elf_bases: the relocation delta.
Bias(f) == IF f.dynamic /\ f.firstLoad = 0 THEN DefaultBase ELSE 0

\* The mappings of the allocated sections; the bytes are none for a section
\* that has none or whose bytes are not in the file.
ElfMappings(f) ==
  LET bytes(s) == IF s.nobits \/ s.off + s.size > Len(f.data) THEN <<>>
                  ELSE Slice(f.data, s.off, s.size)
      allocated == SelectSeq(f.sections, LAMBDA s : s.alloc /\ s.size # 0)
  IN  [i \in DOMAIN allocated |->
        LET s == allocated[i] IN
          [vaddr |-> s.addr + Bias(f), size |-> s.size, off |-> s.off,
           code |-> s.code, bytes |-> bytes(s)]]

\* apply: one relative relocation, in the mapping's bytes and in the list of
\* relocations; a pointer into code is a candidate for discovery.
Apply(import, address, addend, f) ==
  LET at == FirstIndex(import.mappings, LAMBDA m : Within(address, WordBytes, m))
      m == import.mappings[at]
      offset == address - m.vaddr
      inPlace == IF m.bytes = <<>> THEN 0
                 ELSE WordOf(Slice(m.bytes, offset, WordBytes), f.be)
      value == (Bias(f) + (IF addend = Nothing THEN inPlace ELSE addend[1])) % WordLimit
      word == BytesOf(value, f.be)
      code == \E k \in DOMAIN import.mappings :
                import.mappings[k].code /\ Within(value, 1, import.mappings[k])
  IN  IF ~import.ok \/ at = 0 THEN Bad
      ELSE [import EXCEPT
        !.mappings[at].bytes =
          [i \in DOMAIN @ |-> IF i \in offset + 1 .. offset + WordBytes
                              THEN word[i - offset] ELSE @[i]],
        !.relocations = Append(@, [address |-> address, bytes |-> word]),
        !.xrefs = @ \cup {<<address, value>>},
        !.candidates = IF code THEN @ \cup {value} ELSE @]

BitsPerBitmap == 8 * WordBytes - 1

\* Fault: a bitmap moves on by a whole word's bits.
AfterBitmapWide(cursor) == cursor + (BitsPerBitmap + 1) * WordBytes

AfterBitmap(cursor) == cursor + BitsPerBitmap * WordBytes

\* One word of a RELR table: an even word is a place, an odd one the bitmap of
\* the words that follow the cursor.
ApplyRelr(state, word, f) ==
  LET cursor == state.next[1]
      bit(import, b) ==
        IF (word \div 2 ^ b) % 2 = 1
        THEN Apply(import, cursor + (b - 1) * WordBytes + Bias(f), Nothing, f)
        ELSE import
  IN  IF word % 2 = 0
      THEN [import |-> Apply(state.import, word + Bias(f), Nothing, f),
            next |-> Just(word + WordBytes)]
      ELSE IF state.next = Nothing THEN [state EXCEPT !.import = Bad]
      ELSE [import |-> FoldLeft(bit, state.import, [b \in 1..BitsPerBitmap |-> b]),
            next |-> Just(AfterBitmap(cursor))]

\* One REL or RELA record: a linkage slot names what is imported there, a
\* relative one is applied, any other is left alone.
ApplyRecord(import, record, f) ==
  LET address == record.place + Bias(f)
  IN  CASE ~import.ok -> Bad
        [] record.type = "relative" -> Apply(import, address, record.addend, f)
        [] record.type = "linkage" /\ record.symbol # Nothing ->
             IF \E i \in DOMAIN import.mappings : Within(address, WordBytes, import.mappings[i])
             THEN [import EXCEPT !.externals = @ \cup {<<address, record.symbol[1]>>}]
             ELSE Bad
        [] OTHER -> import

ApplyTable(import, table, f) ==
  IF table.relr
  THEN FoldLeft(LAMBDA state, word : IF state.import.ok THEN ApplyRelr(state, word, f) ELSE state,
                [import |-> import, next |-> Nothing], table.records).import
  ELSE FoldLeft(LAMBDA i, record : ApplyRecord(i, record, f), import, table.records)

\* elf_image::prepare, after the parts of import_elf it works on.
ElfImport(f) ==
  LET mappings == ElfMappings(f)
      import == FoldLeft(LAMBDA i, table : ApplyTable(i, table, f),
        [ok |-> TRUE, mappings |-> mappings, relocations |-> <<>>, xrefs |-> {},
         candidates |-> {}, externals |-> {}], f.tables)
      sorted == SortSeq(import.relocations, LAMBDA a, b : a.address < b.address)
      apart == \A i \in 1 .. Len(sorted) - 1 :
                 sorted[i + 1].address - sorted[i].address >= WordBytes
      fits == \A i \in DOMAIN mappings : mappings[i].vaddr + mappings[i].size <= AddressLimit
  IN  IF mappings = <<>> \/ ~fits \/ ~import.ok THEN Bad
      ELSE IF ~apart THEN Bad
      ELSE [import EXCEPT !.relocations = sorted]

(***************************************************************************)
(* PE and DOL.                                                             *)
(***************************************************************************)

\* import_pe: a section's bytes are its raw data, cut or filled with zeros to
\* its virtual size.
PeImport(f) ==
  LET raw(s) == IF s.off + s.raw > Len(f.data) THEN <<>> ELSE Slice(f.data, s.off, s.raw)
      sections == SelectSeq(f.sections, LAMBDA s : s.size # 0)
      mapping(s) == [vaddr |-> f.base + s.addr, size |-> s.size, off |-> s.off, code |-> s.code,
                     bytes |-> [i \in 1..s.size |-> IF i <= Len(raw(s)) THEN raw(s)[i] ELSE 0]]
  IN  IF sections = <<>> THEN Bad
      ELSE [ok |-> TRUE, mappings |-> [i \in DOMAIN sections |-> mapping(sections[i])],
            relocations |-> <<>>]

\* The parts of [start, end) no initialized section covers, up to a cursor.
Gaps(mappings, start, end) ==
  FoldLeft(LAMBDA s, m :
      IF s.cursor >= end \/ m.vaddr + m.size <= s.cursor \/ m.vaddr >= end THEN s
      ELSE [cursor |-> m.vaddr + m.size,
            gaps |-> IF s.cursor < m.vaddr THEN Append(s.gaps, <<s.cursor, m.vaddr>>)
                     ELSE s.gaps],
    [cursor |-> start, gaps |-> <<>>], mappings)

\* dol::import.
DolImport(f) ==
  LET used == SelectSeq(f.sections, LAMBDA s : s.size # 0)
      valid(i) == LET s == used[i] IN
        /\ s.addr + s.size <= AddressLimit
        /\ s.code => s.addr % 4 = 0
        /\ s.off >= f.header /\ s.off + s.size <= Len(f.data)
        /\ \A j \in 1 .. i - 1 :
             ~(s.addr < used[j].addr + used[j].size /\ used[j].addr < s.addr + s.size)
      mapping(s) == [vaddr |-> s.addr, size |-> s.size, off |-> s.off, code |-> s.code,
                     bytes |-> Slice(f.data, s.off, s.size)]
      Ascending(ms) == SortSeq(ms, LAMBDA a, b : a.vaddr < b.vaddr)
      mappings == Ascending([i \in DOMAIN used |-> mapping(used[i])])
      entered == f.entry % 4 = 0 /\ \E i \in DOMAIN used :
                   used[i].code /\ f.entry \in used[i].addr .. used[i].addr + used[i].size - 1
      walk == Gaps(mappings, f.bss[1], f.bss[2])
      gaps == IF walk.cursor < f.bss[2] THEN Append(walk.gaps, <<walk.cursor, f.bss[2]>>)
              ELSE walk.gaps
      zeros == [i \in DOMAIN gaps |->
                 [vaddr |-> gaps[i][1], size |-> gaps[i][2] - gaps[i][1], off |-> 0,
                  code |-> FALSE, bytes |-> <<>>]]
  IN  IF ~(\A i \in DOMAIN used : valid(i)) \/ ~entered \/ f.bss[2] > AddressLimit THEN Bad
      ELSE [ok |-> TRUE, mappings |-> Ascending(mappings \o zeros), relocations |-> <<>>]

(***************************************************************************)
(* ProgramImage.                                                           *)
(***************************************************************************)

\* parse_native: what is neither ELF nor PE is taken for a DOL.
ParseNative(f) ==
  CASE f.format = ELF -> ElfImport(f)
    [] f.format = PE -> PeImport(f)
    [] f.format = DOL -> DolImport(f)

\* open_with_raw_base, with an explicit base or Nothing.
OpenImage(f, rawBase) ==
  LET import == ParseNative(f)
      region(m) == [vaddr |-> m.vaddr, size |-> m.size, off |-> m.off, fileSize |-> Len(m.bytes)]
      whole == [vaddr |-> rawBase[1], size |-> Len(f.data), off |-> 0, fileSize |-> Len(f.data)]
  IN  IF import.ok
      THEN [ok |-> TRUE, relocations |-> import.relocations,
            regions |-> [i \in DOMAIN import.mappings |-> region(import.mappings[i])]]
      ELSE IF rawBase # Nothing /\ f.format = DOL
      THEN [ok |-> TRUE, relocations |-> <<>>, regions |-> <<whole>>]
      ELSE Bad

\* out, a window from v, with what of bytes at start lies in it copied over.
Overlay(out, v, start, bytes) ==
  [i \in DOMAIN out |->
    LET at == v + i - 1 IN
      IF at \in start .. start + Len(bytes) - 1 THEN bytes[at - start + 1] ELSE out[i]]

\* The partition point: no relocation is longer than eight bytes.
Reaches(r, v) == r.address >= v - 7

ReadRegion(region, v, n) ==
  LET at(i) == region.off + v - region.vaddr + i - 1
      bytes == [i \in 1..n |->
        IF at(i) < region.off + region.fileSize /\ at(i) < Len(file.data)
        THEN file.data[at(i) + 1] ELSE 0]
      near == SelectSeq(image.relocations, LAMBDA r : Reaches(r, v) /\ r.address < v + n)
      relocated == FoldLeft(LAMBDA out, r : Overlay(out, v, r.address, r.bytes), bytes, near)
  IN  FoldLeft(LAMBDA out, p : Overlay(out, v, p, patches[p]), relocated,
               SetToSortSeq(DOMAIN patches, <))

\* ProgramImage::read and read_into.
ReadImage(v, n) ==
  LET at == FirstIndex(image.regions, LAMBDA r : Within(v, n, r))
  IN  IF at = 0 THEN Nothing ELSE Just(ReadRegion(image.regions[at], v, n))

ImageInit ==
  /\ file = NoFile
  /\ image = Bad
  /\ patches = [a \in {} |-> <<>>]

Open(f) ==
  /\ file = NoFile
  /\ file' = f
  /\ image' = OpenImage(f, f.rawBase)
  /\ UNCHANGED patches

\* ProgramImage::patch; a second patch at an address replaces the first.
Patch(v, bytes) ==
  /\ image.ok
  /\ v \in DOMAIN patches \/ Cardinality(DOMAIN patches) < MaxPatches
  /\ patches' = [a \in DOMAIN patches \cup {v} |-> IF a = v THEN bytes ELSE patches[a]]
  /\ UNCHANGED <<file, image>>

(***************************************************************************)
(* What a program finds in memory, by definition.  A file also says which  *)
(* places its linker gave relative relocations, and with which addends     *)
(* (places), however its tables encode them.                               *)
(***************************************************************************)
Delta == IF file.format = ELF THEN Bias(file) ELSE IF file.format = PE THEN file.base ELSE 0

SectionRange(s) == s.addr + Delta .. s.addr + Delta + s.size - 1

\* A DOL whose sections are apart and in the file and whose text has its entry.
IsDol ==
  LET used == {i \in DOMAIN file.sections : file.sections[i].size # 0}
      at(i) == SectionRange(file.sections[i])
  IN  /\ \A i, j \in used : i # j => at(i) \cap at(j) = {}
      /\ \A i \in used : LET s == file.sections[i] IN
           s.off >= file.header /\ s.off + s.size <= Len(file.data) /\ (s.code => s.addr % 4 = 0)
      /\ file.entry % 4 = 0 /\ \E i \in used : file.sections[i].code /\ file.entry \in at(i)

\* Bytes of no format, with a base to put them at.
IsRaw == file.format = DOL /\ ~IsDol /\ file.rawBase # Nothing

\* The sections the program has in memory.
Present ==
  IF IsRaw THEN {[addr |-> file.rawBase[1], size |-> Len(file.data), off |-> 0, code |-> TRUE]}
  ELSE {s \in Range(file.sections) : s.size # 0 /\ (file.format = ELF => s.alloc)}

\* How many of a section's bytes the file has.
Filed(s) ==
  CASE file.format = ELF -> IF s.nobits \/ s.off + s.size > Len(file.data) THEN 0 ELSE s.size
    [] file.format = PE -> IF s.raw < s.size THEN s.raw ELSE s.size
    [] file.format = DOL -> s.size

FileByte(s, a) ==
  LET offset == a - (s.addr + Delta) IN
    IF offset < Filed(s) THEN file.data[s.off + offset + 1] ELSE 0

RelocatedWord(s, place) ==
  LET inPlace == WordOf([i \in 1..WordBytes |-> FileByte(s, place + Delta + i - 1)], file.be)
      addend == file.places[place]
  IN  BytesOf((Delta + (IF addend = Nothing THEN inPlace ELSE addend[1])) % WordLimit, file.be)

\* The byte at an address, by the latest-starting patch that covers it, the
\* relocation that does, the file, or zero.
LoadedByte(a) ==
  LET patched == {p \in DOMAIN patches : a \in p .. p + Len(patches[p]) - 1}
      relocated == {p \in DOMAIN file.places : a \in p + Delta .. p + Delta + WordBytes - 1}
      last == CHOOSE p \in patched : \A q \in patched : q <= p
      place == CHOOSE p \in relocated : TRUE
      section == CHOOSE s \in Present : a \in SectionRange(s)
  IN  IF patched # {} THEN patches[last][a - last + 1]
      ELSE IF \A s \in Present : a \notin SectionRange(s) THEN 0
      ELSE IF relocated # {} THEN RelocatedWord(section, place)[a - (place + Delta) + 1]
      ELSE FileByte(section, a)

\* A window lies in one section, or in BSS outside the sections of a DOL.
InOnePart(window) ==
  \/ \E s \in Present : window \subseteq SectionRange(s)
  \/ /\ file.format = DOL /\ ~IsRaw
     /\ window \subseteq file.bss[1] .. file.bss[2] - 1
     /\ \A s \in Present : window \cap SectionRange(s) = {}

\* An ELF file can be loaded when no relocation leaves its section or lies over
\* another, a DOL when it is one or has a base to be put at.
Loadable ==
  CASE file.format = ELF ->
         /\ \A p \in DOMAIN file.places : InOnePart(p + Delta .. p + Delta + WordBytes - 1)
         /\ \A p, q \in DOMAIN file.places : p < q => q - p >= WordBytes
    [] file.format = PE -> TRUE
    [] file.format = DOL -> IsDol \/ IsRaw

\* Windows of one to three bytes at and around every section.
Windows ==
  LET ends == UNION {{s.addr + Delta, s.addr + Delta + s.size} : s \in Present}
               \cup (IF file.format = DOL /\ ~IsRaw THEN {file.bss[1], file.bss[2]} ELSE {})
      low == CHOOSE a \in ends : \A b \in ends : a <= b
      high == CHOOSE a \in ends : \A b \in ends : a >= b
  IN  {<<v, n>> \in (low - 1 .. high) \X (1 .. 3) : v >= 0}

\* Every window that can be read holds what the loaded program would find
\* there, relocations begun before the window and patches included, and a
\* window across parts or outside them is refused (elf_image::prepare,
\* dol::import, ProgramImage::read).
ReadsAreLoaded ==
  file # NoFile =>
    /\ image.ok = Loadable
    /\ image.ok => \A w \in Windows :
         LET v == w[1] n == w[2] IN
           ReadImage(v, n) = IF InOnePart(v .. v + n - 1)
                             THEN Just([i \in 1..n |-> LoadedByte(v + i - 1)]) ELSE Nothing

\* What a section of a PE file has in memory beyond its raw data is zeros, as
\* MemoryRegion says ("File-backed bytes (section raw size on disk; may be <
\* `size`)", session.rs:137) and ProgramImage ("zero otherwise (BSS)", :145).
PeTailIsZero ==
  (file.format = PE /\ image.ok /\ DOMAIN patches = {}) =>
    \A s \in Present : \A a \in SectionRange(s) :
      a >= s.addr + Delta + Filed(s) => ReadImage(a, 1) = Just(<<0>>)
=============================================================================
