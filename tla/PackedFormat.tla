---------------------------- MODULE PackedFormat ----------------------------
(***************************************************************************)
(* The packed element encoding ghidra_opt and its clients exchange, byte   *)
(* by byte: the encoders of crates/lre-worker/src/wire.rs and the query    *)
(* decoders of provider.rs.                                                *)
(*                                                                         *)
(* A byte string is a sequence of 0 .. 255.  A header is a tag in the two  *)
(* high bits, an extension bit and an identifier; an attribute's value has *)
(* a type byte (type code, number of groups), then big-endian groups of    *)
(* seven bits, and a string its bytes after its length.                    *)
(*                                                                         *)
(* An Option is a sequence of at most one element.  A decoder that walks   *)
(* the bytes is a function on the state of its loop.                       *)
(***************************************************************************)
EXTENDS Integers, Sequences, SequencesExt

CONSTANT U64   \* how many values a u64 has: integers wrap at this bound

None == <<>>
Some(value) == <<value>>

ELEMENT_START == 64
ELEMENT_END == 128
ATTRIBUTE == 192

Tag(header) == 64 * (header \div 64)
Extended(header) == (header \div 32) % 2 = 1

\* attr_type: the value type codes.
BOOLEANVAL == 1
POSITIVE_INT == 2
NEGATIVE_INT == 3
UNSIGNED_INT == 4
SPACEVAL == 5
SPECIAL == 6
STRINGVAL == 7

\* mod attr: attribute ids.
CONTENT == 1
ID == 9
NAME == 14
OFFSET == 16
SIZE == 19
SPACE == 20
ATYPE == 22
FIRST == 27
LAST == 28
MAXSIZE == 120
METATYPE == 12

\* mod elem: element ids.
ADDR == 11
RANGELIST == 13
TYPE == 60
EXTERNREFSYMBOL == 70
MAPSYM == 76
COMMENT == 86
COMMENTDB == 87
TEXT == 88
FUNCTION == 116
TRACKED_POINTSET == 125
DOC == 229
-----------------------------------------------------------------------------
(***************************************************************************)
(* Encoding.                                                               *)
(***************************************************************************)
EncodePackedInt(value) ==
  LET groups[n \in Nat] ==
        IF n = 0 THEN <<>> ELSE Append(groups[n \div 128], 128 + (n % 128))
  IN  groups[value]

EncodeHeader(base, id) ==
  IF id > 31 THEN <<base + 32 + ((id \div 128) % 32), 128 + (id % 128)>>
             ELSE <<base + id>>

EncodeAttribute(id, type, value) ==
  LET groups == EncodePackedInt(value)
  IN  EncodeHeader(ATTRIBUTE, id) \o <<16 * type + Len(groups)>> \o groups

EncodeStringAttribute(id, bytes) ==
  EncodeAttribute(id, STRINGVAL, Len(bytes)) \o bytes

EncodeElement(id, body) ==
  EncodeHeader(ELEMENT_START, id) \o body \o EncodeHeader(ELEMENT_END, id)

EncodeAddrElement(space, offset) ==
  EncodeElement(ADDR, EncodeAttribute(SPACE, SPACEVAL, space)
                        \o EncodeAttribute(OFFSET, UNSIGNED_INT, offset))

EncodeAddrElementSize(space, offset, size) ==
  EncodeElement(ADDR, EncodeAttribute(SPACE, SPACEVAL, space)
                        \o EncodeAttribute(OFFSET, UNSIGNED_INT, offset)
                        \o EncodeAttribute(SIZE, POSITIVE_INT, size))
-----------------------------------------------------------------------------
(***************************************************************************)
(* Decoding, shared by the walks of provider.rs.                           *)
(***************************************************************************)
\* The position after the id of an element header whose first byte is read.
AfterId(header, pos) == IF Extended(header) THEN pos + 1 ELSE pos

\* decode_attr_header: the id, the type byte and where the value begins.
DecodeAttrHeader(header, data, pos) ==
  LET at == AfterId(header, pos)
  IN  IF at > Len(data) THEN None
      ELSE Some([id |-> IF Extended(header)
                        THEN 128 * (header % 32) + (data[pos] % 128)
                        ELSE header % 32,
                 type |-> data[at] \div 16, groups |-> data[at] % 16,
                 next |-> at + 1])

DecodeIntValue(data, pos, groups) ==
  IF pos + groups > Len(data) + 1 THEN None
  ELSE Some(FoldLeft(LAMBDA v, byte : (128 * v + (byte % 128)) % U64, 0,
                     SubSeq(data, pos, pos + groups - 1)))

DecodeRootElementId(data) ==
  IF data = <<>> THEN None
  ELSE IF Tag(data[1]) # ELEMENT_START THEN None
  ELSE IF ~Extended(data[1]) THEN Some(data[1] % 32)
  ELSE IF Len(data) < 2 THEN None
  ELSE Some(128 * (data[1] % 32) + (data[2] % 128))

OptionalNat == {o \in Seq(Nat) : Len(o) <= 1}

\* decode_addr_element: the first <addr> of a query.  The value of a string
\* attribute is not skipped: the walk goes on inside it.
DecodeAddrElement(data) ==
  LET State == [pos : Nat, depth : Nat, space : OptionalNat,
                offset : OptionalNat, size : OptionalNat]
      Result(s) ==
        IF s.space = None \/ s.offset = None THEN None
        ELSE Some([space |-> s.space[1], offset |-> s.offset[1],
                   size |-> IF s.size = None THEN 0 ELSE s.size[1]])
      Store(s, attr, value) ==
        CASE attr.id = SPACE /\ attr.type = SPACEVAL
               -> [s EXCEPT !.space = Some(value)]
          [] attr.id = OFFSET /\ attr.type = UNSIGNED_INT /\ s.offset = None
               -> [s EXCEPT !.offset = Some(value)]
          [] attr.id = OFFSET /\ attr.type = UNSIGNED_INT /\ s.offset # None
             /\ s.size = None
               -> [s EXCEPT !.size = Some(value)]
          [] attr.id = SIZE -> [s EXCEPT !.size = Some(value)]
          [] OTHER -> s
      walk[s \in State] ==
        IF s.pos > Len(data) THEN Result(s)
        ELSE LET header == data[s.pos]
                 past == [s EXCEPT !.pos = AfterId(header, s.pos + 1)]
                 attr == DecodeAttrHeader(header, data, s.pos + 1)
             IN  CASE Tag(header) = ELEMENT_START
                        -> walk[[past EXCEPT !.depth = @ + 1]]
                   [] Tag(header) = ELEMENT_END
                        -> IF s.depth <= 1 THEN Result(s)
                           ELSE walk[[past EXCEPT !.depth = @ - 1]]
                   [] Tag(header) = ATTRIBUTE
                        -> IF attr = None THEN None
                           ELSE IF attr[1].type = STRINGVAL
                                THEN walk[[s EXCEPT !.pos = attr[1].next]]
                           ELSE LET value == DecodeIntValue(data, attr[1].next,
                                                            attr[1].groups)
                                IN  IF value = None THEN None
                                    ELSE walk[Store([s EXCEPT !.pos =
                                                attr[1].next + attr[1].groups],
                                              attr[1], value[1])]
                   [] OTHER -> None
  IN  walk[[pos |-> 1, depth |-> 0, space |-> None, offset |-> None, size |-> None]]

\* find_name_attribute: the last NAME string.  The values of the attributes
\* that are not NAME are not skipped.
FindNameAttribute(data) ==
  LET State == [pos : Nat, name : {o \in Seq(Seq(Nat)) : Len(o) <= 1}]
      walk[s \in State] ==
        IF s.pos > Len(data) THEN s.name
        ELSE LET header == data[s.pos]
                 attr == DecodeAttrHeader(header, data, s.pos + 1)
             IN  CASE Tag(header) \in {ELEMENT_START, ELEMENT_END}
                        -> walk[[s EXCEPT !.pos = AfterId(header, s.pos + 1)]]
                   [] Tag(header) = ATTRIBUTE
                        -> IF attr = None THEN None
                           ELSE IF attr[1].id # NAME \/ attr[1].type # STRINGVAL
                                THEN walk[[s EXCEPT !.pos = attr[1].next]]
                           ELSE LET length == DecodeIntValue(data, attr[1].next,
                                                             attr[1].groups)
                                    first == attr[1].next + attr[1].groups
                                IN  IF length = None THEN None
                                    ELSE IF first + length[1] > Len(data) + 1
                                         THEN None
                                    ELSE walk[[pos |-> first + length[1],
                                               name |-> Some(SubSeq(data, first,
                                                       first + length[1] - 1))]]
                   [] OTHER -> None
  IN  walk[[pos |-> 1, name |-> None]]

\* An u64 as an i64.
Signed(value) == IF value >= U64 \div 2 THEN value - U64 ELSE value

\* find_numeric_attribute: the first value of attribute target; one that no i64
\* has is none.
FindNumericAttribute(data, target) ==
  LET walk[pos \in Nat] ==
        IF pos > Len(data) THEN None
        ELSE LET header == data[pos]
                 attr == DecodeAttrHeader(header, data, pos + 1)
                 value == DecodeIntValue(data, attr[1].next, attr[1].groups)
                 next == attr[1].next + attr[1].groups
             IN  CASE Tag(header) \in {ELEMENT_START, ELEMENT_END}
                        -> walk[AfterId(header, pos + 1)]
                   [] Tag(header) = ATTRIBUTE
                        -> IF attr = None THEN None
                           ELSE IF value = None THEN None
                           ELSE IF attr[1].type = STRINGVAL THEN walk[next + value[1]]
                           ELSE IF attr[1].id # target THEN walk[next]
                           ELSE IF attr[1].type = NEGATIVE_INT THEN Some(-Signed(value[1]))
                           ELSE IF value[1] >= U64 \div 2 THEN None
                           ELSE Some(value[1])
                   [] OTHER -> None
  IN  walk[1]
=============================================================================
