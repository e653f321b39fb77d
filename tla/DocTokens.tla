------------------------------ MODULE DocTokens ------------------------------
(***************************************************************************)
(* The token decoder of the decompiler's <doc> response                    *)
(* (crates/lre-worker/src/doc.rs): a stack of open elements, a token at    *)
(* each content string of a token element and at the end of a line break.  *)
(*                                                                         *)
(* An element is modelled with the attributes the decoder tells apart: a   *)
(* name, a space and an offset, which are an address together, a varnode   *)
(* reference, and its content.                                             *)
(***************************************************************************)
EXTENDS PackedFormat

BREAK == 17
FUNCNAME == 19
SYNTAX == 24
ELEM_VARIABLE == 26
TokenElements == {9, BREAK, FUNCNAME, 21, SYNTAX, ELEM_VARIABLE, 27, 49, TYPE, COMMENT, 289}

OFF == 39
VARREF == 42

\* read_id_after_header: the id and the position after it.
ReadId(data, pos) ==
  LET header == data[pos]
  IN  IF ~Extended(header) THEN Some([id |-> header % 32, next |-> pos + 1])
      ELSE IF pos + 1 > Len(data) THEN None
      ELSE Some([id |-> 128 * (header % 32) + (data[pos + 1] % 128), next |-> pos + 2])

StringBytes(data, pos, length) ==
  IF pos + length > Len(data) + 1 THEN None ELSE Some(SubSeq(data, pos, pos + length - 1))

\* read_value: a number or a string, and the position after it.  A type the
\* format does not have is refused.
ReadValue(data, pos) ==
  LET type == data[pos] \div 16
      groups == data[pos] % 16
      number == DecodeIntValue(data, pos + 1, groups)
      after == pos + 1 + groups
      bytes == StringBytes(data, after, number[1])
      Value(v, text, next) == Some([type |-> type, value |-> v, text |-> text, next |-> next])
  IN  IF pos > Len(data) THEN None
      ELSE IF type \in {BOOLEANVAL, SPECIAL} THEN Value(groups, <<>>, pos + 1)
      ELSE IF number = None \/ type \notin 1 .. 7 THEN None
      ELSE IF type # STRINGVAL THEN Value(number[1], <<>>, after)
      ELSE IF bytes = None THEN None
      ELSE Value(0, bytes[1], after + number[1])

\* Value::unsigned.
Unsigned(v) ==
  IF v.type \in {POSITIVE_INT, UNSIGNED_INT, SPACEVAL} THEN Some(v.value) ELSE None

Ctx(id) == [id |-> id, name |-> None, space |-> None, off |-> None,
            ref |-> None, content |-> FALSE]

OptionalBytes == {o \in Seq(Seq(Nat)) : Len(o) <= 1}
Contexts == [id : Nat, name : OptionalBytes, space : OptionalNat, off : OptionalNat,
             ref : OptionalNat, content : BOOLEAN]
Tokens == [kind : Nat, text : Seq(Nat), symbol : OptionalBytes, ref : OptionalNat,
           address : OptionalBytes]

TokenFromContext(ctx, text) ==
  [kind |-> ctx.id, text |-> text, symbol |-> ctx.name, ref |-> ctx.ref,
   address |-> IF ctx.space = None \/ ctx.off = None THEN None
               ELSE Some(<<ctx.space[1], ctx.off[1]>>)]

\* An attribute of the innermost open element.
SetAttribute(ctx, id, v) ==
  CASE id = NAME /\ v.type = STRINGVAL -> [ctx EXCEPT !.name = Some(v.text)]
    [] id = SPACE -> [ctx EXCEPT !.space = Unsigned(v)]
    [] id = OFF -> [ctx EXCEPT !.off = Unsigned(v)]
    [] id = VARREF /\ Unsigned(v) # None -> [ctx EXCEPT !.ref = Unsigned(v)]
    [] id = CONTENT /\ v.type = STRINGVAL -> [ctx EXCEPT !.content = TRUE]
    [] OTHER -> ctx

\* Fault: the address of an element is kept for its next sibling.
CloseElementKeepingAddress(s, id) ==
  LET ctx == Last(s.stack)
      rest == Front(s.stack)
      kept == IF rest = <<>> THEN rest
              ELSE Append(Front(rest), [Last(rest) EXCEPT !.space = ctx.space,
                                                          !.off = ctx.off])
  IN  IF s.stack = <<>> THEN s ELSE [s EXCEPT !.stack = kept]

\* An element's end: a line break is a token of its own, and an end of another
\* element than the innermost forgets all that are open.
CloseElement(s, id) ==
  LET ctx == Last(s.stack)
  IN  IF s.stack = <<>> THEN s
      ELSE IF ctx.id # id THEN [s EXCEPT !.stack = <<>>]
      ELSE [s EXCEPT !.stack = Front(@),
                     !.tokens = IF id = BREAK /\ ~ctx.content
                                THEN Append(@, TokenFromContext(ctx, <<>>)) ELSE @]

Attribute(s, id, v) ==
  LET ctx == SetAttribute(Last(s.stack), id, v)
  IN  IF s.stack = <<>> THEN s
      ELSE [s EXCEPT !.stack = Append(Front(@), ctx),
                     !.tokens = IF id = CONTENT /\ v.type = STRINGVAL
                                   /\ ctx.id \in TokenElements
                                THEN Append(@, TokenFromContext(ctx, v.text)) ELSE @]

\* decode_tokens_with_ram_space: what was decoded before a byte that cannot be
\* read stands.
DecodeTokens(data) ==
  LET State == [pos : Nat, stack : Seq(Contexts), tokens : Seq(Tokens)]
      walk[s \in State] ==
        IF s.pos > Len(data) THEN s.tokens
        ELSE LET tag == Tag(data[s.pos])
                 id == ReadId(data, s.pos)
                 at == [s EXCEPT !.pos = id[1].next]
                 value == ReadValue(data, id[1].next)
             IN  IF tag = 0 \/ id = None THEN s.tokens
                 ELSE CASE tag = ELEMENT_START
                             -> walk[[at EXCEPT !.stack = Append(@, Ctx(id[1].id))]]
                        [] tag = ELEMENT_END -> walk[CloseElement(at, id[1].id)]
                        [] tag = ATTRIBUTE
                             -> IF value = None THEN s.tokens
                                ELSE walk[Attribute([at EXCEPT !.pos = value[1].next],
                                                    id[1].id, value[1])]
  IN  walk[[pos |-> 1, stack |-> <<>>, tokens |-> <<>>]]
-----------------------------------------------------------------------------
(***************************************************************************)
(* A document and its tokens, by definition.  An element is                *)
(* [id, name, address, ref, text, children]; the decompiler writes its     *)
(* attributes first, then its content, then its children.                  *)
(***************************************************************************)
EncodeNode(node, children) ==
  EncodeElement(node.id,
    (IF node.name = None THEN <<>> ELSE EncodeStringAttribute(NAME, node.name[1]))
      \o (IF node.address = None THEN <<>>
          ELSE EncodeAttribute(SPACE, SPACEVAL, node.address[1][1])
                 \o EncodeAttribute(OFF, UNSIGNED_INT, node.address[1][2]))
      \o (IF node.ref = None THEN <<>>
          ELSE EncodeAttribute(VARREF, UNSIGNED_INT, node.ref[1]))
      \o (IF node.text = None THEN <<>> ELSE EncodeStringAttribute(CONTENT, node.text[1]))
      \o FlattenSeq(children))

TokensOfNode(node) ==
  IF node.id \in TokenElements /\ (node.text # None \/ node.id = BREAK)
  THEN <<[kind |-> node.id, symbol |-> node.name, ref |-> node.ref,
          address |-> node.address,
          text |-> IF node.text = None THEN <<>> ELSE node.text[1]]>>
  ELSE <<>>

\* A group of lines: an element that is no token around elements that are.
EncodeDoc(nodes) ==
  LET function == [id |-> FUNCTION, name |-> None, address |-> None, ref |-> None,
                   text |-> None]
  IN  EncodeNode(function, [i \in DOMAIN nodes |-> EncodeNode(nodes[i], <<>>)])
TokensOfDoc(nodes) == FlattenSeq([i \in DOMAIN nodes |-> TokensOfNode(nodes[i])])

\* The tokens of a document are its own, each with the name, the address and
\* the reference of its own element and of no other
\* (decode_tokens_with_ram_space).
TokensAreOwn(nodes) == DecodeTokens(EncodeDoc(nodes)) = TokensOfDoc(nodes)

\* A document cut off at any byte still yields the tokens before the cut, all
\* of them whole, and no other.
CutKeepsTokens(nodes, length) ==
  IsPrefix(DecodeTokens(SubSeq(EncodeDoc(nodes), 1, length)), TokensOfDoc(nodes))
=============================================================================
