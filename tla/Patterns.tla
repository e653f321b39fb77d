------------------------------ MODULE Patterns ------------------------------
(***************************************************************************)
(* The prerequisites of a function-start pattern                           *)
(* (crates/lre-core/src/native/discovery/patterns.rs): a byte match is a   *)
(* candidate if what surrounds it allows a function there and if a bounded *)
(* walk of its instructions meets nothing that code does not do.           *)
(*                                                                         *)
(* `image` holds what the console decodes (flow), the loaded bytes, where  *)
(* mappings begin (blocks), the data of relocations (pairs of first and    *)
(* end), what data refers to (pointed), what calls refer to (called) and   *)
(* the language's alignment.  Delay slots are not modelled.                *)
(*                                                                         *)
(* A hit is an action of a rule at an address that the rule matches:       *)
(* whether the start is only possible, the instructions that must be valid *)
(* (minimum, maximum, contiguous), what it must stand after, whether it    *)
(* only annotates an existing function (validcode="function"), and what of *)
(* it the code does not support (refused), if anything.                    *)
(***************************************************************************)
EXTENDS Integers, Sequences, FiniteSets, FiniteSetsExt, SequencesExt

CONSTANTS
  ProbeLength,   \* 8: bytes that must be loaded at a start
  MaxRepeat,     \* 4: equal instructions of one repeated byte
  WalkLimit      \* 4000: instructions of a walk without a bound of its own

ASSUME PatternsAssumption ==
  ProbeLength \in Nat /\ MaxRepeat \in Nat /\ WalkLimit \in Nat

Covers(spans, a) == \E s \in spans : s[1] <= a /\ a < s[2]
Overlaps(spans, first, end) == \E s \in spans : s[1] < end /\ first < s[2]
DecodesIn(image, a) ==
  a \in DOMAIN image.flow /\ image.flow[a].kind \notin {"bad", "unimpl"}

\* loaded_byte, over the bytes of an instruction: the byte they all are.
Repeated(image, first, end) ==
  LET bytes == {image.bytes[b] : b \in first .. end - 1}
  IN  IF Cardinality(bytes) = 1 THEN bytes ELSE {}

Loaded(image, first, end) == first .. end - 1 \subseteq DOMAIN image.bytes

Probed(image, entry) ==
  /\ Loaded(image, entry, entry + ProbeLength)
  /\ \E b \in entry .. entry + ProbeLength - 1 : image.bytes[b] # 0

\* What may not stand at an instruction of the walk: an instruction that is not
\* one, an overlap with a known instruction at another start or with the walk
\* itself, bytes that are not loaded, or a jump to where it falls through.
Refused(image, s, instructions) ==
  LET a == s.target[1]
      i == image.flow[a]
  IN  \/ ~DecodesIn(image, a)
      \/ \E k \in instructions : k[1] < a + i.length /\ a < k[1] + k[2] /\ k[1] # a
      \/ Overlaps(s.body, a, a + i.length)
      \/ ~Loaded(image, a, a + i.length)
      \/ /\ s.repeats = MaxRepeat
         /\ Repeated(image, a, a + i.length) # {}
         /\ Repeated(image, a, a + i.length) = s.byte
      \/ i.kind \in {"branch", "cbranch", "branchInd"} /\ i.fall \intersect i.targets # {}

IsJump(i) == i.kind \in {"branch", "cbranch", "branchInd"}

\* Where the walk goes on: the fallthrough, an address already jumped to, the
\* jump's own target, or the last target left behind.
NextTarget(s, i, a, body, functions) ==
  LET end == a + i.length
      open == {t \in i.targets : ~Covers(body, t)}
      joined == IsJump(i) /\ i.targets \intersect functions # {}
      left == SelectSeq(s.pending \o (IF IsJump(i) THEN SetToSeq(i.targets \ functions)
                                                   ELSE <<>>),
                        LAMBDA t : ~Covers(body, t))
      straight == CASE joined -> {}
                    [] ~joined /\ i.fall # {} -> i.fall
                    [] ~joined /\ i.fall = {} /\ end \in s.targets -> {end}
                    [] OTHER -> IF IsJump(i) THEN open ELSE {}
  IN  IF straight # {} THEN SetToSeq(straight)
      ELSE IF left = <<>> THEN <<>> ELSE <<Last(left)>>

WalkOn(image, s, functions, contiguous) ==
  LET a == s.target[1]
      i == image.flow[a]
      end == a + i.length
      body == s.body \union {<<a, end>>}
      byte == Repeated(image, a, end)
      counted == s.end = <<>> \/ ~contiguous \/ s.end = <<a>>
      jumped == IF IsJump(i) THEN i.targets \ functions ELSE {}
  IN  [target |-> NextTarget(s, i, a, body, functions),
       body |-> body, starts |-> s.starts \union {a},
       pending |-> s.pending \o SetToSeq(jumped),
       targets |-> s.targets \union jumped,
       count |-> IF counted THEN s.count + 1 ELSE s.count,
       end |-> IF counted THEN <<end>> ELSE s.end,
       terminated |-> \/ s.terminated
                      \/ i.kind = "return" /\ i.fall = {}
                      \/ i.kind = "branchInd" /\ i.targets = {},
       calls |-> s.calls \/ (i.kind \in {"call", "callInd", "branch", "cbranch", "branchInd"}
                               /\ i.targets \intersect functions # {}),
       byte |-> byte,
       repeats |-> IF byte = {} THEN 0 ELSE IF byte = s.byte THEN s.repeats + 1 ELSE 1,
       refused |-> FALSE]

\* valid_code.
ValidCode(image, entry, hit, functions, instructions) ==
  LET limit == IF hit.maximum > 0 THEN hit.maximum
               ELSE IF hit.minimum > 0 THEN hit.minimum ELSE WalkLimit
      begin == [target |-> <<entry>>, body |-> {}, starts |-> {}, pending |-> <<>>,
                targets |-> {}, count |-> 0, end |-> <<>>, terminated |-> FALSE,
                calls |-> FALSE, byte |-> {}, repeats |-> 0, refused |-> FALSE]
      Go(s) == IF Refused(image, s, instructions) THEN [s EXCEPT !.refused = TRUE]
               ELSE WalkOn(image, s, functions, hit.contiguous)
      walk[n \in Nat] ==
        IF n = 0 THEN begin
        ELSE LET s == walk[n - 1]
             IN  IF s.refused \/ s.target = <<>> THEN s ELSE Go(s)
      \* Each step adds an instruction of its own to the body.
      w == walk[Min({limit, Cardinality(DOMAIN image.flow) + 1})]
  IN  /\ Probed(image, entry) /\ ~w.refused
      /\ hit.minimum > 0 => w.count >= hit.minimum
      /\ hit.minimum < 0 => w.terminated \/ w.calls
      /\ \A t \in w.targets \union image.called \union image.pointed : Covers(w.body, t) => t \in w.starts
      /\ \A s \in w.body : ~Overlaps(image.data, s[1], s[2])

\* An address stands after code or data, or where a block of memory begins.
AfterBoundary(image, hit, instructions) ==
  LET a == hit.address
      instruction == \E k \in instructions : k[1] < a /\ a - k[1] <= k[2]
      data == Covers(image.data, a - 1)
      pointer == a \in image.pointed /\ a \notin image.called
      satisfied == CASE hit.after = "inst" -> instruction
                     [] hit.after = "data" -> data
                     [] hit.after = "ptr" -> pointer
                     [] hit.after = "def" -> instruction \/ data \/ pointer
                     [] hit.after = "none" -> TRUE
  IN  a \in image.blocks \/ a - 1 \notin DOMAIN image.bytes \/ satisfied

\* A match is looked at if nothing is at its address, and it is aligned.
Free(a, image, functions, sized, instructions) ==
  /\ ~Covers(image.data, a) /\ a % image.alignment = 0 /\ a \notin functions
  /\ ~\E k \in instructions : k[1] <= a /\ a - k[1] < k[2]
  /\ ~\E f \in sized : f[1] < a /\ a - f[1] < f[2]

\* The returns of an error, each behind the conditions that come before it: an action
\* that is not known or sets a context; one for a section; one after what is not
\* known; and a count of instructions that is no number.
Refusal(hits, image, functions, sized, instructions, conditional) ==
  \E h \in hits :
    /\ Free(h.address, image, functions, sized, instructions)
    /\ h.refused # "none" /\ (h.refused # "action" /\ h.possible => h.address \notin conditional)
    /\ h.refused \in {"after", "count"} => ~h.annotates
    /\ h.refused = "count" => AfterBoundary(image, h, instructions)

\* collect, where it returns no error: a definite start wins over a possible one at
\* the same address.
Collect(hits, image, functions, sized, instructions, conditional) ==
  LET Kept(h) == /\ Free(h.address, image, functions, sized, instructions)
                 /\ h.refused = "none" /\ ~h.annotates
                 /\ h.possible => h.address \notin conditional
                 /\ AfterBoundary(image, h, instructions)
                 /\ IF h.minimum # 0
                    THEN ValidCode(image, h.address, h, functions, instructions)
                    ELSE DecodesIn(image, h.address)
      kept == {h \in hits : Kept(h)}
  IN  {[address |-> a, possible |-> \A h \in kept : h.address = a => h.possible] :
         a \in {h.address : h \in kept}}
=============================================================================
