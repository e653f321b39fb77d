----------------------------- MODULE MCDiscovery -----------------------------
(***************************************************************************)
(* Small images for module Discovery: every program of three instructions, *)
(* and longer ones in which the rare cases happen.                         *)
(***************************************************************************)
EXTENDS Discovery, TLC

\* An instruction without its address: `goes` says that it falls through.
Op(kind, targets, goes) ==
  [kind |-> kind, length |-> 1, targets |-> targets, first |-> targets, goes |-> goes,
   conditional |-> kind = "cbranch", pure |-> kind = "branch", noop |-> kind = "fall"]
Go == Op("fall", {}, TRUE)
Ret == Op("return", {}, FALSE)
Bad == Op("bad", {}, FALSE)
Ind == Op("branchInd", {}, FALSE)
Call(t) == Op("call", {t}, TRUE)
Jmp(t) == Op("branch", {t}, FALSE)
Jcc(t) == Op("cbranch", {t}, TRUE)
Long(op) == [op EXCEPT !.length = 2]
\* An instruction with a second target, and an indirect jump that may go to t.
Second(op, t) == [op EXCEPT !.targets = @ \union {t}]
IndTo(t) == [Op("branchInd", {t}, FALSE) EXCEPT !.pure = FALSE]
Setup(op) == [op EXCEPT !.pure = FALSE, !.noop = FALSE]

NoLinkage == [length |-> 0, slot |-> 0, context |-> FALSE]

Image(code, seeds, relocs, hits) ==
  LET all == DOMAIN code
  IN  [flow |-> [a \in all |->
                  [kind |-> code[a].kind, length |-> code[a].length,
                   targets |-> code[a].targets, first |-> code[a].first,
                   conditional |-> code[a].conditional,
                   pure |-> code[a].pure, noop |-> code[a].noop,
                   fall |-> IF code[a].goes THEN {a + code[a].length} ELSE {}]],
       ranges |-> {<<1, Len(code) + 1>>}, functions |-> [f \in seeds |-> 1],
       relocs |-> relocs, hits |-> hits, slots |-> {}, plt |-> {},
       linkages |-> [a \in all |-> NoLinkage], contexts |-> [a \in all |-> 0],
       bytes |-> [a \in all |-> 1], blocks |-> {}, data |-> {}, pointed |-> {},
       alignment |-> 1, mapped |-> FALSE, fails |-> FALSE]

Hit(a, possible, minimum, after) ==
  [address |-> a, possible |-> possible, minimum |-> minimum, maximum |-> 0,
   contiguous |-> TRUE, after |-> after, annotates |-> FALSE, refused |-> "none"]

Ops(last) ==
  {Go, Ret, Bad, Ind} \union {Call(t) : t \in 1 .. last}
    \union {Jmp(t) : t \in 1 .. last} \union {Jcc(t) : t \in 1 .. last}

\* Each family has an argument, so that only those an instance names are built.
\* Every program of three instructions, with one entry and any candidates.
Every(n) ==
  {Image(f, {1}, {2, n}, {}) : f \in [1 .. n -> Ops(n)]}
    \union {Image(f, {1}, {}, {Hit(2, TRUE, 0, "none"), Hit(3, TRUE, -1, "def")}) :
              f \in [1 .. n -> Ops(n)]}

\* The same over the linear sweep, and over a console that fails.
Swept(n) ==
  {[Image(f, {1}, {}, {}) EXCEPT !.mapped = TRUE] :
     f \in [1 .. n -> {Go, Ret, Bad, Call(n), Jmp(n), Jmp(1), Jcc(n), Long(Go)}]}
Failing(n) ==
  {[Image(<<Jcc(3), Call(4), op, Ret>>, {1}, {2}, {}) EXCEPT !.mapped = m, !.fails = TRUE] :
     op \in Ops(n), m \in BOOLEAN}
    \union {[Image(<<Ret, op, Ret, Ret>>, {1}, {},
                   {Hit(2, TRUE, 0, "none"), Hit(3, FALSE, -1, "def")})
               EXCEPT !.fails = TRUE] : op \in Ops(n)}

\* Instructions with several targets, of which the first is followed.
Several(n) ==
  {Image(<<Second(op, n), o, Ret, Ret>>, {1}, {2, n}, hits) :
     op \in {Jmp(2), Jmp(3), Jcc(3), Call(2), IndTo(2), IndTo(3)},
     o \in {Go, Jmp(n), Second(Jmp(3), n), IndTo(n)},
     hits \in {{}, {Hit(2, TRUE, 0, "none"), Hit(n, TRUE, 0, "none")}}}

\* A possible start, the conditional jump to it in the other start's body, and
\* what the two run into.
Starts(n) ==
  {Image(<<op, Ret, Jcc(5), Ret, o, Ret>>, {1}, {},
         {Hit(3, p, m, "def"), Hit(5, TRUE, 0, "def")}) :
     op \in Ops(n), o \in Ops(n), p \in BOOLEAN, m \in {-1, 0, 2}}

\* Chains of jumps between entries, one of which may come back, after a no-op.
Chains(n) ==
  {Image(<<first, Jmp(4), Ret, op, o, Ret>>, {1}, relocs, {}) :
     first \in {Go, Setup(Go), Jmp(5)}, op \in Ops(n), o \in Ops(n), relocs \in {{}, {5}}}

\* Two trusted functions, of which one jumps away at once.
Twins(n) ==
  {Image(<<Jmp(4), Ret, o, op, Ret>>, {1, 3}, relocs, {}) :
     o \in Ops(n), op \in Ops(n), relocs \in {{}, {5}}}

\* Two functions that jump to a stub through slot 9, which may need the slot of
\* each caller.
Stubs(n) ==
  {[Image(<<first, Setup(Jmp(7)), Setup(Go), j, Ind, Ret, Go, Ind>>, {1, 3}, {}, {})
      EXCEPT !.slots = {9, 10}, !.linkages[7] = [length |-> 2, slot |-> IF c THEN 0 ELSE 9,
                                                context |-> c],
             !.contexts = [a \in 1 .. 8 |-> IF a = 2 THEN x ELSE y], !.plt = plt,
             !.linkages[5] = [length |-> 1, slot |-> 9, context |-> FALSE]] :
     first \in {Setup(Go), Jmp(7)}, j \in {Setup(Jmp(7)), Setup(Jmp(6)), Jcc(7)},
     c \in BOOLEAN, x \in {0, 9, 10}, y \in {9}, plt \in {{}, {<<5, 1>>}}}

\* A stub, and a jump into the middle of its last instruction.
Overrun(n) ==
  {[Image(<<Setup(Jmp(7)), Jmp(t), Go, Ret, Ret, Ret, Go, Long(Ind), o, Ret>>, {1, 2}, {}, {})
      EXCEPT !.slots = {n}, !.linkages[7] = [length |-> 3, slot |-> n, context |-> FALSE]] :
     t \in {3, 8, 9}, o \in {Go, Ret, Jmp(3), Ind}}

\* Two functions known by their addresses alone that share their last jump.
Shared(n) ==
  {Image(<<Ret, Jmp(4), Jmp(4), Ret>>, {1}, {2, 3, 4}, {})}

\* A function that runs through addresses 2 to 4 and calls or jumps back into what
\* was walked of it, where an instruction is longer than one byte.
Late(n) ==
  {Image(<<first, Long(Go), Go, op, o, Ret>>, {1}, relocs, {}) :
     first \in {Go, Call(5)}, op \in Ops(n), o \in Ops(n), relocs \in {{}, {5}}}

\* A thunk's target that is merged into the function that reaches it, is the target
\* of another thunk later, and is then reached by a third function.
Rethunked(n) ==
  {Image(<<Jmp(n), Go, Jcc(n), Call(7), Call(9), Ret, o, Ret, op, Ret, Ret, Long(Ret), Ret>>,
         {1, 2}, {}, {}) : o \in {Jmp(n), Jcc(n), Go}, op \in {Jcc(n), Jmp(n), Call(n), Ret}}

\* A linkage table, stubs and a thunk over a console that fails, where stub 7 may need
\* its callers' context though a conditional jump leads to it.
Unproved(n) ==
  {[p EXCEPT !.fails = TRUE] : p \in {q \in Stubs(n) : q.contexts[2] # 10}}
    \union {[Image(<<Jmp(3), Ret, op, Ret>>, {1}, {}, {}) EXCEPT !.fails = TRUE] : op \in Ops(n)}

\* A pattern at an address out of alignment, one that only annotates, and one that is
\* refused at some point.
Refusals(n) ==
  {[Image(<<op, Ret, Jcc(2), Ret>>, {1}, {3},
          {[Hit(2, TRUE, 0, after) EXCEPT !.refused = r, !.annotates = a],
           Hit(4, FALSE, 0, "none")}) EXCEPT !.alignment = k] :
     op \in {Ret, Jcc(2)}, after \in {"none", "data"}, r \in {"none", "action", "section", "after", "count"},
     a \in BOOLEAN, k \in {1, n}}

MCPrograms ==
  Every(3) \union Swept(3) \union Failing(4) \union Starts(6) \union Chains(6)
    \union Several(4) \union Stubs(8) \union Twins(5) \union Shared(4)
    \union Overrun(11) \union Late(6) \union Rethunked(12) \union Unproved(8)
    \union Refusals(3)
=============================================================================
