------------------------------ MODULE Discovery ------------------------------
(***************************************************************************)
(* Function discovery over a mapped image                                  *)
(* (crates/lre-core/src/native/discovery.rs): from the entries the loader  *)
(* trusts, a worklist walks the instructions the SLEIGH console decodes    *)
(* and attributes each to an owner; then the relocation candidates and the *)
(* pattern candidates that decode start walks of their own; and what turns *)
(* out to be inside another function's body is merged into it.             *)
(*                                                                         *)
(* The image is `program`: what the console answers for each address, the  *)
(* executable ranges, and the loader's facts.  Every step is the code's    *)
(* own, in its order; the choices are the program and, at each batch,      *)
(* whether the console answers: `program.fails` says that it may not.      *)
(*                                                                         *)
(* An instruction is [kind, length, targets, first, fall, conditional,     *)
(* pure, noop]: `targets` is the set of them, `first` holds the first of   *)
(* them, if any, which is all that the walk follows of a jump, and `fall`  *)
(* where control falls through to, if it does.                             *)
(***************************************************************************)
EXTENDS Integers, Sequences, FiniteSets, FiniteSetsExt, SequencesExt, Functions,
        Patterns

CONSTANTS
  Programs,    \* the images of the instance
  ChunkSize,   \* addresses of a query: 1024 in the code
  MaxHops      \* 64: links of addr_origin that are followed

\* Merges and promotions leave chains of three owners at most.
ASSUME DiscoveryAssumption == ChunkSize \in Nat \ {0} /\ MaxHops \in Nat /\ MaxHops >= 3

\* The console has a line for each address in code or matched, with one first target,
\* if any, and one fallthrough at most; what does not decode has length 1 and leads
\* nowhere; what the linkage command measures is a straight line that ends in an
\* indirect jump, unless an instruction of it was lost; and finitely much is mapped,
\* decoded and matched.
Sound(p) ==
  /\ {"flow", "ranges", "functions", "linkages", "plt", "hits"} \subseteq DOMAIN p
  /\ IsFiniteSet(p.ranges) /\ p.ranges \subseteq Int \X Int
  /\ \A r \in p.ranges : r[1] .. r[2] - 1 \subseteq DOMAIN p.flow
  /\ IsFiniteSet(DOMAIN p.flow)
  /\ \A a \in DOMAIN p.flow :
       /\ p.flow[a].length \in Nat /\ p.flow[a].first \subseteq p.flow[a].targets
       /\ p.flow[a].first = {} => p.flow[a].targets = {}
       /\ p.flow[a].kind \in {"bad", "unimpl"} =>
            p.flow[a].length = 1 /\ p.flow[a].targets = {} /\ p.flow[a].fall = {}
       /\ \A s \in {p.flow[a].first, p.flow[a].fall} : \A t, u \in s : t = u
  /\ \A t \in DOMAIN p.flow :
       /\ p.linkages[t].length \in Nat
       /\ p.linkages[t].length # 0 =>
            \E line \in SUBSET DOMAIN p.flow :
              /\ t \in line
              /\ \A a \in line :
                   LET end == a + p.flow[a].length
                   IN  \/ p.flow[a].kind = "fall" /\ p.flow[a].fall = {end} /\ end \in line
                       \/ p.flow[a].kind = "branchInd" /\ end = t + p.linkages[t].length
                       \/ p.flow[a].kind = "bad"
  /\ IsFiniteSet(p.hits)
  /\ \A h \in p.hits : h.address \in Int /\ h.address \in DOMAIN p.flow

ASSUME ProgramsAssumption == \A p \in Programs : Sound(p)

VARIABLES
  program,     \* the image, as the console or the sweep's results (decoded) answer for it
  phase,       \* which part of discover_seeded or discover_mapped runs
  functions,   \* NativeImport.functions: sizes by entry
  xrefs,       \* NativeImport.xrefs that are calls: pairs of addresses
  walk,        \* the sets and maps of flow_discover_with_candidates
  queue,       \* the addresses of the round not yet asked about
  chunk,       \* the addresses asked about and not yet walked
  thunks,      \* confirmed_thunks of the chunk: targets by address
  starts,      \* the pattern candidates and the entries before them
  failed       \* ConsoleProvider.failure is set: an answer was missed

vars == <<program, phase, functions, xrefs, walk, queue, chunk, thunks, starts, failed>>

Flow(a) == program.flow[a]
Decodes(a) == a \in DOMAIN program.flow /\ Flow(a).kind \notin {"bad", "unimpl"}
InCode(a) == \E r \in program.ranges : a \in r[1] .. r[2] - 1
Within(a, length) == \E r \in program.ranges : r[1] <= a /\ a + length <= r[2]
Inside(a, extents) == \E e \in extents : e[1] < a /\ a < e[1] + e[2]
\* HashMap's insert, of a key and of a map.
Insert(map, key, value) ==
  [x \in DOMAIN map \union {key} |-> IF x = key THEN value ELSE map[x]]
InsertAll(map, new) ==
  [x \in DOMAIN map \union DOMAIN new |-> IF x \in DOMAIN new THEN new[x] ELSE map[x]]

\* A set of addresses in ascending order.
InOrder(S) ==
  [i \in 1 .. Cardinality(S) |-> CHOOSE a \in S : Cardinality({b \in S : b < a}) = i - 1]
SizedFunctions == {<<f, functions[f]>> : f \in {g \in DOMAIN functions : functions[g] > 1}}
HasSlots == program.slots # {}
-----------------------------------------------------------------------------
(***************************************************************************)
(* Owners: addr_origin and proven_bodies.                                  *)
(***************************************************************************)
Link(origin, x) == IF x \in DOMAIN origin THEN origin[x] ELSE x

\* The links are followed up to a limit; at an end they stay.
GetCanonicalOrigin(a, origin) ==
  LET after[n \in 0 .. MaxHops] == IF n = 0 THEN a ELSE Link(origin, after[n - 1])
  IN  after[MaxHops]

Own(w, a, owner) == [w EXCEPT !.origin = Insert(@, a, owner)]
Owner(w, a) == GetCanonicalOrigin(a, w.origin)

\* Fault: the last instruction walked ends the body.
ExtendToLast(bodies, owner, end) == Insert(bodies, owner, end)

\* The end of owner's body is at least `end`.
Extend(bodies, owner, end) ==
  Insert(bodies, owner, IF owner \in DOMAIN bodies THEN Max({bodies[owner], end}) ELSE end)

\* Fault: the body it was reached from is made a part of the entry.
MergeReachedSwapped(w, target, owner, mergeable) ==
  IF target \notin mergeable \/ Owner(w, target) = Owner(w, owner) THEN w
  ELSE Own(w, Owner(w, owner), target)

\* merge_reached_candidate: a provisional entry reached from a body is a part
\* of it.
MergeReached(w, target, owner, mergeable) ==
  LET into == Owner(w, owner)
      from == Owner(w, target)
      moved == {target, from}
      linked == Insert(Insert(w.origin, from, into), target, into)
      ends == {w.bodies[m] : m \in moved \intersect DOMAIN w.bodies}
      rest == Restrict(w.bodies, DOMAIN w.bodies \ moved)
  IN  IF target \notin mergeable \/ from = into THEN w
      ELSE [w EXCEPT !.origin = [a \in DOMAIN linked |->
                                  IF linked[a] \in moved THEN into ELSE linked[a]],
                     !.bodies = IF ends = {} THEN rest
                                ELSE Extend(rest, into, Max(ends))]
-----------------------------------------------------------------------------
(***************************************************************************)
(* The walk of an instruction.                                             *)
(***************************************************************************)
\* An address reached by flow: merged if it is a provisional entry, and walked
\* for its owner if it was not walked yet.
Reach(w, target, owner) ==
  LET merged == MergeReached(w, target, owner, w.mergeable)
  IN  IF InCode(target) /\ target \notin w.visited
      THEN [Own(merged, target, owner) EXCEPT !.active = @ \union {target}]
      ELSE merged

\* The same for the address in `to`, if there is one.
ReachAny(w, to, owner) ==
  IF to = {} THEN w ELSE Reach(w, CHOOSE t \in to : TRUE, owner)

\* Fault: a called entry is not walked.
CallsUnwalked(w, a) ==
  LET found == {t \in Flow(a).targets : InCode(t) /\ t \notin w.entries}
  IN  IF Flow(a).kind # "call" THEN w
      ELSE [w EXCEPT !.entries = @ \union found, !.origin = InsertAll(@, [t \in found |-> t]),
                     !.calls = @ \union {<<a, t>> : t \in Flow(a).targets \ {0}}]

\* A call's target in code is an entry of its own.
Calls(w, a) ==
  LET found == {t \in Flow(a).targets : InCode(t) /\ t \notin w.entries}
  IN  IF Flow(a).kind # "call" THEN w
      ELSE [w EXCEPT !.entries = @ \union found,
                     !.origin = InsertAll(@, [t \in found |-> t]),
                     !.active = @ \union found,
                     !.calls = @ \union {<<a, t>> : t \in Flow(a).targets \ {0}}]

\* A confirmed thunk's target is a provisional entry, remembered with the
\* function its chain of jumps began at.
Thunk(w, a, target) ==
  LET owner == Owner(w, a)
      root == IF owner \in DOMAIN w.thunkRoots THEN w.thunkRoots[owner] ELSE owner
      new == target \notin w.entries
      jumped == [Own(w, target, target) EXCEPT
                   !.thunkJumps = @ \union {<<a, target>>},
                   !.active = IF target \in w.visited THEN @ ELSE @ \union {target}]
  IN  IF ~new THEN jumped
      ELSE [jumped EXCEPT
              !.entries = @ \union {target},
              !.thunkCandidates = @ \union {target},
              !.mergeable = @ \union {target},
              !.thunkRoots = Insert(@, target, root),
              !.continuations = Insert(@, a + Flow(a).length, root)]

\* Fault: the chains of every function are merged into one that returns.
DemoteEvery(w, a) ==
  LET root == w.continuations[a]
      owner == Owner(w, a)
      returns == /\ phase = "seeds"
                 /\ a \in DOMAIN w.continuations /\ owner \in DOMAIN w.thunkRoots
                 /\ w.thunkRoots[owner] = root
  IN  IF ~returns THEN w
      ELSE FoldSet(LAMBDA t, v : MergeReached(v, t, root, w.thunkCandidates), w,
                   DOMAIN w.thunkRoots)

\* A jump chain that comes back to its source's continuation was a jump over a
\* body: its entries are merged into the function it began in.
Demote(w, a) ==
  LET root == w.continuations[a]
      owner == Owner(w, a)
      returns == /\ phase = "seeds"
                 /\ a \in DOMAIN w.continuations /\ owner \in DOMAIN w.thunkRoots
                 /\ w.thunkRoots[owner] = root
      chain == {t \in DOMAIN w.thunkRoots : w.thunkRoots[t] = root}
  IN  IF ~returns THEN w
      ELSE FoldSet(LAMBDA t, v : MergeReached(v, t, root, w.thunkCandidates), w, chain)

\* One no-op at an entry may stand before a thunk's jump.
Landing(w, a) ==
  IF phase = "seeds" /\ Flow(a).noop /\ Flow(a).kind = "fall" /\ a \in w.entries
     /\ Flow(a).fall = {a + Flow(a).length} /\ Within(a, Flow(a).length)
  THEN [w EXCEPT !.landing = Insert(@, a + Flow(a).length, a)]
  ELSE w

\* What is kept of the instruction itself.
Record(w, a) ==
  LET i == Flow(a)
      bad == i.kind \in {"bad", "unimpl"}
      jumps == i.kind \in {"branch", "cbranch", "branchInd"}
      starting == {c.address : c \in starts.candidates}
  IN  [w EXCEPT
         !.extents = IF bad THEN @ ELSE @ \union {<<a, i.length>>},
         !.endings = IF HasSlots /\ i.kind # "fall"
                     THEN @ \union {<<a, i.kind = "branchInd">>} ELSE @,
         !.conditional = IF i.conditional THEN @ \union i.targets ELSE @,
         !.branchTargets = IF HasSlots /\ i.kind \in {"branch", "cbranch"}
                           THEN @ \union (i.first \ {a + i.length}) ELSE @,
         !.contextEdges = IF i.kind = "branch" /\ Within(a, i.length)
                          THEN @ \union {<<t, a>> : t \in i.first \intersect w.linkage}
                          ELSE @,
         !.edges = IF phase # "patterns" \/ bad THEN @
                   ELSE @ \union {<<t, a>> : t \in starting \intersect
                                     (i.fall \union (IF jumps THEN i.targets ELSE {}))},
         !.bodies = Extend(@, Owner(w, a), a + i.length)]

\* One pass of the loop body of the walk.
Instruction(w, a) ==
  LET i == Flow(a)
      here == Record(Demote(Landing(w, a), a), a)
      owner == Owner(here, a)
      called == Calls(here, a)
      followed == IF i.kind \in {"branch", "cbranch"}
                  THEN ReachAny(called, i.first, owner) ELSE called
  IN  IF a \in DOMAIN thunks THEN Thunk(called, a, thunks[a])
      ELSE IF i.kind \in {"bad", "unimpl"} THEN followed
      ELSE ReachAny(followed, i.fall, owner)

\* confirmed_thunks: an entry's pure jump to an address that decodes and is not
\* inside a body.
ConfirmedThunks(w, asked) ==
  LET Entry(a) == IF a \in w.entries THEN a ELSE w.landing[a]
      Confirmed(a, t) ==
        /\ Flow(a).kind = "branch" /\ Flow(a).pure /\ Flow(a).fall = {}
        /\ Flow(a).targets = {t} /\ Within(a, Flow(a).length)
        /\ a \in w.entries \union DOMAIN w.landing
        /\ t \notin {a, Entry(a)} /\ (t \in w.visited => t \in w.entries)
        /\ ~Inside(t, {<<f, functions[f]>> : f \in DOMAIN functions} \union w.extents)
        /\ Decodes(t) /\ Within(t, Flow(t).length)
      jumps == {a \in asked : \E t \in Flow(a).targets : Confirmed(a, t)}
  IN  [a \in jumps |-> CHOOSE t \in Flow(a).targets : TRUE]

\* The targets of unconditional jumps that a linkage stub may be at.
LinkageCandidates(w, asked) ==
  LET jumped == UNION {Flow(a).targets :
                         a \in {b \in asked : Flow(b).kind = "branch"
                                                 /\ Flow(b).targets = Flow(b).first}}
  IN  IF ~HasSlots THEN {}
      ELSE {t \in jumped : /\ InCode(t) /\ t \notin w.visited \union w.entries
                           /\ ~Inside(t, w.extents)
                           /\ ~Inside(t, {<<a, Flow(a).length>> : a \in asked})}
-----------------------------------------------------------------------------
NoWalk ==
  [entries |-> {}, origin |-> <<>>, bodies |-> <<>>, visited |-> {}, active |-> {},
   extents |-> {}, calls |-> {}, conditional |-> {}, mergeable |-> {}, edges |-> {},
   landing |-> <<>>, thunkCandidates |-> {}, thunkRoots |-> <<>>,
   continuations |-> <<>>, thunkJumps |-> {}, linkage |-> {}, endings |-> {},
   branchTargets |-> {}, contextEdges |-> {}, candidates |-> {}]

Init ==
  /\ program \in Programs
  /\ phase = IF program.mapped THEN "sweep" ELSE "start"
  /\ functions = program.functions /\ xrefs = {}
  /\ walk = NoWalk /\ queue = <<>> /\ chunk = <<>> /\ thunks = <<>>
  /\ starts = [candidates |-> {}, before |-> {}, rejected |-> {}] /\ failed = FALSE

\* close_call_targets: every call's target in code is a function.
CloseCallTargets(known, pairs) ==
  InsertAll([t \in {p[2] : p \in {q \in pairs : InCode(q[2])}} |-> 1], known)

\* try_flow_batch never errors: where a batch of the sweep fails, each of its
\* addresses is answered with a length of 1 and does not decode, and what follows
\* takes that for its answer.
Lose(p, lost) ==
  LET fallback == [kind |-> "bad", length |-> 1, targets |-> {}, first |-> {}, fall |-> {},
                   conditional |-> FALSE, pure |-> FALSE, noop |-> FALSE]
  IN  [p EXCEPT !.flow =
         [a \in DOMAIN p.flow |-> IF a \in lost THEN fallback ELSE p.flow[a]]]

\* Some of what is asked of a console that may fail goes unanswered.
Unanswered(asked) == IF program.fails THEN SUBSET asked ELSE {{}}

\* The failure of ConsoleProvider is set if an answer was missed; a query whose
\* answers change nothing may have failed too.
Missed(some) == \/ program.fails /\ failed' = TRUE
                \/ ~some /\ UNCHANGED failed

\* The linear sweep of discover_mapped: one cursor per range, moved by the
\* decoder's lengths.
Sweep ==
  /\ phase = "sweep" /\ phase' = "start"
  /\ \E lost \in Unanswered({a \in DOMAIN program.flow : InCode(a)}) :
       LET image == Lose(program, lost)
           At(a) == image.flow[a]
           Positions(r) ==
             LET next[a \in Int] ==
                   IF a >= r[2] THEN {} ELSE {a} \union next[a + At(a).length]
             IN  next[r[1]]
           Good(a) == At(a).kind \notin {"bad", "unimpl"}
           Before(a, r) == {b \in Positions(r) : b < a /\ Good(b)}
           Boundary(a, r) ==
             /\ Good(a)
             /\ Before(a, r) = {} \/ At(Max(Before(a, r))).kind = "return"
           swept == UNION {Positions(r) : r \in program.ranges}
           called == UNION {{<<a, t>> : t \in At(a).targets} :
                              a \in {b \in swept : At(b).kind = "call"}}
       IN  /\ lost \subseteq swept
           /\ program' = image
           /\ xrefs' = {p \in called : InCode(p[2])}
           /\ functions' = CloseCallTargets(functions, xrefs')
           /\ walk' = [walk EXCEPT !.candidates =
                         UNION {{a \in Positions(r) : Boundary(a, r)} : r \in program.ranges}]
  /\ UNCHANGED <<queue, chunk, thunks, starts, failed>>

\* The linkage table's entries that prove their slot are functions; then the
\* trusted entries are walked.
Start ==
  /\ phase = "start" /\ phase' = "seeds"
  /\ LET stubs == {p \in program.plt :
                     LET l == program.linkages[p[1]]
                     IN  /\ HasSlots /\ l.length # 0 /\ l.length <= p[2]
                         /\ l.slot \in program.slots /\ Within(p[1], l.length)
                         /\ p[1] \notin DOMAIN functions}
     IN  \E lost \in Unanswered(stubs) :
           LET proved == {p[1] : p \in stubs \ lost}
               known == InsertAll(functions,
                                  [f \in proved |-> program.linkages[f].length])
               seeds == {f \in DOMAIN known \union program.slots : f # 0 /\ InCode(f)}
           IN  /\ functions' = known
               /\ walk' = [walk EXCEPT !.entries = seeds, !.active = seeds,
                                       !.origin = [f \in seeds |-> f]]
               /\ Missed(lost # {})
  /\ UNCHANGED <<program, xrefs, queue, chunk, thunks, starts>>

Walking == phase \in {"seeds", "relocs", "patterns"}

\* Fault: an address is asked about again each time it is reached.
ToQueryAgain(w) == {a \in w.active : a # 0 /\ InCode(a)}

ToQuery(w) == {a \in w.active : a # 0 /\ InCode(a) /\ a \notin w.visited}

Round ==
  /\ Walking /\ queue = <<>> /\ chunk = <<>> /\ ToQuery(walk) # {}
  /\ queue' = InOrder(ToQuery(walk))
  /\ walk' = [walk EXCEPT !.visited = @ \union ToQuery(walk), !.active = {}]
  /\ UNCHANGED <<program, phase, functions, xrefs, chunk, thunks, starts, failed>>

\* flow(chunk): a batch that fails is dropped whole, and remembered.  What
\* confirmed_thunks asks next may go unanswered too: the chunk is walked all the same.
QueryChunk ==
  LET asked == SubSeq(queue, 1, Min({ChunkSize, Len(queue)}))
      set == ToSet(asked)
      linked == [walk EXCEPT !.linkage = @ \union LinkageCandidates(walk, set)]
  IN  /\ Walking /\ queue # <<>> /\ chunk = <<>>
      /\ queue' = SubSeq(queue, Len(asked) + 1, Len(queue))
      /\ \/ /\ chunk' = asked
            /\ IF phase = "seeds"
               THEN LET confirmed == ConfirmedThunks(linked, set)
                    IN  /\ walk' = linked
                        /\ \E lost \in Unanswered(DOMAIN confirmed) :
                             /\ thunks' = Restrict(confirmed, DOMAIN confirmed \ lost)
                             /\ Missed(lost # {})
               ELSE UNCHANGED <<walk, failed>> /\ thunks' = <<>>
         \/ /\ program.fails /\ failed' = TRUE /\ chunk' = <<>>
            /\ UNCHANGED <<walk, thunks>>
      /\ UNCHANGED <<program, phase, functions, xrefs, starts>>

WalkInstruction ==
  /\ Walking /\ chunk # <<>>
  /\ chunk' = Tail(chunk)
  /\ walk' = Instruction(walk, Head(chunk))
  /\ UNCHANGED <<program, phase, functions, xrefs, queue, thunks, starts, failed>>

Walked == queue = <<>> /\ chunk = <<>> /\ ToQuery(walk) = {}
Extents == SizedFunctions \union walk.extents

\* The confirmed candidates are entries, and are walked next.
Enter(w, found, mergeable) ==
  [w EXCEPT !.entries = @ \union found, !.origin = InsertAll(@, [c \in found |-> c]),
            !.active = found, !.mergeable = mergeable]

\* The relocation, pointer and initializer candidates that decode outside every
\* body, and do not fall into an entry; none if the console does not answer.
ConfirmCandidates ==
  LET Valid(c) == /\ InCode(c) /\ c \notin walk.visited \union walk.entries
                  /\ ~Inside(c, Extents)
                  /\ Decodes(c)
                  /\ Flow(c).kind = "fall" => Flow(c).fall \intersect walk.entries = {}
      valid == {c \in program.relocs \union walk.candidates : Valid(c)}
  IN  /\ phase = "seeds" /\ Walked /\ phase' = "relocs"
      /\ \E confirmed \in {valid} \union (IF program.fails THEN {{}} ELSE {}) :
           /\ walk' = Enter(walk, confirmed, confirmed \union walk.thunkCandidates)
           /\ Missed(confirmed # valid)
      /\ UNCHANGED <<program, functions, xrefs, queue, chunk, thunks, starts>>

\* What patterns::collect knows besides the instructions and the entries.
Surroundings ==
  [flow |-> program.flow, bytes |-> program.bytes, blocks |-> program.blocks,
   data |-> program.data, pointed |-> program.pointed,
   called |-> {x[2] : x \in xrefs}, alignment |-> program.alignment]

\* A matched pattern has an action that collect does not support.
Unsupported ==
  Refusal(program.hits, Surroundings, walk.entries, SizedFunctions, walk.extents,
          walk.conditional)

\* What ends discovery before its time: no console session, an image that it does not
\* load or no patterns, and a pattern's action that is not supported.  A seeded import
\* goes on with what the loader knew, a mapped one fails.
GiveUp ==
  /\ \/ phase \in {"sweep", "start"} /\ program.fails
     \/ phase = "relocs" /\ Walked /\ Unsupported
  /\ phase' = "error"
  /\ UNCHANGED <<program, functions, xrefs, walk, queue, chunk, thunks, starts, failed>>

\* The pattern candidates: their prerequisites, then whether they decode.  A
\* console that does not answer loses hits, or all that is to be confirmed.
ConfirmPatterns ==
  LET Collected(hits) == Collect(hits, Surroundings, walk.entries, SizedFunctions,
                                 walk.extents, walk.conditional)
      Found(collected) ==
        {c.address : c \in {d \in collected :
           InCode(d.address) /\ d.address \notin walk.visited \union walk.entries
             /\ Decodes(d.address)}}
  IN  /\ phase = "relocs" /\ Walked /\ phase' = "patterns" /\ ~Unsupported
      /\ \E hits \in {program.hits} \union (IF program.fails THEN SUBSET program.hits ELSE {}) :
           LET collected == Collected(hits) IN
           /\ starts' = [candidates |-> collected, before |-> walk.entries, rejected |-> {}]
           /\ \E found \in {Found(collected)} \union (IF program.fails THEN {{}} ELSE {}) :
                /\ walk' = Enter(walk, found, {})
                /\ Missed(collected # Collected(program.hits) \/ found # Found(collected))
      /\ UNCHANGED <<program, functions, xrefs, queue, chunk, thunks>>

\* Fault: a conditional jump met since the candidates were collected is missed.
RejectRunInto(c, r, established) ==
  LET owners == {Owner(r.walk, e[2]) : e \in {d \in r.walk.edges : d[1] = c}} \ {c}
  IN  IF c \in r.rejected \/ owners \intersect established = {} THEN r
      ELSE [rejected |-> r.rejected \union {c}, walk |-> r.walk]

\* A possible start is rejected if a conditional jump leads to it or an
\* established function runs into it.
Reject(c, r, established) ==
  LET owners == {o \in {Owner(r.walk, e[2]) : e \in {d \in r.walk.edges : d[1] = c}} :
                   o # c /\ o \notin r.rejected}
      owner == IF owners \intersect established # {}
               THEN Min(owners \intersect established) ELSE Min(owners)
      out == r.rejected \union {c}
  IN  IF c \in r.rejected
         \/ (c \notin r.walk.conditional /\ owners \intersect established = {})
      THEN r
      ELSE [rejected |-> out,
            walk |-> IF owners = {} THEN r.walk
                     ELSE MergeReached(r.walk, c, owner, out)]

\* A pass over the possible starts; each rejection may settle another, so
\* passes go on until one rejects nothing.
RejectPatterns ==
  LET called == {p[2] : p \in walk.calls}
      possible == {c.address : c \in {d \in starts.candidates : d.possible}} \ called
      definite == {c.address : c \in {d \in starts.candidates : ~d.possible}}
      pass == FoldLeft(LAMBDA r, c : Reject(c, r, starts.before \union called \union definite),
                       [walk |-> walk, rejected |-> starts.rejected],
                       InOrder(possible))
      settled == pass.rejected = starts.rejected
  IN  /\ phase = "patterns" /\ Walked
      /\ starts' = [starts EXCEPT !.rejected = pass.rejected]
      /\ walk' = IF settled THEN [walk EXCEPT !.entries = @ \ starts.rejected] ELSE pass.walk
      /\ phase' = IF settled THEN "linkages" ELSE phase
      /\ UNCHANGED <<program, functions, xrefs, queue, chunk, thunks, failed>>
-----------------------------------------------------------------------------
(***************************************************************************)
(* Linkage stubs, and the end.                                             *)
(***************************************************************************)
\* linkage_flow_shape: contiguous instructions, at most eight, up to an
\* indirect jump.
LinkageShape(w, t) ==
  LET ends == {e \in w.endings : e[1] >= t}
      terminal == Min({e[1] : e \in ends})
      between == {k \in w.extents : t <= k[1] /\ k[1] <= terminal}
  IN  /\ ends # {} /\ <<terminal, TRUE>> \in ends
      /\ Cardinality(between) \in 1 .. 8
      /\ t \in {k[1] : k \in between} /\ terminal \in {k[1] : k \in between}
      /\ \A k \in between : k[2] # 0 /\ (k[1] = terminal \/ k[1] + k[2] \in {l[1] : l \in between})
      /\ \A k, l \in between : k[1] < l[1] => k[1] + k[2] <= l[1]

\* promote_linkage: a stub that reaches an imported slot is a function.
PromoteLinkage(p, t, slot) ==
  LET length == program.linkages[t].length
      own == {k[1] : k \in {l \in p.walk.extents : t <= l[1] /\ l[1] - t < length}}
  IN  IF length = 0 \/ t \in DOMAIN p.functions \/ ~Within(t, length)
         \/ slot \notin program.slots
      THEN p
      ELSE [functions |-> Insert(p.functions, t, length),
            walk |-> [p.walk EXCEPT !.entries = @ \union {t},
                                    !.origin = InsertAll(@, [a \in own \union {t} |-> t])],
            changed |-> TRUE]

\* Fault: the first caller's slot is taken for all.
ContextSlotFirst(w, t) ==
  LET callers == {e[2] : e \in {d \in w.contextEdges : d[1] = t}}
  IN  IF callers = {} THEN {} ELSE {program.contexts[Min(callers)]} \ {0}

\* The slot of a stub that needs its callers' context: all of them prove the
\* same, each in a straight line from its own function's entry.
ContextSlot(w, t) ==
  LET callers == {e[2] : e \in {d \in w.contextEdges : d[1] = t}}
      Straight(b) ==
        LET o == Owner(w, b)
        IN  /\ o <= b /\ Within(o, b + 1 - o)
            /\ ~\E x \in w.branchTargets \union w.entries : o < x /\ x <= b
      slots == {program.contexts[b] : b \in callers}
  IN  IF /\ 0 \notin slots /\ \A s, u \in slots : s = u
         /\ \A b \in callers : Straight(b)
      THEN slots ELSE {}

\* The bodies of the owners in `owner`, each up to the last of its ends.
Gathered(owner, end) ==
  [o \in Range(owner) |-> Max({end[x] : x \in {y \in DOMAIN owner : owner[y] = o}})]

\* The bodies once an address has a new owner.
RebuiltBodies(w) ==
  Gathered([k \in w.extents |-> Owner(w, k[1])], [k \in w.extents |-> k[1] + k[2]])

\* The stubs that prove their own slot, then those that need their callers' context;
\* a stub that does and that a conditional jump leads to is left out (needs_context).
\* The console may not answer what a stub is, or for its callers.
PromoteLinkages ==
  LET shaped == {t \in walk.linkage : LinkageShape(walk, t)}
  IN  /\ phase = "linkages" /\ phase' = "finish"
      /\ \E lost \in Unanswered(shaped) :
           LET plain == {t \in shaped \ lost : ~program.linkages[t].context}
               contextual == {t \in shaped \ lost : program.linkages[t].context
                                                      /\ t \notin walk.conditional}
               direct == FoldLeft(LAMBDA p, t :
                                    PromoteLinkage(p, t, program.linkages[t].slot),
                                  [functions |-> functions, walk |-> walk, changed |-> FALSE],
                                  InOrder(plain))
           IN  \E mute \in Unanswered(contextual) :
                 LET all == FoldLeft(LAMBDA p, t :
                                       IF ContextSlot(p.walk, t) = {} THEN p
                                       ELSE PromoteLinkage(p, t, CHOOSE s \in ContextSlot(p.walk, t) : TRUE),
                                     direct,
                                     InOrder((contextual \ mute) \ direct.walk.entries))
                 IN  /\ functions' = all.functions
                     /\ walk' = IF all.changed
                                THEN [all.walk EXCEPT !.bodies = RebuiltBodies(all.walk)]
                                ELSE walk
                     /\ Missed(lost \union mute # {})
      /\ UNCHANGED <<program, xrefs, queue, chunk, thunks, starts>>

\* The bodies under their final owners.
CanonicalBodies(w) == Gathered([f \in DOMAIN w.bodies |-> Owner(w, f)], w.bodies)

\* An entry that belongs to another function is dropped, the rest join the
\* functions; sizes are the bodies'; every call's target in code is a function.
Finish ==
  LET kept == {e \in walk.entries : Owner(walk, e) = e}
      bodies == CanonicalBodies(walk)
      known == InsertAll([e \in kept |-> 1], functions)
      sized == [f \in DOMAIN known |-> IF f \in DOMAIN bodies
                                       THEN Max({bodies[f] - f, 1}) ELSE known[f]]
  IN  /\ phase = "finish"
      /\ phase' = IF failed /\ program.mapped THEN "error" ELSE "done"
      /\ xrefs' = xrefs \union walk.calls
      /\ functions' = CloseCallTargets(sized, xrefs')
      /\ UNCHANGED <<program, walk, queue, chunk, thunks, starts, failed>>

Stop == phase \in {"done", "error"} /\ UNCHANGED vars

Next ==
  \/ Sweep \/ Start \/ Round \/ QueryChunk \/ WalkInstruction \/ ConfirmCandidates
  \/ ConfirmPatterns \/ RejectPatterns \/ PromoteLinkages \/ Finish \/ GiveUp \/ Stop

Spec == Init /\ [][Next]_vars
-----------------------------------------------------------------------------
(***************************************************************************)
(* What discovery owes the import.                                         *)
(***************************************************************************)
Addresses == DOMAIN program.flow

\* The flow of control, without calls, of the instructions that decode; and
\* what the walk follows of it.
Flows(i) == i.fall \union (IF IsJump(i) THEN i.targets ELSE {})
Followed(i) == i.fall \union (IF i.kind \in {"branch", "cbranch"} THEN i.first ELSE {})
Edges == UNION {{<<e[1], t>> : t \in Flows(Flow(e[1]))} : e \in walk.extents}
\* The instructions that begin inside an indirect jump, each with the jump.
SharedBytes == {<<p[1][1], p[2][1]>> : p \in {q \in walk.extents \X walk.extents :
               Flow(q[1][1]).kind = "branchInd" /\ Inside(q[2][1], {q[1]})}}
FollowedEdges == UNION {{<<e[1], t>> : t \in Followed(Flow(e[1]))} : e \in walk.extents}
Reachable(from, edges) ==
  LET reach[n \in Nat] ==
        IF n = 0 THEN from
        ELSE LET known == reach[n - 1]
             IN  known \union {e[2] : e \in {d \in edges : d[1] \in known}}
  IN  reach[Cardinality(Addresses)]
Complete == phase = "done" /\ (program.mapped \/ ~failed)

\* Following the links of addr_origin always ends at an entry that owns itself, in
\* whatever order the walks of several functions meet: merges never close a cycle,
\* which get_canonical_origin would leave by its hop limit at an address that owns
\* nothing.
OwnersEnd ==
  \A a \in DOMAIN walk.origin :
    LET o == Owner(walk, a) IN o \in DOMAIN walk.origin /\ walk.origin[o] = o

\* No instruction is given to a function that no flow of control joins it to: in
\* the end an owner and its instructions are connected, whatever was merged.  A
\* stub's bytes are the stub's, so an instruction that begins inside its indirect
\* jump is joined to that.
OwnersAreJoined ==
  phase = "done" =>
    LET edges == Edges \union SharedBytes
        both == edges \union {<<e[2], e[1]>> : e \in edges}
    IN  \A e \in walk.extents : e[1] \in Reachable({Owner(walk, e[1])}, both)

\* Nothing reachable is missed: from every function, each instruction that its
\* calls, its fallthrough and the first target of its direct jumps lead to in
\* code was walked, and if a call of it leads to an address in code, there is a
\* function there, whatever was merged (the worklist's closure,
\* close_call_targets).  Address 0 is no address to the walk, and one that the sweep
\* got no answer for leads nowhere.
ReachIsWalked ==
  Complete =>
    LET calls == UNION {{<<e[1], t>> : t \in Flow(e[1]).targets} :
                          e \in {x \in walk.extents : Flow(x[1]).kind = "call"}}
        reached == {a \in Reachable(DOMAIN functions, FollowedEdges \union calls) :
                      InCode(a) /\ a # 0}
    IN  /\ reached \subseteq walk.visited
        /\ {a \in reached : Decodes(a)} \subseteq {e[1] : e \in walk.extents}
        /\ \A c \in calls : InCode(c[2]) /\ c[2] # 0 => c[2] \in DOMAIN functions

\* A function's size covers every instruction it owns, those that were merged
\* into it with another entry's body included (proven_bodies).  An instruction that
\* is called or a thunk's target may have been walked for another owner before,
\* whose body keeps it: EntriesAreCovered.
BodiesCover ==
  phase = "done" =>
    \A e \in walk.extents :
      LET f == Owner(walk, e[1])
      IN  /\ f \in DOMAIN functions /\ f <= e[1]
          /\ e[1] \notin {p[2] : p \in walk.calls \union walk.thunkJumps}
          => e[1] + e[2] <= f + functions[f]

\* What is said of a function's size ("number of bytes in the function body
\* footprint"): it is no less than the function's own first instruction.  An
\* address that is called only after another function ran into it has lost that
\* instruction to the other's body, and ends with size 1.
EntriesAreCovered ==
  phase = "done" =>
    \A e \in walk.extents :
      e[1] \in DOMAIN functions /\ Owner(walk, e[1]) = e[1] => e[2] <= functions[e[1]]

\* A possible start that a conditional jump refers to, even one found only by
\* the walks of the pattern batch itself, does not become a function unless a
\* call leads to it ("remains code rather than becoming a separate function").
PossibleStartsSettle ==
  phase = "done" =>
    \A c \in starts.candidates :
      c.possible /\ c.address \in walk.conditional /\ c.address \in DOMAIN functions
        => \/ c.address \in {p[2] : p \in xrefs}
           \/ c.address \in DOMAIN program.functions
           \/ c.address \in {p[1] : p \in program.plt}
           \/ c.address \in walk.linkage

\* The unconditional jumps that were walked, lie whole in code, and go to t alone.
JumpsTo(t) ==
  {b \in {e[1] : e \in walk.extents} :
     Flow(b).kind = "branch" /\ Flow(b).targets = {t} /\ Within(b, Flow(b).length)}

\* A stub that needs its callers' context is a function only if every jump to it
\* proves the same imported slot, whichever batches the jumps were found in, unless
\* it is a function for another reason: it is given, called, or the target of a
\* thunk.
ContextsAgree ==
  phase = "done" =>
    \A t \in (walk.linkage \intersect DOMAIN functions) \ {0} :
      /\ program.linkages[t].context
      /\ t \notin DOMAIN program.functions \union {p[2] : p \in xrefs \union walk.thunkJumps}
      => \A b \in JumpsTo(t) :
           /\ program.contexts[b] \in program.slots
           /\ \A d \in JumpsTo(t) : program.contexts[d] = program.contexts[b]

\* Only what is inside another function is dropped: "an entry plus an internal
\* relocation target cannot both become functions."  An entry that is not a
\* function in the end is reached, without a call, from the function it was
\* merged into.
DroppedIsInternal ==
  phase = "done" =>
    \A e \in walk.entries \ DOMAIN functions :
      e \in Reachable({Owner(walk, e)}, Edges)

Parts == <<"sweep", "start", "seeds", "relocs", "patterns", "linkages", "finish",
           "done", "error">>
Part(p) == CHOOSE i \in DOMAIN Parts : Parts[i] = p
Measure(p, w, r, q, c) ==
  <<Part(p), Cardinality(w.visited), Cardinality(r.rejected), -Len(q), -Len(c)>>
Before(m, n) == \E i \in 1 .. 5 : m[i] < n[i] /\ \A j \in 1 .. i - 1 : m[j] <= n[j]

\* Discovery ends, and asks about each address once per walk: every step goes to
\* a later part, visits more, rejects more, or takes from what was asked.
DiscoveryAdvances ==
  [][Before(Measure(phase, walk, starts, queue, chunk),
            Measure(phase', walk', starts', queue', chunk'))]_vars
=============================================================================
