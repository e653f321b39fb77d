----------------------------- MODULE FlowGraph -----------------------------
(***************************************************************************)
(* The graph of a function (crates/lre-core/src/graph.rs): basic_blocks    *)
(* walks it from its entry, layered_layout ranks the blocks and orders     *)
(* each rank.                                                              *)
(*                                                                         *)
(* A program maps the addresses that can be read to instructions           *)
(* [len, flow, to]; the flow is "next", "jump", "cond", "call", "stop"     *)
(* (indirect flow included) or "bad".  The coordinates of a box are fixed  *)
(* multiples of its rank and order and are left out.                       *)
(***************************************************************************)
EXTENDS Integers, Sequences, FiniteSets, SequencesExt

Edge(from, to, kind) == [from |-> from, to |-> to, kind |-> kind]

\* Fault: a target below the block that is walked is taken for walked.
QueueForward(s, target, max) ==
  IF target \in s.visited \/ target < s.block \/ s.count >= max THEN s
  ELSE [s EXCEPT !.starts = @ \cup {target}, !.queue = Append(@, target)]

\* A target not walked yet starts a block.
Queue(s, target, max) ==
  IF target \in s.visited \/ s.count >= max THEN s
  ELSE [s EXCEPT !.starts = @ \cup {target}, !.queue = Append(@, target)]

\* The block being walked ends before an address.
EndBlock(s, end) ==
  [s EXCEPT !.at = -1, !.ends = @ \cup {<<s.block, end>>}]

\* One instruction of the walk.
WalkOne(program, s, max) ==
  LET i == program[s.at]
      next == s.at + i.len
      seen == [s EXCEPT !.count = @ + 1, !.visited = @ \cup {s.at}]
      With(t, to, kind) == [t EXCEPT !.edges = Append(@, Edge(s.block, to, kind))]
  IN  CASE i.flow = "next" -> [seen EXCEPT !.at = next]
        [] i.flow = "call" -> [With(seen, i.to, "call") EXCEPT !.at = next]
        [] i.flow = "jump" -> EndBlock(Queue(With(seen, i.to, "unconditional"), i.to, max), next)
        [] i.flow = "cond" ->
             EndBlock(Queue(Queue(With(With(seen, i.to, "true"), next, "false"), i.to, max),
                            next, max), next)
        [] i.flow = "stop" -> EndBlock(seen, next)
        [] i.flow = "bad" -> EndBlock(seen, s.at + 1)

WalkState ==
  [queue : Seq(Int), block : Int, at : Int, starts : SUBSET Int, visited : SUBSET Int,
   count : Nat, edges : Seq([from : Int, to : Int, kind : STRING]),
   ends : SUBSET (Int \X Int)]

\* The walk of basic_blocks: block by block, each until it ends, meets what was
\* walked before, or cannot be read.
Walk(program, entry, max) ==
  LET walk[s \in WalkState] ==
        IF s.at = -1
        THEN IF s.queue = <<>> THEN s
             ELSE walk[[s EXCEPT !.queue = Tail(@), !.block = Head(s.queue), !.at = Head(s.queue)]]
        ELSE IF s.count >= max \/ s.at \in s.visited \/ s.at \notin DOMAIN program
        THEN walk[[s EXCEPT !.at = -1]]
        ELSE walk[WalkOne(program, s, max)]
  IN  walk[[queue |-> <<entry>>, block |-> entry, at |-> -1, starts |-> {entry}, visited |-> {},
            count |-> 0, edges |-> <<>>, ends |-> {}]]

\* basic_blocks: a block with no end of its own reaches to the next one.
BasicBlocks(program, entry, max) ==
  LET w == Walk(program, entry, max)
      Size(b) ==
        LET later == {c \in w.starts : c > b}
            next == CHOOSE c \in later : \A d \in later : c <= d
            ended == {x \in w.ends : x[1] = b}
        IN  IF ended # {} THEN (CHOOSE x \in ended : TRUE)[2] - b
            ELSE IF later # {} THEN next - b ELSE 1
  IN  [nodes |-> [b \in w.starts |-> Size(b)],
       edges |-> SelectSeq(w.edges, LAMBDA e : e.from \in w.starts)]

(***************************************************************************)
(* layered_layout.                                                         *)
(***************************************************************************)

ShapingEdges(graph) == SelectSeq(graph.edges, LAMBDA e : e.kind # "call")
Successors(graph, a) ==
  LET out == SelectSeq(ShapingEdges(graph), LAMBDA e : e.from = a)
  IN  [i \in DOMAIN out |-> out[i].to]
Predecessors(graph, a) ==
  LET in == SelectSeq(ShapingEdges(graph), LAMBDA e : e.to = a)
  IN  [i \in DOMAIN in |-> in[i].from]

\* Where the code starts its layers, which need not be where the function is
\* entered.
LowestNode(graph) == CHOOSE a \in DOMAIN graph.nodes : \A b \in DOMAIN graph.nodes : a <= b

\* What can have a rank: the blocks and what they lead to; -1 is no rank.
Addresses(graph) == DOMAIN graph.nodes \cup {e.to : e \in Range(graph.edges)}

\* A rank is lowered, and its node looked at again, when a shorter way to it is
\* found.
Lower(s, to, rank) ==
  IF s.rank[to] # -1 /\ s.rank[to] <= rank THEN s
  ELSE [queue |-> Append(s.queue, to), rank |-> [s.rank EXCEPT ![to] = rank]]

\* The ranks, of the nodes that have one.
Ranks(graph) ==
  LET rank[s \in [queue : Seq(Int), rank : [Addresses(graph) -> Int]]] ==
        IF s.queue = <<>> THEN s.rank
        ELSE LET a == Head(s.queue)
             IN  rank[FoldLeft(LAMBDA t, to : Lower(t, to, s.rank[a] + 1),
                               [s EXCEPT !.queue = Tail(@)], Successors(graph, a))]
      first == LowestNode(graph)
      found == rank[[queue |-> <<first>>,
                     rank |-> [a \in Addresses(graph) |-> IF a = first THEN 0 ELSE -1]]]
  IN  [a \in {b \in Addresses(graph) : found[b] # -1} |-> found[a]]

\* order is a set of pairs <<address, place in its rank>>.
PlaceOf(order, a) == (CHOOSE o \in order : o[1] = a)[2]
HasPlace(order, a) == \E o \in order : o[1] = a

\* The mean order of a box's neighbours, as a fraction; one that is in no rank
\* counts as the first of its rank, and a box without neighbours keeps its own.
Barycenter(order, a, neighbours) ==
  IF neighbours = <<>> THEN <<PlaceOf(order, a), 1>>
  ELSE <<FoldLeft(LAMBDA sum, n : sum + (IF HasPlace(order, n) THEN PlaceOf(order, n) ELSE 0),
                  0, neighbours),
         Len(neighbours)>>
Below(p, q) == p[1] * q[2] < q[1] * p[2]

Scores(graph, order, level, down) ==
  {<<i, Barycenter(order, level[i],
                   IF down THEN Predecessors(graph, level[i]) ELSE Successors(graph, level[i]))>> :
     i \in DOMAIN level}

\* Fault: boxes of one barycenter get one place.
SortLevelTied(graph, order, level, down) ==
  LET scores == Scores(graph, order, level, down)
  IN  {o \in order : ~Contains(level, o[1])}
        \cup {<<level[s[1]], Cardinality({t \in scores : Below(t[2], s[2])})>> : s \in scores}

\* The stable sort of one level by barycenter: the new order.
SortLevel(graph, order, level, down) ==
  LET scores == Scores(graph, order, level, down)
      before(t, s) == Below(t[2], s[2]) \/ (~Below(s[2], t[2]) /\ t[1] < s[1])
  IN  {o \in order : ~Contains(level, o[1])}
        \cup {<<level[s[1]], Cardinality({t \in scores : before(t, s)})>> : s \in scores}

LayeredLayout(graph) ==
  LET rank == Ranks(graph)
      Level(r) == {a \in DOMAIN rank : rank[a] = r}
      depth == Cardinality({rank[a] : a \in DOMAIN rank})
      byAddress == {<<a, Cardinality({b \in Level(rank[a]) : b < a})>> : a \in DOMAIN rank}
      Sorted(r, order) == SetToSortSeq(Level(r), LAMBDA a, b : PlaceOf(order, a) < PlaceOf(order, b))
      sweep(order, levels, down) ==
        FoldLeft(LAMBDA o, level : SortLevel(graph, o, level, down), order, levels)
      pass(order) ==
        LET levels == [r \in 1..depth |-> Sorted(r - 1, order)]
        IN  sweep(sweep(order, levels, TRUE), Reverse(levels), FALSE)
      placed == FoldLeft(LAMBDA o, n : pass(o), byAddress, <<1, 2, 3, 4>>)
  IN  [a \in DOMAIN rank |-> [rank |-> rank[a], order |-> PlaceOf(placed, a)]]

-----------------------------------------------------------------------------
(***************************************************************************)
(* The transfers of a function, by definition, and its layers.             *)
(***************************************************************************)
FallsThrough(program, a) == program[a].flow \in {"next", "call", "cond"}
Follows(program, a) ==
  (IF FallsThrough(program, a) THEN {a + program[a].len} ELSE {})
    \cup (IF program[a].flow \in {"jump", "cond"} THEN {program[a].to} ELSE {})

Reached(program, entry) ==
  LET grow[S \in SUBSET Int] ==
        LET more == (S \cup UNION {Follows(program, a) : a \in S}) \cap DOMAIN program
        IN  IF more = S THEN S ELSE grow[more]
  IN  grow[{entry} \cap DOMAIN program]

Transfers(program, a) ==
  LET i == program[a]
  IN  CASE i.flow = "jump" -> {<<i.to, "unconditional">>}
        [] i.flow = "cond" -> {<<i.to, "true">>, <<a + i.len, "false">>}
        [] i.flow = "call" -> {<<i.to, "call">>}
        [] OTHER -> {}

\* a is on the straight line from b.
InLine(program, b, a) ==
  LET line[c \in Int] ==
        c = a \/ (c < a /\ c \in DOMAIN program /\ program[c].flow \in {"next", "call"}
                  /\ line[c + program[c].len])
  IN  line[b]

\* Every transfer of every instruction the entry reaches is one edge, from the
\* block whose straight line has the instruction, and nothing else is.
TransfersAreDrawn(program, entry, max) ==
  LET edges == BasicBlocks(program, entry, max).edges
      all == UNION {{<<a, t>> : t \in Transfers(program, a)} : a \in Reached(program, entry)}
      Draws(e, x) == <<e.to, e.kind>> = x[2] /\ InLine(program, e.from, x[1])
  IN  Cardinality(Reached(program, entry)) < max =>
        /\ Len(edges) = Cardinality(all)
        /\ \A x \in all : \E k \in DOMAIN edges : Draws(edges[k], x)
        /\ \A k \in DOMAIN edges : \E x \in all : Draws(edges[k], x)

\* The boxes of a rank have the places 0, 1, 2 and so on, whatever the passes
\* did to them, so that no two boxes of a layout cover each other; a box below
\* the first rank has a transfer into it from the rank above; and no block is
\* left out, if none lies below the entry.
LayoutIsLayered(graph, entry) ==
  LET layout == LayeredLayout(graph)
      OfRank(r) == {a \in DOMAIN layout : layout[a].rank = r}
  IN  /\ \A a \in DOMAIN layout :
           /\ {layout[b].order : b \in OfRank(layout[a].rank)}
                = 0 .. Cardinality(OfRank(layout[a].rank)) - 1
           /\ layout[a].rank > 0 =>
                \E b \in OfRank(layout[a].rank - 1) : a \in Range(Successors(graph, b))
      /\ (\A a \in DOMAIN graph.nodes : entry <= a) =>
           DOMAIN graph.nodes \subseteq DOMAIN layout

\* What a block leads to, in one transfer or more.
Onward(graph, a) ==
  LET grow[S \in SUBSET Int] ==
        LET more == S \cup UNION {Range(Successors(graph, b)) : b \in S}
        IN  IF more = S THEN S ELSE grow[more]
  IN  grow[Range(Successors(graph, a))]

\* In a graph without loops, whose transfers lead to blocks, a box is one rank
\* below the lowest of those that lead to it.
RanksAreLongest(graph) ==
  LET layout == LayeredLayout(graph)
      Above(a) == {layout[b].rank : b \in Range(Predecessors(graph, a)) \cap DOMAIN layout}
  IN  (\A a \in DOMAIN graph.nodes : Onward(graph, a) \subseteq DOMAIN graph.nodes \ {a}) =>
        \A a \in DOMAIN layout :
          layout[a].rank = IF Above(a) = {} THEN 0 ELSE Max(Above(a)) + 1

\* The entry has a box, in the first rank.
EntryIsFirst(graph, entry) ==
  LET layout == LayeredLayout(graph)
  IN  entry \in DOMAIN layout /\ layout[entry].rank = 0
=============================================================================
