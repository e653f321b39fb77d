-------------------------- MODULE DiscoveryProofs ---------------------------
(***************************************************************************)
(* Proofs about module Discovery, for every image and every chunk size.    *)
(*                                                                         *)
(* The steps of discovery fold its operators over sets and sequences of    *)
(* addresses.  The library's induction theorems cannot be used for them,   *)
(* but its theorems on well-founded orders can: what does not hold of all  *)
(* subsets of a finite set fails on a smallest one.                        *)
(***************************************************************************)
EXTENDS Discovery, FiniteSetTheorems, SequenceTheorems, WellFoundedInduction, TLAPS

-----------------------------------------------------------------------------
(* Smallest counterexamples. *)

\* A set of numbers that is not empty has a least one.
LEMMA LeastNumber ==
  ASSUME NEW S \in SUBSET Nat, S # {}
  PROVE  \E x \in S : \A y \in S : x <= y
<1> DEFINE Less == {p \in Nat \X Nat : p[1] < p[2]}
<1>1. IsWellFoundedOn(Less, Nat)
  BY NatLessThanWellFounded, Zenon DEF OpToRel
<1>2. \A x, y \in Nat : y < x => <<y, x>> \in Less
  OBVIOUS
<1> HIDE DEF Less
<1>3. PICK x \in S : \A y \in S : ~ (<<y, x>> \in Less)
  BY <1>1, WFMin, Zenon
<1>4. \A y \in S : ~ (y < x)
  BY <1>2, <1>3
<1> QED
  BY <1>4

\* Subsets of a finite set among which some exist have a smallest one.
LEMMA SmallestSubset ==
  ASSUME NEW S, IsFiniteSet(S), NEW T \in SUBSET SUBSET S, T # {}
  PROVE  \E s \in T : \A t \in T : t \subseteq s => t = s
<1> DEFINE Less == StrictSubsetOrdering(S)
<1>1. IsWellFoundedOn(Less, SUBSET S)
  BY FS_StrictSubsetOrderingWellFounded, FS_FiniteSubsetsOfFinite
<1>2. \A s, t \in SUBSET S : t \subseteq s /\ t # s => <<t, s>> \in Less
  BY DEF StrictSubsetOrdering
<1> HIDE DEF Less
<1>3. PICK s \in T : \A t \in T : ~ (<<t, s>> \in Less)
  BY <1>1, WFMin, Zenon
<1> QED
  BY <1>2, <1>3

\* A set of numbers with an upper bound has a greatest one.
LEMMA MaxIsGreatest ==
  ASSUME NEW n \in Nat, NEW S \in SUBSET (1 .. n), S # {}
  PROVE  Max(S) \in S /\ \A x \in S : x <= Max(S)
<1> DEFINE Above == {u \in Nat : \A x \in S : x <= u}
<1>1. n \in Above
  OBVIOUS
<1>2. PICK u \in Above : \A v \in Above : u <= v
  <2> HIDE DEF Above
  <2>1. Above \in SUBSET Nat
    BY DEF Above
  <2> QED
    BY <1>1, <2>1, LeastNumber
<1>3. u \in S
  <2> SUFFICES ASSUME u \notin S PROVE FALSE
    OBVIOUS
  <2>1. \A x \in S : x <= u - 1
    BY <1>2
  <2>2. u # 0
    <3>1. PICK x \in S : x \in 1 .. n
      OBVIOUS
    <3>2. x <= u
      BY <1>2, <3>1
    <3> QED
      BY <3>1, <3>2
  <2>3. u - 1 \in Above
    BY <1>2, <2>1, <2>2
  <2> QED
    BY <1>2, <2>3
<1>4. \A x \in S : x <= u
  BY <1>2
<1> QED
  BY <1>3, <1>4 DEF Max

-----------------------------------------------------------------------------
(* Sets of addresses in ascending order. *)

Below(S, a) == {b \in S : b < a}

\* A smaller address has fewer below it.
LEMMA BelowGrows ==
  ASSUME NEW S \in SUBSET Int, IsFiniteSet(S), NEW a \in S, NEW c \in S, a < c
  PROVE  /\ Cardinality(Below(S, a)) \in Nat /\ Cardinality(Below(S, c)) \in Nat
         /\ Cardinality(Below(S, a)) < Cardinality(Below(S, c))
<1>1. Below(S, c) \in SUBSET S /\ Below(S, a) \in SUBSET Below(S, c)
  <2>1. \A b \in S : b < a => b < c
    OBVIOUS
  <2> QED
    BY <2>1 DEF Below
<1>5. IsFiniteSet(Below(S, c))
  BY <1>1, FS_Subset
<1>2. a \in Below(S, c) /\ a \notin Below(S, a)
  BY DEF Below
<1>3. /\ IsFiniteSet(Below(S, a))
      /\ Cardinality(Below(S, a)) <= Cardinality(Below(S, c))
      /\ Cardinality(Below(S, a)) # Cardinality(Below(S, c))
  BY <1>5, <1>1, <1>2, FS_Subset
<1>4. Cardinality(Below(S, a)) \in Nat /\ Cardinality(Below(S, c)) \in Nat
  BY <1>5, <1>3, FS_CardinalityType
<1> QED
  BY <1>3, <1>4

LEMMA BelowIsLess ==
  ASSUME NEW S \in SUBSET Int, IsFiniteSet(S), NEW a \in S
  PROVE  Cardinality(Below(S, a)) \in 0 .. Cardinality(S) - 1
<1>1. Below(S, a) \in SUBSET S /\ a \notin Below(S, a)
  BY DEF Below
<1>2. Cardinality(Below(S, a)) <= Cardinality(S) /\ Cardinality(Below(S, a)) # Cardinality(S)
  BY <1>1, FS_Subset
<1>3. Cardinality(Below(S, a)) \in Nat /\ Cardinality(S) \in Nat
  BY <1>1, FS_Subset, FS_CardinalityType
<1> QED
  BY <1>2, <1>3

\* InOrder lists the members of a set of addresses, and nothing else.
LEMMA InOrderLists ==
  ASSUME NEW S \in SUBSET Int, IsFiniteSet(S)
  PROVE  /\ Cardinality(S) \in Nat
         /\ InOrder(S) \in [1 .. Cardinality(S) -> S]
         /\ \A a \in S : \E i \in 1 .. Cardinality(S) : InOrder(S)[i] = a
<1> DEFINE n == Cardinality(S)
           Place == [a \in S |-> Cardinality(Below(S, a)) + 1]
<1>1. n \in Nat
  BY FS_CardinalityType
<1>2. Place \in [S -> 1 .. n]
  <2>1. \A a \in S : Cardinality(Below(S, a)) + 1 \in 1 .. n
    BY <1>1, BelowIsLess
  <2> QED
    BY <2>1
<1>3. \A a, c \in S : Place[a] = Place[c] => a = c
  BY BelowGrows
<1>4. Place \in Surjection(S, 1 .. n)
  <2>1. Place \in Injection(S, 1 .. n)
    BY <1>2, <1>3 DEF Injection, IsInjective
  <2>2. IsFiniteSet(1 .. n) /\ Cardinality(1 .. n) = n
    BY <1>1, FS_Interval
  <2> QED
    BY <2>1, <2>2, FS_Injection
<1>5. \A i \in 1 .. n : \E a \in S : Cardinality(Below(S, a)) = i - 1
  <2> TAKE i \in 1 .. n
  <2>1. PICK a \in S : Place[a] = i
    BY <1>4 DEF Surjection
  <2>2. Cardinality(Below(S, a)) \in Int
    BY <1>1, BelowIsLess
  <2> QED
    BY <2>1, <2>2
<1>6. InOrder(S) = [i \in 1 .. n |-> CHOOSE a \in S : Cardinality(Below(S, a)) = i - 1]
  BY DEF InOrder, Below
<1>7. \A i \in 1 .. n : InOrder(S)[i] \in S /\ Cardinality(Below(S, InOrder(S)[i])) = i - 1
  BY <1>5, <1>6
<1>8. \A a \in S : \E i \in 1 .. n : InOrder(S)[i] = a
  <2> TAKE a \in S
  <2>1. Place[a] \in 1 .. n
    BY <1>2
  <2>2. PICK i \in 1 .. n : i = Place[a]
    BY <2>1
  <2>3. Place[InOrder(S)[i]] = i
    BY <1>7
  <2>4. InOrder(S)[i] = a
    BY <1>3, <1>7, <2>2, <2>3
  <2> QED
    BY <2>4
<1> QED
  BY <1>1, <1>6, <1>7, <1>8

-----------------------------------------------------------------------------
(* Folds.  The operators that discovery folds, as one of them: f says which *)
(* and with what.                                                          *)

Turn(f, x, v) ==
  CASE f.of = "merge" -> MergeReached(v, x, f.root, f.mergeable)
    [] f.of = "reject" -> Reject(x, v, f.established)
    [] f.of = "promote" -> PromoteLinkage(v, x, program.linkages[x].slot)
    [] OTHER -> IF ContextSlot(v.walk, x) = {} THEN v
                ELSE PromoteLinkage(v, x, CHOOSE s \in ContextSlot(v.walk, x) : TRUE)

\* The function by which a fold is defined: pick chooses which member of a set is
\* folded last, and at says what is folded for it.
Folds(g, f, base, pick, at, sets) ==
  g = [s \in sets |-> IF s = {} THEN base
                      ELSE Turn(f, at[pick[s]], g[s \ {pick[s]}])]

\* It exists: it is defined on sets of one more member from those of one fewer.
LEMMA FoldExists ==
  ASSUME NEW S, IsFiniteSet(S), NEW f, NEW base, NEW pick, NEW at,
         \A s \in SUBSET S : s # {} => pick[s] \in s
  PROVE  \E g : Folds(g, f, base, pick, at, SUBSET S)
<1> DEFINE Upto(k) == {s \in SUBSET S : Cardinality(s) <= k}
           Good(k) == \E g : Folds(g, f, base, pick, at, Upto(k))
           Bad == {k \in Nat : ~ Good(k)}
<1>1. \A s \in SUBSET S : IsFiniteSet(s) /\ Cardinality(s) \in Nat
  BY FS_Subset, FS_CardinalityType
<1>2. \A s \in SUBSET S : s # {} => /\ s \ {pick[s]} \in SUBSET S
                                    /\ Cardinality(s \ {pick[s]}) = Cardinality(s) - 1
  BY <1>1, FS_RemoveElement
<1>3. Good(0)
  <2>1. \A s \in Upto(0) : s = {}
    BY <1>1, FS_EmptySet
  <2> DEFINE g == [s \in Upto(0) |-> base]
  <2>2. Folds(g, f, base, pick, at, Upto(0))
    BY <2>1 DEF Folds
  <2> QED
    BY <2>2
<1>4. ASSUME NEW k \in Nat, k # 0, Good(k - 1) PROVE Good(k)
  <2>1. PICK g : Folds(g, f, base, pick, at, Upto(k - 1))
    BY <1>4
  <2> DEFINE Value(e, s) == IF s = {} THEN base ELSE Turn(f, at[pick[s]], e[s \ {pick[s]}])
             h == [s \in Upto(k) |-> Value(g, s)]
  <2>2. \A s \in Upto(k - 1) : s \in Upto(k) /\ g[s] = Value(g, s)
    <3>1. \A s \in Upto(k - 1) : s \in Upto(k)
      BY <1>1
    <3>2. g = [s \in Upto(k - 1) |-> Value(g, s)]
      BY <2>1 DEF Folds
    <3> HIDE DEF Value
    <3>3. \A s \in Upto(k - 1) : g[s] = Value(g, s)
      <4> HIDE DEF Upto
      <4> QED
        BY <3>2
    <3> QED
      BY <3>1, <3>3
  <2>3. \A s \in Upto(k) : s # {} => s \ {pick[s]} \in Upto(k - 1)
    BY <1>1, <1>2
  <2>4. \A s \in Upto(k) : Value(h, s) = Value(g, s)
    <3> TAKE s \in Upto(k)
    <3>1. CASE s = {}
      BY <3>1
    <3>2. CASE s # {}
      <4> DEFINE u == s \ {pick[s]}
      <4>1. u \in Upto(k - 1)
        BY <2>3, <3>2
      <4>2. h[u] = g[u]
        <5> HIDE DEF u, Upto, Value
        <5>1. u \in Upto(k) /\ g[u] = Value(g, u)
          BY <2>2, <4>1
        <5> QED
          BY <5>1
      <4> QED
        BY <3>2, <4>2
    <3> QED
      BY <3>1, <3>2
  <2>5. h = [s \in Upto(k) |-> Value(h, s)]
    <3> HIDE DEF Value, Upto
    <3>1. \A s \in Upto(k) : h[s] = Value(h, s)
      BY <2>4
    <3>2. h = [s \in Upto(k) |-> h[s]]
      OBVIOUS
    <3> HIDE DEF h
    <3> QED
      BY <3>1, <3>2
  <2>6. Folds(h, f, base, pick, at, Upto(k))
    BY <2>5 DEF Folds
  <2> QED
    BY <2>6
<1>5. Bad = {}
  <2> HIDE DEF Good
  <2> SUFFICES ASSUME Bad # {} PROVE FALSE
    OBVIOUS
  <2>1. PICK k \in Bad : \A m \in Bad : k <= m
    <3>1. Bad \in SUBSET Nat
      OBVIOUS
    <3> HIDE DEF Bad
    <3> QED
      BY <3>1, LeastNumber
  <2>2. k # 0
    BY <1>3, <2>1
  <2>3. Good(k - 1)
    BY <2>1, <2>2
  <2> QED
    BY <1>4, <2>1, <2>2, <2>3
<1>6. Upto(Cardinality(S)) = SUBSET S
  BY <1>1, FS_Subset
<1>7. Good(Cardinality(S))
  <2> HIDE DEF Good
  <2> QED
    BY <1>1, <1>5
<1> HIDE DEF Upto
<1> QED
  BY <1>6, <1>7

Greatest(n) == [s \in SUBSET (1 .. n) |-> Max(s)]

LEMMA GreatestIsIn ==
  ASSUME NEW n \in Nat
  PROVE  \A s \in SUBSET (1 .. n) : s # {} => Greatest(n)[s] \in s
BY MaxIsGreatest DEF Greatest

\* A fold goes through the sequence q, from the first of it to the last.
InTurns(g, f, base, q, n) ==
  /\ g[1 .. 0] = base
  /\ \A k \in 1 .. n : g[1 .. k] = Turn(f, q[k], g[1 .. (k - 1)])

\* A fold over the positions of a sequence does.
LEMMA FoldInOrder ==
  ASSUME NEW n \in Nat, NEW f, NEW base, NEW q, NEW g,
         Folds(g, f, base, Greatest(n), q, SUBSET (1 .. n))
  PROVE  InTurns(g, f, base, q, n)
<1> DEFINE Value(s) == IF s = {} THEN base
                      ELSE Turn(f, q[Greatest(n)[s]], g[s \ {Greatest(n)[s]}])
<1>1. \A s \in SUBSET (1 .. n) : g[s] = Value(s)
  <2>1. g = [s \in SUBSET (1 .. n) |-> Value(s)]
    BY DEF Folds
  <2> HIDE DEF Value
  <2> QED
    BY <2>1
<1>2. g[1 .. 0] = base
  <2>1. 1 .. 0 = {} /\ 1 .. 0 \in SUBSET (1 .. n)
    OBVIOUS
  <2> QED
    BY <1>1, <2>1
<1>3. \A k \in 1 .. n : g[1 .. k] = Turn(f, q[k], g[1 .. (k - 1)])
  <2> TAKE k \in 1 .. n
  <2>1. 1 .. k \in SUBSET (1 .. n) /\ 1 .. k # {} /\ k \in 1 .. k
    OBVIOUS
  <2>2. Greatest(n)[1 .. k] = k
    <3>1. Greatest(n)[1 .. k] = Max(1 .. k)
      BY <2>1 DEF Greatest
    <3>2. Max(1 .. k) \in 1 .. k /\ k <= Max(1 .. k)
      BY <2>1, MaxIsGreatest
    <3> DEFINE m == Max(1 .. k)
    <3> HIDE DEF m
    <3>3. m \in 1 .. k /\ k <= m
      BY <3>2 DEF m
    <3>4. m = k
      BY <3>3
    <3> QED
      BY <3>1, <3>4 DEF m
  <2>3. (1 .. k) \ {k} = 1 .. (k - 1)
    OBVIOUS
  <2> QED
    BY <1>1, <2>1, <2>2, <2>3
<1> QED
  BY <1>2, <1>3 DEF InTurns

\* The fold of a pass over pattern candidates.
Rejects(established, base, q) == FoldLeft(LAMBDA r, c : Reject(c, r, established), base, q)

RejectTurns(g, established, base, q, n) ==
  /\ g[1 .. 0] = base
  /\ \A k \in 1 .. n : g[1 .. k] = Reject(q[k], g[1 .. (k - 1)], established)
  /\ g[1 .. n] = Rejects(established, base, q)

LEMMA RejectsFold ==
  ASSUME NEW n \in Nat, NEW q, DOMAIN q = 1 .. n, NEW base, NEW established
  PROVE  \E g : RejectTurns(g, established, base, q, n)
<1> DEFINE f == [of |-> "reject", established |-> established]
           P(g) == g = [s \in SUBSET DOMAIN q |->
                          IF s = {} THEN base
                          ELSE Reject(q[Max(s)], g[s \ {Max(s)}], established)]
           iter == CHOOSE g : P(g)
<1>1. \A x, v : Turn(f, x, v) = Reject(x, v, established)
  BY DEF Turn
<1>2. ASSUME NEW g PROVE Folds(g, f, base, Greatest(n), q, SUBSET (1 .. n)) <=> P(g)
  <2> HIDE DEF f
  <2> QED
    BY <1>1 DEF Folds, Greatest
<1>3. \E g : Folds(g, f, base, Greatest(n), q, SUBSET (1 .. n))
  <2> HIDE DEF f
  <2>1. IsFiniteSet(1 .. n)
    BY FS_Interval
  <2> QED
    BY <2>1, FoldExists, GreatestIsIn
<1>4. P(iter)
  <2> HIDE DEF P, f
  <2> QED
    BY <1>2, <1>3
<1>5. Folds(iter, f, base, Greatest(n), q, SUBSET (1 .. n))
  <2> HIDE DEF f, iter, P
  <2> QED
    BY <1>2, <1>4
<1>6. Rejects(established, base, q) = iter[DOMAIN q]
  BY DEF Rejects, FoldLeft, MapThenFoldSet
<1> HIDE DEF iter, f
<1>7. InTurns(iter, f, base, q, n)
  BY <1>5, FoldInOrder
<1>8. RejectTurns(iter, established, base, q, n)
  BY <1>1, <1>6, <1>7 DEF InTurns, RejectTurns
<1> QED
  BY <1>8

-----------------------------------------------------------------------------
(* What the operators of the walk keep and what they add. *)

\* The walk is a record of its twenty sets and maps.
WalkOK(w) ==
  w \in [entries : {w.entries}, origin : {w.origin}, bodies : {w.bodies},
         visited : {w.visited}, active : {w.active}, extents : {w.extents},
         calls : {w.calls}, conditional : {w.conditional}, mergeable : {w.mergeable},
         edges : {w.edges}, landing : {w.landing},
         thunkCandidates : {w.thunkCandidates}, thunkRoots : {w.thunkRoots},
         continuations : {w.continuations}, thunkJumps : {w.thunkJumps},
         linkage : {w.linkage}, endings : {w.endings},
         branchTargets : {w.branchTargets}, contextEdges : {w.contextEdges},
         candidates : {w.candidates}]

\* What no change of an owner touches.
Kept(w, v) ==
  /\ WalkOK(v)
  /\ v.entries = w.entries /\ v.visited = w.visited /\ v.active = w.active
  /\ v.extents = w.extents /\ v.calls = w.calls /\ v.conditional = w.conditional
  /\ v.linkage = w.linkage /\ v.thunkRoots = w.thunkRoots
  /\ v.thunkJumps = w.thunkJumps /\ v.contextEdges = w.contextEdges

LEMMA KeptIsTransitive ==
  ASSUME NEW u, NEW v, NEW w, Kept(u, v), Kept(v, w)
  PROVE  Kept(u, w)
BY DEF Kept

LEMMA OwnKeeps ==
  ASSUME NEW w, WalkOK(w), NEW a, NEW o
  PROVE  Kept(w, Own(w, a, o))
BY DEF WalkOK, Kept, Own

\* A merge moves bodies and owners only.
LEMMA MergeKeeps ==
  ASSUME NEW w, WalkOK(w), NEW t, NEW o, NEW m
  PROVE  Kept(w, MergeReached(w, t, o, m))
BY DEF WalkOK, Kept, MergeReached

\* The merges of a chain of thunks keep the same.
Merges(w, S, root, m) == FoldSet(LAMBDA t, v : MergeReached(v, t, root, m), w, S)

\* Its fold, over the subsets of the chain.
MergeTurns(g, pick, w, S, root, m) ==
  /\ \A s \in SUBSET S : s # {} => pick[s] \in s
  /\ \A s \in SUBSET S :
       g[s] = IF s = {} THEN w ELSE MergeReached(g[s \ {pick[s]}], pick[s], root, m)
  /\ g[S] = Merges(w, S, root, m)

LEMMA MergesFold ==
  ASSUME NEW w, NEW S, IsFiniteSet(S), NEW root, NEW m
  PROVE  \E g, pick : MergeTurns(g, pick, w, S, root, m)
<1> DEFINE f == [of |-> "merge", root |-> root, mergeable |-> m]
           pick == [s \in SUBSET S |-> CHOOSE x \in s : TRUE]
           at == [x \in S |-> x]
           P(g) == g = [s \in SUBSET S |->
                          IF s = {} THEN w
                          ELSE MergeReached(g[s \ {CHOOSE x \in s : TRUE}],
                                            CHOOSE x \in s : TRUE, root, m)]
           iter == CHOOSE g : P(g)
<1>1. \A x, v : Turn(f, x, v) = MergeReached(v, x, root, m)
  BY DEF Turn
<1>2. \A s \in SUBSET S : pick[s] = CHOOSE x \in s : TRUE
  OBVIOUS
<1>3. \A s \in SUBSET S : s # {} => pick[s] \in s /\ at[pick[s]] = pick[s]
  OBVIOUS
<1>4. ASSUME NEW g PROVE Folds(g, f, w, pick, at, SUBSET S) <=> P(g)
  <2> DEFINE Fold(s) == IF s = {} THEN w ELSE Turn(f, at[pick[s]], g[s \ {pick[s]}])
             Merge(s) == IF s = {} THEN w
                         ELSE MergeReached(g[s \ {CHOOSE x \in s : TRUE}],
                                           CHOOSE x \in s : TRUE, root, m)
  <2>1. ASSUME NEW s \in SUBSET S PROVE Fold(s) = Merge(s)
    <3>1. CASE s = {}
      BY <3>1
    <3>2. CASE s # {}
      <4>1. at[pick[s]] = pick[s] /\ pick[s] = CHOOSE x \in s : TRUE
        BY <1>2, <1>3, <3>2
      <4> HIDE DEF f, pick, at
      <4>2. Fold(s) = MergeReached(g[s \ {pick[s]}], pick[s], root, m)
        BY <1>1, <3>2, <4>1
      <4> QED
        BY <3>2, <4>1, <4>2
    <3> QED
      BY <3>1, <3>2
  <2>2. Folds(g, f, w, pick, at, SUBSET S) <=> g = [s \in SUBSET S |-> Fold(s)]
    BY DEF Folds
  <2>3. P(g) <=> g = [s \in SUBSET S |-> Merge(s)]
    OBVIOUS
  <2> HIDE DEF Fold, Merge, P
  <2> QED
    BY <2>1, <2>2, <2>3
<1>5. \E g : Folds(g, f, w, pick, at, SUBSET S)
  <2> HIDE DEF f, pick, at
  <2> QED
    BY <1>3, FoldExists
<1>6. P(iter)
  <2> HIDE DEF P, f, pick, at
  <2> QED
    BY <1>4, <1>5
<1>7. Merges(w, S, root, m) = iter[S]
  BY DEF Merges, FoldSet, MapThenFoldSet
<1>8. \A s \in SUBSET S :
        iter[s] = IF s = {} THEN w
                  ELSE MergeReached(iter[s \ {pick[s]}], pick[s], root, m)
  <2> HIDE DEF iter
  <2> QED
    BY <1>6
<1> HIDE DEF iter, pick, P
<1>9. \A s \in SUBSET S : s # {} => pick[s] \in s
  BY <1>3
<1>10. MergeTurns(iter, pick, w, S, root, m)
  BY <1>7, <1>8, <1>9 DEF MergeTurns
<1> QED
  BY <1>10

LEMMA MergesKeep ==
  ASSUME NEW w, WalkOK(w), NEW S, IsFiniteSet(S), NEW root, NEW m
  PROVE  Kept(w, Merges(w, S, root, m))
<1>1. PICK iter, pick : MergeTurns(iter, pick, w, S, root, m)
  BY MergesFold
<1>3. \A s \in SUBSET S : s # {} => pick[s] \in s
  BY <1>1 DEF MergeTurns
<1>7. Merges(w, S, root, m) = iter[S]
  BY <1>1 DEF MergeTurns
<1>8. \A s \in SUBSET S :
        iter[s] = IF s = {} THEN w ELSE MergeReached(iter[s \ {pick[s]}], pick[s], root, m)
  BY <1>1 DEF MergeTurns
<1>9. SUFFICES ASSUME ~ Kept(w, iter[S]) PROVE FALSE
  BY <1>7
<1> DEFINE Wrong == {s \in SUBSET S : ~ Kept(w, iter[s])}
<1>10. PICK s \in Wrong : \A t \in Wrong : t \subseteq s => t = s
  <2>1. Wrong \in SUBSET SUBSET S /\ Wrong # {}
    BY <1>9
  <2> HIDE DEF Wrong
  <2> QED
    BY <2>1, SmallestSubset
<1>11. s # {}
  <2>1. Kept(w, w)
    BY DEF Kept
  <2> QED
    BY <1>8, <1>10, <2>1
<1>12. Kept(w, iter[s \ {pick[s]}])
  <2>1. /\ s \ {pick[s]} \in SUBSET S /\ s \ {pick[s]} \subseteq s
        /\ s \ {pick[s]} # s
    BY <1>3, <1>11
  <2> QED
    BY <1>10, <2>1
<1>13. Kept(iter[s \ {pick[s]}], iter[s])
  <2>1. iter[s] = MergeReached(iter[s \ {pick[s]}], pick[s], root, m)
    BY <1>8, <1>11
  <2>2. WalkOK(iter[s \ {pick[s]}])
    BY <1>12 DEF Kept
  <2> QED
    BY <2>1, <2>2, MergeKeeps
<1> QED
  BY <1>10, <1>12, <1>13, KeptIsTransitive

LEMMA LandingKeeps ==
  ASSUME NEW w, WalkOK(w), NEW a
  PROVE  Kept(w, Landing(w, a))
BY DEF WalkOK, Kept, Landing

LEMMA DemoteKeeps ==
  ASSUME NEW w, WalkOK(w), IsFiniteSet(DOMAIN w.thunkRoots), NEW a
  PROVE  Kept(w, Demote(w, a))
<1> DEFINE root == w.continuations[a]
           chain == {t \in DOMAIN w.thunkRoots : w.thunkRoots[t] = root}
           merged == Merges(w, chain, root, w.thunkCandidates)
<1>1. IsFiniteSet(chain)
  <2>1. chain \in SUBSET DOMAIN w.thunkRoots
    OBVIOUS
  <2> QED
    BY <2>1, FS_Subset
<1>2. Kept(w, merged)
  <2> HIDE DEF chain, root
  <2> QED
    BY <1>1, MergesKeep
<1>3. Demote(w, a) \in {w, merged}
  BY DEF Demote, Merges
<1>4. Kept(w, w)
  BY DEF Kept
<1> HIDE DEF merged
<1> QED
  BY <1>2, <1>3, <1>4

\* A jump that may be to a stub.
JumpEdges(w, a) ==
  IF Flow(a).kind = "branch" /\ Within(a, Flow(a).length)
  THEN {<<t, a>> : t \in Flow(a).first \intersect w.linkage} ELSE {}

\* What decodes is recorded at its address with its length, and so is its jump to a
\* stub.
Recorded(w, v, a) ==
  /\ WalkOK(v)
  /\ v.entries = w.entries /\ v.visited = w.visited /\ v.active = w.active
  /\ v.calls = w.calls /\ v.linkage = w.linkage /\ v.thunkRoots = w.thunkRoots
  /\ v.thunkJumps = w.thunkJumps
  /\ v.contextEdges = w.contextEdges \union JumpEdges(w, a)
  /\ v.extents = IF Flow(a).kind \in {"bad", "unimpl"} THEN w.extents
                 ELSE w.extents \union {<<a, Flow(a).length>>}

LEMMA RecordDoes ==
  ASSUME NEW w, WalkOK(w), NEW a
  PROVE  Recorded(w, Record(w, a), a)
<1> DEFINE v == Record(w, a)
<1> DEFINE here == {<<t, a>> : t \in Flow(a).first \intersect w.linkage}
<1>1. v.contextEdges = IF Flow(a).kind = "branch" /\ Within(a, Flow(a).length)
                       THEN w.contextEdges \union here ELSE w.contextEdges
  BY DEF WalkOK, Record
<1>2. v.contextEdges = w.contextEdges \union JumpEdges(w, a)
  <2> HIDE DEF here
  <2>1. JumpEdges(w, a) = IF Flow(a).kind = "branch" /\ Within(a, Flow(a).length)
                          THEN here ELSE {}
    BY DEF JumpEdges, here
  <2> QED
    BY <1>1, <2>1
<1>3. /\ v.entries = w.entries /\ v.visited = w.visited /\ v.active = w.active
      /\ v.calls = w.calls /\ v.linkage = w.linkage /\ v.thunkRoots = w.thunkRoots
      /\ v.thunkJumps = w.thunkJumps
      /\ v.extents = IF Flow(a).kind \in {"bad", "unimpl"} THEN w.extents
                     ELSE w.extents \union {<<a, Flow(a).length>>}
  BY DEF WalkOK, Record
<1>4. WalkOK(v)
  BY DEF WalkOK, Record
<1> HIDE DEF v, here
<1>5. Recorded(w, v, a)
  BY <1>2, <1>3, <1>4 DEF Recorded
<1> QED
  BY <1>5 DEF v

\* The calls of an instruction, and the entries they find.
CallsOf(a) == IF Flow(a).kind = "call" THEN {<<a, t>> : t \in Flow(a).targets \ {0}} ELSE {}
Called(w, a) ==
  IF Flow(a).kind = "call" THEN {t \in Flow(a).targets : InCode(t) /\ t \notin w.entries} ELSE {}

LEMMA CallsDo ==
  ASSUME NEW w, WalkOK(w), NEW a, NEW v, v = Calls(w, a)
  PROVE  /\ WalkOK(v)
         /\ v.visited = w.visited /\ v.linkage = w.linkage
         /\ v.thunkRoots = w.thunkRoots /\ v.extents = w.extents
         /\ v.entries = w.entries \union Called(w, a)
         /\ v.active = w.active \union Called(w, a)
         /\ v.calls = w.calls \union CallsOf(a)
         /\ v.thunkJumps = w.thunkJumps /\ v.contextEdges = w.contextEdges
<1> DEFINE found == {t \in Flow(a).targets : InCode(t) /\ t \notin w.entries}
           all == {<<a, t>> : t \in Flow(a).targets \ {0}}
<1>1. CASE Flow(a).kind = "call"
  <2>1. v = [w EXCEPT !.entries = @ \union found, !.origin = InsertAll(@, [t \in found |-> t]),
                      !.active = @ \union found, !.calls = @ \union all]
    BY <1>1 DEF Calls
  <2>2. Called(w, a) = found /\ CallsOf(a) = all
    BY <1>1 DEF Called, CallsOf
  <2> HIDE DEF found, all
  <2> QED
    BY <2>1, <2>2 DEF WalkOK
<1>2. CASE Flow(a).kind # "call"
  <2>1. v = w /\ Called(w, a) = {} /\ CallsOf(a) = {}
    BY <1>2 DEF Calls, Called, CallsOf
  <2> QED
    BY <2>1
<1> QED
  BY <1>1, <1>2

\* The addresses that calls or jumps lead to.
Targets(pairs) == {p[2] : p \in pairs}

\* What follows from a walk for the one it goes on with.
Onward(w, v) ==
  /\ WalkOK(v)
  /\ v.visited = w.visited /\ v.linkage = w.linkage
  /\ v.extents = w.extents /\ v.calls = w.calls
  /\ w.entries \subseteq v.entries /\ w.active \subseteq v.active
  /\ v.entries \subseteq w.entries \union v.visited \union v.active
  /\ v.contextEdges = w.contextEdges /\ w.thunkJumps \subseteq v.thunkJumps
  /\ v.entries \subseteq w.entries \union Targets(v.thunkJumps)
  /\ IsFiniteSet(DOMAIN w.thunkRoots) => IsFiniteSet(DOMAIN v.thunkRoots)

\* What is reached in code was walked or is to be walked.
LEMMA ReachDoes ==
  ASSUME NEW w, WalkOK(w), NEW t, NEW owner
  PROVE  /\ Onward(w, Reach(w, t, owner))
         /\ InCode(t) => t \in Reach(w, t, owner).visited \union Reach(w, t, owner).active
<1> DEFINE m == MergeReached(w, t, owner, w.mergeable)
           n == Own(m, t, owner)
<1>1. Kept(w, m)
  BY MergeKeeps
<1>2. Reach(w, t, owner) = IF InCode(t) /\ t \notin w.visited
                           THEN [n EXCEPT !.active = @ \union {t}] ELSE m
  BY DEF Reach
<1> HIDE DEF m
<1>3. Kept(m, n)
  BY <1>1, OwnKeeps DEF Kept
<1>4. Kept(w, n)
  BY <1>1, <1>3, KeptIsTransitive
<1> HIDE DEF n
<1>5. CASE InCode(t) /\ t \notin w.visited
  BY <1>2, <1>4, <1>5 DEF Kept, WalkOK, Onward
<1>6. CASE ~ (InCode(t) /\ t \notin w.visited)
  BY <1>1, <1>2, <1>6 DEF Kept, WalkOK, Onward
<1> QED
  BY <1>5, <1>6

LEMMA ReachAnyDoes ==
  ASSUME NEW w, WalkOK(w), NEW to, \A t, u \in to : t = u, NEW owner
  PROVE  /\ Onward(w, ReachAny(w, to, owner))
         /\ \A t \in to : InCode(t) =>
              t \in ReachAny(w, to, owner).visited \union ReachAny(w, to, owner).active
<1>1. CASE to = {}
  BY <1>1 DEF ReachAny, Onward
<1>2. CASE to # {}
  <2> DEFINE u == CHOOSE t \in to : TRUE
  <2>1. u \in to /\ ReachAny(w, to, owner) = Reach(w, u, owner)
    BY <1>2 DEF ReachAny
  <2> HIDE DEF u
  <2>2. \A t \in to : t = u
    BY <2>1
  <2> QED
    BY <2>1, <2>2, ReachDoes
<1> QED
  BY <1>1, <1>2

\* A thunk's target was walked or is to be walked.
LEMMA ThunkDoes ==
  ASSUME NEW w, WalkOK(w), NEW a, NEW target
  PROVE  /\ Onward(w, Thunk(w, a, target))
         /\ target \in Thunk(w, a, target).visited \union Thunk(w, a, target).active
<1> DEFINE owner == Owner(w, a)
           root == IF owner \in DOMAIN w.thunkRoots THEN w.thunkRoots[owner] ELSE owner
           own == Own(w, target, target)
           jumped == [own EXCEPT !.thunkJumps = @ \union {<<a, target>>},
                                 !.active = IF target \in w.visited THEN @ ELSE @ \union {target}]
           entered == [jumped EXCEPT
                        !.entries = @ \union {target},
                        !.thunkCandidates = @ \union {target},
                        !.mergeable = @ \union {target},
                        !.thunkRoots = Insert(@, target, root),
                        !.continuations = Insert(@, a + Flow(a).length, root)]
<1>1. Thunk(w, a, target) = IF target \in w.entries THEN jumped ELSE entered
  BY DEF Thunk
<1>2. Kept(w, own)
  BY OwnKeeps
<1> HIDE DEF own, root
<1>3. /\ WalkOK(jumped)
      /\ jumped.entries = w.entries /\ jumped.visited = w.visited
      /\ jumped.extents = w.extents /\ jumped.calls = w.calls
      /\ jumped.linkage = w.linkage /\ jumped.thunkRoots = w.thunkRoots
      /\ w.active \subseteq jumped.active
      /\ target \in jumped.visited \union jumped.active
      /\ jumped.contextEdges = w.contextEdges
      /\ jumped.thunkJumps = w.thunkJumps \union {<<a, target>>}
  BY <1>2 DEF Kept, WalkOK
<1> HIDE DEF jumped
<1>4. /\ WalkOK(entered)
      /\ entered.entries = w.entries \union {target} /\ entered.visited = w.visited
      /\ entered.extents = w.extents /\ entered.calls = w.calls
      /\ entered.linkage = w.linkage /\ entered.active = jumped.active
      /\ entered.thunkRoots = Insert(w.thunkRoots, target, root)
      /\ entered.contextEdges = w.contextEdges /\ entered.thunkJumps = jumped.thunkJumps
  BY <1>3 DEF WalkOK
<1> HIDE DEF entered
<1>5. DOMAIN Insert(w.thunkRoots, target, root) = DOMAIN w.thunkRoots \union {target}
  BY DEF Insert
<1>6. IsFiniteSet(DOMAIN w.thunkRoots) => IsFiniteSet(DOMAIN entered.thunkRoots)
  BY <1>4, <1>5, FS_AddElement
<1>7. Onward(w, jumped)
  BY <1>3 DEF Onward
<1>8. Onward(w, entered)
  <2>1. target \in Targets(jumped.thunkJumps)
    BY <1>3 DEF Targets
  <2> QED
    BY <1>3, <1>4, <1>6, <2>1 DEF Onward
<1> QED
  BY <1>1, <1>3, <1>4, <1>7, <1>8

\* An instruction's only first target and only fallthrough; a confirmed thunk's
\* jump has no other target.
Plain(a) ==
  /\ Flow(a).first \subseteq Flow(a).targets
  /\ \A t, u \in Flow(a).first : t = u
  /\ \A t, u \in Flow(a).fall : t = u
Jump(a, target) ==
  Flow(a).kind = "branch" /\ Flow(a).fall = {} /\ Flow(a).targets = {target}

IsBad(a) == Flow(a).kind \in {"bad", "unimpl"}

\* A step of the walk: what decodes is an extent, its calls are kept, and where
\* it leads to in code was walked or is to be walked.
Steps(w, v, a) ==
  /\ WalkOK(v) /\ IsFiniteSet(DOMAIN v.thunkRoots)
  /\ v.visited = w.visited /\ v.linkage = w.linkage
  /\ v.extents = IF IsBad(a) THEN w.extents ELSE w.extents \union {<<a, Flow(a).length>>}
  /\ v.calls = w.calls \union CallsOf(a)
  /\ w.entries \subseteq v.entries /\ w.active \subseteq v.active
  /\ v.entries \subseteq w.entries \union v.visited \union v.active
  /\ v.entries \subseteq w.entries \union {0} \union Targets(v.calls) \union Targets(v.thunkJumps)
  /\ w.thunkJumps \subseteq v.thunkJumps
  /\ v.contextEdges = w.contextEdges \union JumpEdges(w, a)
  /\ Flow(a).kind = "call" =>
       \A t \in Flow(a).targets :
         InCode(t) => t \in v.entries /\ t \in w.entries \union v.active
  /\ ~IsBad(a) =>
       \A t \in Followed(Flow(a)) : InCode(t) => t \in v.visited \union v.active

LEMMA InstructionDoes ==
  ASSUME NEW w, WalkOK(w), IsFiniteSet(DOMAIN w.thunkRoots), NEW a, Plain(a),
         a \in DOMAIN thunks => Jump(a, thunks[a])
  PROVE  Steps(w, Instruction(w, a), a)
<1> DEFINE landed == Landing(w, a)
           demoted == Demote(landed, a)
           here == Record(demoted, a)
           owner == Owner(here, a)
           called == Calls(here, a)
           jumps == Flow(a).kind \in {"branch", "cbranch"}
           followed == IF jumps THEN ReachAny(called, Flow(a).first, owner) ELSE called
           fallen == ReachAny(followed, Flow(a).fall, owner)
<1>1. Kept(w, demoted)
  <2>1. Kept(w, landed)
    BY LandingKeeps
  <2> HIDE DEF landed
  <2>2. Kept(landed, demoted)
    BY <2>1, DemoteKeeps DEF Kept
  <2> QED
    BY <2>1, <2>2, KeptIsTransitive
<1>2. Instruction(w, a) = IF a \in DOMAIN thunks THEN Thunk(called, a, thunks[a])
                          ELSE IF IsBad(a) THEN followed ELSE fallen
  BY DEF Instruction, IsBad
<1> HIDE DEF demoted
<1>3. /\ WalkOK(here)
      /\ here.entries = w.entries /\ here.visited = w.visited /\ here.active = w.active
      /\ here.calls = w.calls /\ here.linkage = w.linkage /\ here.thunkRoots = w.thunkRoots
      /\ here.thunkJumps = w.thunkJumps
      /\ here.contextEdges = w.contextEdges \union JumpEdges(w, a)
      /\ here.extents = IF IsBad(a) THEN w.extents
                        ELSE w.extents \union {<<a, Flow(a).length>>}
  <2>1. JumpEdges(demoted, a) = JumpEdges(w, a)
    BY <1>1 DEF Kept, JumpEdges
  <2> QED
    <3>1. WalkOK(demoted)
      BY <1>1 DEF Kept
    <3>2. Recorded(demoted, here, a)
      BY <3>1, RecordDoes
    <3> HIDE DEF here
    <3> QED
      BY <1>1, <2>1, <3>2 DEF Recorded, Kept, IsBad
<1> HIDE DEF here
<1>4. /\ WalkOK(called)
      /\ called.visited = w.visited /\ called.linkage = w.linkage
      /\ called.thunkRoots = w.thunkRoots /\ called.extents = here.extents
      /\ called.entries = w.entries \union Called(here, a)
      /\ called.active = w.active \union Called(here, a)
      /\ called.calls = w.calls \union CallsOf(a)
      /\ called.thunkJumps = w.thunkJumps /\ called.contextEdges = here.contextEdges
  BY <1>3, CallsDo
<1> HIDE DEF called, owner
\* Whatever is reached after the calls, what the calls found stays.
<1>5. ASSUME NEW v, Onward(called, v),
             ~IsBad(a) => \A t \in Followed(Flow(a)) : InCode(t) => t \in v.visited \union v.active
      PROVE  Steps(w, v, a)
  <2>1. /\ WalkOK(v) /\ IsFiniteSet(DOMAIN v.thunkRoots)
        /\ v.visited = w.visited /\ v.linkage = w.linkage
        /\ v.extents = here.extents /\ v.calls = w.calls \union CallsOf(a)
    BY <1>4, <1>5 DEF Onward
  <2>2. /\ w.entries \subseteq v.entries /\ w.active \subseteq v.active
        /\ Called(here, a) \subseteq v.active /\ Called(here, a) \subseteq v.entries
    BY <1>4, <1>5 DEF Onward
  <2>3. v.entries \subseteq w.entries \union v.visited \union v.active
    BY <1>4, <1>5, <2>2 DEF Onward
  <2>4. ASSUME Flow(a).kind = "call", NEW t \in Flow(a).targets, InCode(t)
        PROVE  t \in v.entries /\ t \in w.entries \union v.active
    BY <1>3, <2>2, <2>4 DEF Called
  <2>5. v.entries \subseteq w.entries \union {0} \union Targets(v.calls)
                             \union Targets(v.thunkJumps)
    <3>1. Called(here, a) \subseteq {0} \union Targets(CallsOf(a))
      <4> SUFFICES ASSUME NEW t \in Called(here, a), t # 0 PROVE t \in Targets(CallsOf(a))
        OBVIOUS
      <4>1. Flow(a).kind = "call" /\ t \in Flow(a).targets
        BY DEF Called
      <4>2. <<a, t>> \in CallsOf(a)
        BY <4>1 DEF CallsOf
      <4> QED
        BY <4>2 DEF Targets
    <3>2. Targets(CallsOf(a)) \subseteq Targets(v.calls)
      BY <2>1 DEF Targets
    <3> QED
      BY <1>4, <1>5, <3>1, <3>2 DEF Onward
  <2>6. w.thunkJumps \subseteq v.thunkJumps
        /\ v.contextEdges = w.contextEdges \union JumpEdges(w, a)
    BY <1>3, <1>4, <1>5 DEF Onward
  <2> QED
    BY <1>3, <1>5, <2>1, <2>2, <2>3, <2>4, <2>5, <2>6 DEF Steps
<1>6. Onward(called, called)
  BY <1>4 DEF Onward
<1>7. /\ WalkOK(followed) /\ Onward(called, followed)
      /\ jumps => \A t \in Flow(a).first : InCode(t) => t \in followed.visited \union followed.active
  <2>1. CASE jumps
    <3> DEFINE reached == ReachAny(called, Flow(a).first, owner)
    <3>1. followed = reached
      BY <2>1
    <3>2. /\ Onward(called, reached)
          /\ \A t \in Flow(a).first : InCode(t) => t \in reached.visited \union reached.active
      BY <1>4, ReachAnyDoes DEF Plain
    <3> HIDE DEF reached
    <3>3. WalkOK(reached)
      BY <3>2 DEF Onward
    <3> QED
      BY <3>1, <3>2, <3>3
  <2>2. CASE ~ jumps
    BY <1>4, <1>6, <2>2
  <2> QED
    BY <2>1, <2>2
<1>8. CASE a \in DOMAIN thunks
  <2>1. Instruction(w, a) = Thunk(called, a, thunks[a])
    BY <1>2, <1>8
  <2>2. Followed(Flow(a)) \subseteq {thunks[a]}
    BY <1>8 DEF Jump, Followed, Plain
  <2> QED
    BY <1>4, <1>5, <2>1, <2>2, ThunkDoes
<1>9. CASE a \notin DOMAIN thunks /\ IsBad(a)
  <2> HIDE DEF followed
  <2> QED
    BY <1>2, <1>5, <1>7, <1>9
<1>10. CASE a \notin DOMAIN thunks /\ ~IsBad(a)
  <2>1. Instruction(w, a) = fallen
    BY <1>2, <1>10
  <2> HIDE DEF followed
  <2>2. /\ Onward(followed, fallen)
        /\ \A t \in Flow(a).fall : InCode(t) => t \in fallen.visited \union fallen.active
    BY <1>7, ReachAnyDoes DEF Plain
  <2> HIDE DEF fallen
  <2>3. Onward(called, fallen)
    <3>1. Targets(followed.thunkJumps) \subseteq Targets(fallen.thunkJumps)
      BY <2>2 DEF Onward, Targets
    <3> QED
      BY <1>7, <2>2, <3>1 DEF Onward
  <2>4. followed.visited \union followed.active \subseteq fallen.visited \union fallen.active
    BY <2>2 DEF Onward
  <2>5. \A t \in Followed(Flow(a)) : InCode(t) => t \in fallen.visited \union fallen.active
    BY <1>7, <2>2, <2>4 DEF Followed
  <2> QED
    BY <1>5, <2>1, <2>3, <2>5
<1> QED
  BY <1>8, <1>9, <1>10

-----------------------------------------------------------------------------
(* The passes over the possible starts. *)

PassOK(r) == r \in [rejected : {r.rejected}, walk : {r.walk}] /\ WalkOK(r.walk)

\* What a pass over the addresses in T does to the result r of those before it.
Rejected(r, u, T) ==
  /\ PassOK(u) /\ Kept(r.walk, u.walk)
  /\ r.rejected \subseteq u.rejected /\ u.rejected \subseteq r.rejected \union T
  /\ T \intersect r.walk.conditional \subseteq u.rejected

\* A possible start that a conditional jump leads to is rejected.
LEMMA RejectDoes ==
  ASSUME NEW r, PassOK(r), NEW c, NEW established
  PROVE  Rejected(r, Reject(c, r, established), {c})
<1> DEFINE owners == {o \in {Owner(r.walk, e[2]) : e \in {d \in r.walk.edges : d[1] = c}} :
                        o # c /\ o \notin r.rejected}
           owner == IF owners \intersect established # {}
                    THEN Min(owners \intersect established) ELSE Min(owners)
           out == r.rejected \union {c}
           merged == IF owners = {} THEN r.walk ELSE MergeReached(r.walk, c, owner, out)
           stays == c \in r.rejected
                      \/ (c \notin r.walk.conditional /\ owners \intersect established = {})
<1>1. Reject(c, r, established) = IF stays THEN r ELSE [rejected |-> out, walk |-> merged]
  BY DEF Reject
<1> HIDE DEF owner
<1>2. Kept(r.walk, merged)
  <2>1. Kept(r.walk, r.walk)
    BY DEF PassOK, Kept
  <2>2. Kept(r.walk, MergeReached(r.walk, c, owner, out))
    BY MergeKeeps DEF PassOK
  <2> QED
    BY <2>1, <2>2
<1> HIDE DEF merged, owners
<1>3. CASE stays
  BY <1>1, <1>3 DEF Rejected, PassOK, Kept
<1>4. CASE ~ stays
  <2>1. Reject(c, r, established) = [rejected |-> out, walk |-> merged]
    BY <1>1, <1>4
  <2>2. PassOK([rejected |-> out, walk |-> merged])
    BY <1>2 DEF PassOK, Kept
  <2> QED
    BY <1>2, <2>1, <2>2 DEF Rejected
<1> QED
  BY <1>3, <1>4

Listed(q, n) == {q[k] : k \in 1 .. n}

LEMMA PassRejects ==
  ASSUME NEW n \in Nat, NEW q, DOMAIN q = 1 .. n, NEW base, PassOK(base), NEW established
  PROVE  Rejected(base, Rejects(established, base, q), Listed(q, n))
<1>0. PICK g : RejectTurns(g, established, base, q, n)
  BY RejectsFold
<1>1. /\ g[1 .. 0] = base
      /\ \A k \in 1 .. n : g[1 .. k] = Reject(q[k], g[1 .. (k - 1)], established)
      /\ g[1 .. n] = Rejects(established, base, q)
  BY <1>0 DEF RejectTurns
<1> DEFINE T(k) == {q[i] : i \in 1 .. k}
           Good(k) == Rejected(base, g[1 .. k], T(k))
           Bad == {k \in 0 .. n : ~ Good(k)}
<1>2. Good(0)
  <2>1. T(0) = {}
    OBVIOUS
  <2> QED
    BY <1>1, <2>1 DEF Rejected, PassOK, Kept
<1>3. ASSUME NEW k \in 1 .. n, Good(k - 1) PROVE Good(k)
  <2> DEFINE r == g[1 .. (k - 1)]
             u == g[1 .. k]
  <2>1. PassOK(r) /\ Rejected(base, r, T(k - 1))
    BY <1>3 DEF Rejected
  <2>2. u = Reject(q[k], r, established)
    BY <1>1
  <2>3. T(k) = T(k - 1) \union {q[k]}
    <3>1. \A i : i \in 1 .. k <=> i \in 1 .. (k - 1) \/ i = k
      OBVIOUS
    <3> QED
      BY <3>1
  <2> HIDE DEF r, u, T
  <2>4. Rejected(r, u, {q[k]})
    BY <2>1, <2>2, RejectDoes
  <2>5. Kept(base.walk, u.walk)
    BY <2>1, <2>4, KeptIsTransitive DEF Rejected
  <2>6. r.walk.conditional = base.walk.conditional
    BY <2>1 DEF Rejected, Kept
  <2>7. Rejected(base, u, T(k))
    BY <2>1, <2>3, <2>4, <2>5, <2>6 DEF Rejected
  <2> QED
    BY <2>7 DEF u
<1>4. Bad = {}
  <2> HIDE DEF Good
  <2> SUFFICES ASSUME Bad # {} PROVE FALSE
    OBVIOUS
  <2>1. PICK k \in Bad : \A m \in Bad : k <= m
    <3>1. Bad \in SUBSET Nat
      OBVIOUS
    <3> HIDE DEF Bad
    <3> QED
      BY <3>1, LeastNumber
  <2>2. k \in 1 .. n /\ k - 1 \in 0 .. n /\ ~ (k <= k - 1)
    BY <1>2, <2>1
  <2>3. Good(k - 1)
    BY <2>1, <2>2
  <2> QED
    BY <1>3, <2>1, <2>2, <2>3
<1>5. Good(n)
  <2> HIDE DEF Good
  <2> QED
    BY <1>4
<1> QED
  BY <1>1, <1>5 DEF Listed

-----------------------------------------------------------------------------
(* The promotions of linkage stubs. *)

Promotions(base, q) ==
  FoldLeft(LAMBDA p, t : PromoteLinkage(p, t, program.linkages[t].slot), base, q)
ContextPromotions(base, q) ==
  FoldLeft(LAMBDA p, t :
             IF ContextSlot(p.walk, t) = {} THEN p
             ELSE PromoteLinkage(p, t, CHOOSE s \in ContextSlot(p.walk, t) : TRUE), base, q)

LEMMA PromotionsFold ==
  ASSUME NEW n \in Nat, NEW q, DOMAIN q = 1 .. n, NEW base
  PROVE  \E g : InTurns(g, [of |-> "promote"], base, q, n) /\ g[1 .. n] = Promotions(base, q)
<1> DEFINE f == [of |-> "promote"]
           P(g) == g = [s \in SUBSET DOMAIN q |->
                          IF s = {} THEN base
                          ELSE PromoteLinkage(g[s \ {Max(s)}], q[Max(s)],
                                              program.linkages[q[Max(s)]].slot)]
           iter == CHOOSE g : P(g)
<1>1. \A x, v : Turn(f, x, v) = PromoteLinkage(v, x, program.linkages[x].slot)
  BY DEF Turn
<1>2. ASSUME NEW g PROVE Folds(g, f, base, Greatest(n), q, SUBSET (1 .. n)) <=> P(g)
  <2> HIDE DEF f
  <2> QED
    BY <1>1 DEF Folds, Greatest
<1>3. \E g : Folds(g, f, base, Greatest(n), q, SUBSET (1 .. n))
  <2> HIDE DEF f
  <2>1. IsFiniteSet(1 .. n)
    BY FS_Interval
  <2> QED
    BY <2>1, FoldExists, GreatestIsIn
<1>4. P(iter)
  <2> HIDE DEF P, f
  <2> QED
    BY <1>2, <1>3
<1>5. Folds(iter, f, base, Greatest(n), q, SUBSET (1 .. n))
  <2> HIDE DEF f, iter, P
  <2> QED
    BY <1>2, <1>4
<1>6. Promotions(base, q) = iter[DOMAIN q]
  BY DEF Promotions, FoldLeft, MapThenFoldSet
<1> HIDE DEF iter
<1>7. InTurns(iter, f, base, q, n)
  BY <1>5, FoldInOrder
<1> QED
  BY <1>6, <1>7

LEMMA ContextPromotionsFold ==
  ASSUME NEW n \in Nat, NEW q, DOMAIN q = 1 .. n, NEW base
  PROVE  \E g : InTurns(g, [of |-> "context"], base, q, n)
                  /\ g[1 .. n] = ContextPromotions(base, q)
<1> DEFINE f == [of |-> "context"]
           Promoted(p, t) ==
             IF ContextSlot(p.walk, t) = {} THEN p
             ELSE PromoteLinkage(p, t, CHOOSE s \in ContextSlot(p.walk, t) : TRUE)
           P(g) == g = [s \in SUBSET DOMAIN q |->
                          IF s = {} THEN base ELSE Promoted(g[s \ {Max(s)}], q[Max(s)])]
           iter == CHOOSE g : P(g)
<1>1. \A x, v : Turn(f, x, v) = Promoted(v, x)
  BY DEF Turn
<1>6. ContextPromotions(base, q) = iter[DOMAIN q]
  BY DEF ContextPromotions, FoldLeft, MapThenFoldSet
<1> HIDE DEF Promoted
<1>2. ASSUME NEW g PROVE Folds(g, f, base, Greatest(n), q, SUBSET (1 .. n)) <=> P(g)
  <2> HIDE DEF f
  <2> QED
    BY <1>1 DEF Folds, Greatest
<1>3. \E g : Folds(g, f, base, Greatest(n), q, SUBSET (1 .. n))
  <2> HIDE DEF f
  <2>1. IsFiniteSet(1 .. n)
    BY FS_Interval
  <2> QED
    BY <2>1, FoldExists, GreatestIsIn
<1>4. P(iter)
  <2> HIDE DEF P, f
  <2> QED
    BY <1>2, <1>3
<1>5. Folds(iter, f, base, Greatest(n), q, SUBSET (1 .. n))
  <2> HIDE DEF f, iter, P
  <2> QED
    BY <1>2, <1>4
<1> HIDE DEF iter
<1>7. InTurns(iter, f, base, q, n)
  BY <1>5, FoldInOrder
<1> QED
  BY <1>6, <1>7

PromotingOK(p) ==
  /\ p \in [functions : {p.functions}, walk : {p.walk}, changed : {p.changed}]
  /\ WalkOK(p.walk)

\* What the promotions of the stubs in T do to the result p of those before them.
Promoted(p, u, T) ==
  /\ PromotingOK(u)
  /\ u.walk.visited = p.walk.visited /\ u.walk.active = p.walk.active
  /\ u.walk.extents = p.walk.extents /\ u.walk.calls = p.walk.calls
  /\ u.walk.conditional = p.walk.conditional /\ u.walk.linkage = p.walk.linkage
  /\ u.walk.thunkRoots = p.walk.thunkRoots
  /\ u.walk.thunkJumps = p.walk.thunkJumps
  /\ u.walk.contextEdges = p.walk.contextEdges
  /\ p.walk.entries \subseteq u.walk.entries
  /\ u.walk.entries \subseteq p.walk.entries \union T
  /\ DOMAIN p.functions \subseteq DOMAIN u.functions
  /\ DOMAIN u.functions \subseteq DOMAIN p.functions \union T

LEMMA PromoteDoes ==
  ASSUME NEW p, PromotingOK(p), NEW t, NEW slot
  PROVE  Promoted(p, PromoteLinkage(p, t, slot), {t})
<1> DEFINE length == program.linkages[t].length
           own == {k[1] : k \in {l \in p.walk.extents : t <= l[1] /\ l[1] - t < length}}
           walked == [p.walk EXCEPT !.entries = @ \union {t},
                                    !.origin = InsertAll(@, [a \in own \union {t} |-> t])]
           grown == Insert(p.functions, t, length)
           new == [functions |-> grown, walk |-> walked, changed |-> TRUE]
<1>1. PromoteLinkage(p, t, slot) \in {p, new}
  BY DEF PromoteLinkage
<1> HIDE DEF own, length
<1>2. DOMAIN grown = DOMAIN p.functions \union {t}
  BY DEF Insert
<1>3. /\ WalkOK(walked)
      /\ walked.entries = p.walk.entries \union {t}
      /\ walked.visited = p.walk.visited /\ walked.active = p.walk.active
      /\ walked.extents = p.walk.extents /\ walked.calls = p.walk.calls
      /\ walked.conditional = p.walk.conditional /\ walked.linkage = p.walk.linkage
      /\ walked.thunkRoots = p.walk.thunkRoots
      /\ walked.thunkJumps = p.walk.thunkJumps
      /\ walked.contextEdges = p.walk.contextEdges
  BY DEF PromotingOK, WalkOK
<1> HIDE DEF walked, grown
<1>4. Promoted(p, new, {t})
  BY <1>2, <1>3 DEF Promoted, PromotingOK
<1>5. Promoted(p, p, {t})
  BY DEF Promoted, PromotingOK
<1> HIDE DEF new
<1> QED
  BY <1>1, <1>4, <1>5

\* All the callers of the stub at t that were recorded prove the same slot.
EdgesAgree(w, t) ==
  \E s \in program.slots :
    \A e \in w.contextEdges : e[1] = t => program.contexts[e[2]] = s

\* What is promoted for its callers' slot is a stub whose callers agree.
Named(p) == DOMAIN p.functions \union p.walk.entries
Agreeing(p, u) == \A t \in Named(u) \ Named(p) : EdgesAgree(p.walk, t)
PromotedBy(f, p, u, T) ==
  Promoted(p, u, T) /\ (f.of = "context" => Agreeing(p, u))

LEMMA ContextAgrees ==
  ASSUME NEW p, PromotingOK(p), NEW t, NEW slot \in ContextSlot(p.walk, t)
  PROVE  Agreeing(p, PromoteLinkage(p, t, slot))
<1> DEFINE u == PromoteLinkage(p, t, slot)
           callers == {e[2] : e \in {d \in p.walk.contextEdges : d[1] = t}}
           slots == {program.contexts[b] : b \in callers}
<1>1. slot \in slots /\ \A s, v \in slots : s = v
  BY DEF ContextSlot
<1>2. \A e \in p.walk.contextEdges : e[1] = t => program.contexts[e[2]] = slot
  BY <1>1
<1>3. CASE u = p
  BY <1>3 DEF Agreeing
<1>4. CASE u # p
  <2>1. slot \in program.slots
    BY <1>4 DEF PromoteLinkage
  <2>2. EdgesAgree(p.walk, t)
    BY <1>2, <2>1 DEF EdgesAgree
  <2>3. Promoted(p, u, {t})
    BY PromoteDoes
  <2> HIDE DEF u
  <2>4. Named(u) \subseteq Named(p) \union {t}
    BY <2>3 DEF Promoted, Named
  <2>5. Agreeing(p, u)
    BY <2>2, <2>4 DEF Agreeing
  <2> QED
    BY <2>5 DEF u
<1> QED
  BY <1>3, <1>4

LEMMA TurnPromotes ==
  ASSUME NEW p, PromotingOK(p), NEW t, NEW f, f.of \in {"promote", "context"}
  PROVE  PromotedBy(f, p, Turn(f, t, p), {t})
<1>1. CASE f.of = "promote"
  <2>1. Turn(f, t, p) = PromoteLinkage(p, t, program.linkages[t].slot)
    BY <1>1 DEF Turn
  <2> QED
    BY <1>1, <2>1, PromoteDoes DEF PromotedBy
<1>2. CASE f.of = "context"
  <2> DEFINE slot == CHOOSE s \in ContextSlot(p.walk, t) : TRUE
  <2>1. \/ Turn(f, t, p) = p
        \/ slot \in ContextSlot(p.walk, t) /\ Turn(f, t, p) = PromoteLinkage(p, t, slot)
    BY <1>2 DEF Turn
  <2>2. PromotedBy(f, p, p, {t})
    BY DEF Promoted, PromotingOK, PromotedBy, Agreeing
  <2> HIDE DEF slot
  <2>3. slot \in ContextSlot(p.walk, t) => PromotedBy(f, p, PromoteLinkage(p, t, slot), {t})
    BY PromoteDoes, ContextAgrees DEF PromotedBy
  <2> QED
    BY <2>1, <2>2, <2>3
<1> QED
  BY <1>1, <1>2

LEMMA PromotedIsTransitive ==
  ASSUME NEW p, NEW u, NEW v, NEW S, NEW T, Promoted(p, u, S), Promoted(u, v, T)
  PROVE  Promoted(p, v, S \union T)
BY DEF Promoted

LEMMA PromotedByIsTransitive ==
  ASSUME NEW f, NEW p, NEW u, NEW v, NEW S, NEW T, PromotedBy(f, p, u, S),
         PromotedBy(f, u, v, T)
  PROVE  PromotedBy(f, p, v, S \union T)
<1>1. Promoted(p, v, S \union T) /\ u.walk.contextEdges = p.walk.contextEdges
  BY PromotedIsTransitive DEF PromotedBy, Promoted
<1>2. ASSUME Agreeing(p, u), Agreeing(u, v) PROVE Agreeing(p, v)
  BY <1>1, <1>2 DEF Agreeing, EdgesAgree
<1> QED
  BY <1>1, <1>2 DEF PromotedBy

LEMMA TurnsPromote ==
  ASSUME NEW n \in Nat, NEW q, NEW base, PromotingOK(base),
         NEW f, f.of \in {"promote", "context"}, NEW g, InTurns(g, f, base, q, n)
  PROVE  PromotedBy(f, base, g[1 .. n], Listed(q, n))
<1> DEFINE T(k) == {q[i] : i \in 1 .. k}
           Good(k) == PromotedBy(f, base, g[1 .. k], T(k))
           Bad == {k \in 0 .. n : ~ Good(k)}
<1>2. Good(0)
  <2>1. T(0) = {} /\ g[1 .. 0] = base
    BY DEF InTurns
  <2> HIDE DEF T
  <2> QED
    BY <2>1 DEF Promoted, PromotingOK, PromotedBy, Agreeing
<1>3. ASSUME NEW k \in 1 .. n, Good(k - 1) PROVE Good(k)
  <2> DEFINE r == g[1 .. (k - 1)]
             u == g[1 .. k]
  <2>1. PromotingOK(r) /\ PromotedBy(f, base, r, T(k - 1))
    BY <1>3 DEF Promoted, PromotedBy
  <2>2. u = Turn(f, q[k], r)
    BY DEF InTurns
  <2>3. T(k) = T(k - 1) \union {q[k]}
    <3>1. \A i : i \in 1 .. k <=> i \in 1 .. (k - 1) \/ i = k
      OBVIOUS
    <3> QED
      BY <3>1
  <2> HIDE DEF r, u, T
  <2>4. PromotedBy(f, r, u, {q[k]})
    BY <2>1, <2>2, TurnPromotes
  <2>5. PromotedBy(f, base, u, T(k))
    BY <2>1, <2>3, <2>4, PromotedByIsTransitive
  <2> QED
    BY <2>5 DEF u
<1>4. Bad = {}
  <2> HIDE DEF Good
  <2> SUFFICES ASSUME Bad # {} PROVE FALSE
    OBVIOUS
  <2>1. PICK k \in Bad : \A m \in Bad : k <= m
    <3>1. Bad \in SUBSET Nat
      OBVIOUS
    <3> HIDE DEF Bad
    <3> QED
      BY <3>1, LeastNumber
  <2>2. k \in 1 .. n /\ k - 1 \in 0 .. n /\ ~ (k <= k - 1)
    BY <1>2, <2>1
  <2>3. Good(k - 1)
    BY <2>1, <2>2
  <2> QED
    BY <1>3, <2>1, <2>2, <2>3
<1>5. Good(n)
  <2> HIDE DEF Good
  <2> QED
    BY <1>4
<1> QED
  BY <1>5 DEF Listed

\* What the promotions of both kinds do, over sets of addresses in order.
LEMMA BothPromote ==
  ASSUME NEW S \in SUBSET Int, IsFiniteSet(S), NEW base, PromotingOK(base)
  PROVE  /\ Promoted(base, Promotions(base, InOrder(S)), S)
         /\ Promoted(base, ContextPromotions(base, InOrder(S)), S)
         /\ Agreeing(base, ContextPromotions(base, InOrder(S)))
<1> DEFINE n == Cardinality(S)
           q == InOrder(S)
<1>1. n \in Nat /\ DOMAIN q = 1 .. n /\ Listed(q, n) = S
  <2>1. n \in Nat /\ q \in [1 .. n -> S] /\ \A a \in S : \E i \in 1 .. n : q[i] = a
    BY InOrderLists
  <2> HIDE DEF n, q
  <2> QED
    BY <2>1 DEF Listed
<1> HIDE DEF n, q
<1>2. PICK g : InTurns(g, [of |-> "promote"], base, q, n) /\ g[1 .. n] = Promotions(base, q)
  BY <1>1, PromotionsFold
<1>3. PICK h : /\ InTurns(h, [of |-> "context"], base, q, n)
               /\ h[1 .. n] = ContextPromotions(base, q)
  BY <1>1, ContextPromotionsFold
<1>4. Promoted(base, g[1 .. n], S)
  <2> DEFINE f == [of |-> "promote"]
  <2>1. f.of \in {"promote", "context"} /\ InTurns(g, f, base, q, n)
    BY <1>2
  <2> HIDE DEF f
  <2>2. PromotedBy(f, base, g[1 .. n], Listed(q, n))
    BY <1>1, <2>1, TurnsPromote
  <2> QED
    BY <1>1, <2>2 DEF PromotedBy
<1>5. Promoted(base, h[1 .. n], S) /\ Agreeing(base, h[1 .. n])
  <2> DEFINE f == [of |-> "context"]
  <2>1. f.of = "context" /\ InTurns(h, f, base, q, n)
    BY <1>3
  <2> HIDE DEF f
  <2>2. PromotedBy(f, base, h[1 .. n], Listed(q, n))
    BY <1>1, <2>1, TurnsPromote
  <2> QED
    BY <1>1, <2>1, <2>2 DEF PromotedBy
<1> QED
  BY <1>2, <1>3, <1>4, <1>5 DEF q

-----------------------------------------------------------------------------
(* Images: the addresses in code and those the hits name are finitely many. *)

Code(p) == {a \in Int : \E r \in p.ranges : a \in r[1] .. r[2] - 1}
Places(p) == {h.address : h \in p.hits}

LEMMA CodeIsFinite ==
  ASSUME NEW p, Sound(p)
  PROVE  IsFiniteSet(Code(p)) /\ Code(p) \subseteq DOMAIN p.flow
<1>1. IsFiniteSet(p.ranges) /\ p.ranges \subseteq Int \X Int
      /\ \A r \in p.ranges : r[1] .. r[2] - 1 \subseteq DOMAIN p.flow
  BY DEF Sound
<1> DEFINE span == [r \in p.ranges |-> r[1] .. r[2] - 1]
           spans == {span[r] : r \in p.ranges}
<1>2. span \in Surjection(p.ranges, spans)
  BY DEF Surjection
<1>3. IsFiniteSet(spans)
  <2> HIDE DEF span, spans
  <2> QED
    BY <1>1, <1>2, FS_Surjection
<1>4. \A s \in spans : IsFiniteSet(s)
  <2>1. \A r \in p.ranges : IsFiniteSet(r[1] .. r[2] - 1)
    <3> TAKE r \in p.ranges
    <3>1. r[1] \in Int /\ r[2] - 1 \in Int
      BY <1>1
    <3> QED
      BY <3>1, FS_Interval
  <2> QED
    BY <2>1
<1>5. Code(p) \in SUBSET UNION spans
  BY DEF Code
<1>6. IsFiniteSet(UNION spans)
  <2> HIDE DEF spans
  <2> QED
    BY <1>3, <1>4, FS_UNION
<1>7. IsFiniteSet(Code(p))
  <2> HIDE DEF spans
  <2> QED
    BY <1>5, <1>6, FS_Subset
<1> QED
  BY <1>1, <1>7 DEF Code

LEMMA PlacesAreFinite ==
  ASSUME NEW p, Sound(p)
  PROVE  IsFiniteSet(Places(p)) /\ Places(p) \in SUBSET Int
<1>1. IsFiniteSet(p.hits) /\ \A h \in p.hits : h.address \in Int
  BY DEF Sound
<1> DEFINE place == [h \in p.hits |-> h.address]
<1>2. place \in Surjection(p.hits, Places(p))
  BY DEF Surjection, Places
<1>3. IsFiniteSet(Places(p))
  <2> HIDE DEF place
  <2> QED
    BY <1>1, <1>2, FS_Surjection
<1> QED
  BY <1>1, <1>3 DEF Places

\* An image that some answers were lost of is sound, and the same but for its flow.
LEMMA LosingIsSound ==
  ASSUME NEW p, Sound(p), NEW lost, NEW q, q = Lose(p, lost)
  PROVE  /\ Sound(q) /\ DOMAIN q.flow = DOMAIN p.flow
         /\ q.ranges = p.ranges /\ q.hits = p.hits
         /\ q.functions = p.functions /\ q.plt = p.plt
<1> DEFINE fallback == [kind |-> "bad", length |-> 1, targets |-> {}, first |-> {}, fall |-> {},
                        conditional |-> FALSE, pure |-> FALSE, noop |-> FALSE]
           flow == [a \in DOMAIN p.flow |-> IF a \in lost THEN fallback ELSE p.flow[a]]
<1>1. q = [p EXCEPT !.flow = flow]
  BY DEF Lose
<1>2. \A a \in DOMAIN p.flow : flow[a] = IF a \in lost THEN fallback ELSE p.flow[a]
  OBVIOUS
<1>3. DOMAIN flow = DOMAIN p.flow
  OBVIOUS
<1> HIDE DEF flow
<1>4. /\ DOMAIN q = DOMAIN p /\ q.flow = flow
      /\ q.ranges = p.ranges /\ q.hits = p.hits /\ q.linkages = p.linkages
      /\ q.functions = p.functions /\ q.plt = p.plt
  BY <1>1 DEF Sound
<1>5. /\ fallback.kind = "bad" /\ fallback.length = 1 /\ fallback.targets = {}
      /\ fallback.first = {} /\ fallback.fall = {}
  OBVIOUS
<1> HIDE DEF fallback
<1>6. ASSUME NEW a \in DOMAIN q.flow
      PROVE  /\ q.flow[a].length \in Nat /\ q.flow[a].first \subseteq q.flow[a].targets
             /\ q.flow[a].first = {} => q.flow[a].targets = {}
             /\ q.flow[a].kind \in {"bad", "unimpl"} =>
                  q.flow[a].length = 1 /\ q.flow[a].targets = {} /\ q.flow[a].fall = {}
             /\ \A s \in {q.flow[a].first, q.flow[a].fall} : \A t, u \in s : t = u
  <2>1. CASE a \in lost
    <3>1. q.flow[a] = fallback
      BY <1>2, <1>3, <1>4, <2>1
    <3> QED
      BY <1>5, <3>1
  <2>2. CASE a \notin lost
    <3>1. q.flow[a] = p.flow[a] /\ a \in DOMAIN p.flow
      BY <1>2, <1>3, <1>4, <2>2
    <3> QED
      BY <3>1 DEF Sound
  <2> QED
    BY <2>1, <2>2
<1>7. ASSUME NEW t \in DOMAIN q.flow, q.linkages[t].length # 0
      PROVE  \E line \in SUBSET DOMAIN q.flow :
               /\ t \in line
               /\ \A a \in line :
                    LET end == a + q.flow[a].length
                    IN  \/ q.flow[a].kind = "fall" /\ q.flow[a].fall = {end} /\ end \in line
                        \/ q.flow[a].kind = "branchInd" /\ end = t + q.linkages[t].length
                        \/ q.flow[a].kind = "bad"
  <2>1. PICK line \in SUBSET DOMAIN p.flow :
          /\ t \in line
          /\ \A a \in line :
               LET end == a + p.flow[a].length
               IN  \/ p.flow[a].kind = "fall" /\ p.flow[a].fall = {end} /\ end \in line
                   \/ p.flow[a].kind = "branchInd" /\ end = t + p.linkages[t].length
                   \/ p.flow[a].kind = "bad"
    <3>1. t \in DOMAIN p.flow /\ p.linkages[t].length # 0
      BY <1>3, <1>4, <1>7
    <3> QED
      BY <3>1, Zenon DEF Sound
  <2>2. ASSUME NEW a \in line
        PROVE  LET end == a + q.flow[a].length
               IN  \/ q.flow[a].kind = "fall" /\ q.flow[a].fall = {end} /\ end \in line
                   \/ q.flow[a].kind = "branchInd" /\ end = t + q.linkages[t].length
                   \/ q.flow[a].kind = "bad"
    <3>1. CASE a \in lost
      BY <1>2, <1>4, <1>5, <3>1
    <3>2. CASE a \notin lost
      <4>1. q.flow[a] = p.flow[a]
        BY <1>2, <1>4, <3>2
      <4> QED
        BY <1>4, <2>1, <4>1
    <3> QED
      BY <3>1, <3>2
  <2> QED
    BY <1>3, <1>4, <2>1, <2>2, Zenon
<1>8. \A t \in DOMAIN q.flow : q.linkages[t].length \in Nat
  BY <1>3, <1>4 DEF Sound
<1>9. /\ {"flow", "ranges", "functions", "linkages", "plt", "hits"} \subseteq DOMAIN q
      /\ IsFiniteSet(q.ranges) /\ q.ranges \subseteq Int \X Int
      /\ \A r \in q.ranges : r[1] .. r[2] - 1 \subseteq DOMAIN q.flow
      /\ IsFiniteSet(DOMAIN q.flow)
      /\ IsFiniteSet(q.hits)
      /\ \A h \in q.hits : h.address \in Int /\ h.address \in DOMAIN q.flow
  BY <1>3, <1>4 DEF Sound
<1>10. Sound(q)
  BY <1>6, <1>7, <1>8, <1>9, Zenon DEF Sound
<1> QED
  BY <1>3, <1>4, <1>10

\* What is collected are hits.
AreHits(candidates, all) == \A c \in candidates : \E h \in all : c.address = h.address

LEMMA CollectedAreHits ==
  ASSUME NEW hits, NEW all, hits \subseteq all, NEW image, NEW known, NEW sized,
         NEW instructions, NEW conditional
  PROVE  AreHits(Collect(hits, image, known, sized, instructions, conditional), all)
<1> DEFINE candidates == Collect(hits, image, known, sized, instructions, conditional)
<1>1. PICK kept \in SUBSET hits :
        candidates = {[address |-> a, possible |-> \A h \in kept : h.address = a => h.possible] :
                        a \in {h.address : h \in kept}}
  BY DEF Collect
<1> QED
  BY <1>1 DEF AreHits

-----------------------------------------------------------------------------
(* The queue and its chunks. *)

\* The least of two numbers.
LEMMA MinOfTwo ==
  ASSUME NEW m \in Nat, NEW n \in Nat
  PROVE  Min({m, n}) \in Nat /\ Min({m, n}) <= m /\ Min({m, n}) <= n
         /\ Min({m, n}) \in {m, n}
<1>1. \E x \in {m, n} : \A y \in {m, n} : x <= y
  OBVIOUS
<1> QED
  BY <1>1 DEF Min

LEMMA OrderedIsSeq ==
  ASSUME NEW S \in SUBSET Int, IsFiniteSet(S)
  PROVE  InOrder(S) \in Seq(S) /\ ToSet(InOrder(S)) = S
<1> DEFINE n == Cardinality(S)
           q == InOrder(S)
<1>1. n \in Nat /\ q \in [1 .. n -> S] /\ \A a \in S : \E i \in 1 .. n : q[i] = a
  BY InOrderLists
<1> HIDE DEF n, q
<1>2. q \in Seq(S)
  BY <1>1, SeqDef
<1>3. ToSet(q) = S
  BY <1>1 DEF ToSet
<1> QED
  BY <1>2, <1>3 DEF q

\* A queue is cut in two, and nothing in it is lost.
IsCut(q, k, a, b) == a = SubSeq(q, 1, k) /\ b = SubSeq(q, Len(a) + 1, Len(q))
Parted(S, q, k, a, b) ==
  /\ a \in Seq(S) /\ b \in Seq(S) /\ Len(a) = k /\ Len(b) = Len(q) - k
  /\ ToSet(q) = ToSet(a) \union ToSet(b)

LEMMA Cut ==
  ASSUME NEW S, NEW q \in Seq(S), NEW k \in 0 .. Len(q), NEW a, NEW b, IsCut(q, k, a, b)
  PROVE  Parted(S, q, k, a, b)
<1>1. Len(q) \in Nat /\ DOMAIN q = 1 .. Len(q)
  BY LenProperties
<1>2. a \in Seq(S) /\ Len(a) = k /\ \A i \in 1 .. k : a[i] = q[i]
  <2>1. \A i \in 1 .. k : q[i] \in S
    BY <1>1, ElementOfSeq
  <2>2. /\ a \in Seq(S) /\ Len(a) = (IF 1 <= k THEN k - 1 + 1 ELSE 0)
        /\ \A i \in 1 .. k - 1 + 1 : a[i] = q[1 + i - 1]
    BY <1>1, <2>1, SubSeqProperties DEF IsCut
  <2> QED
    BY <1>1, <2>2
<1>3. b = SubSeq(q, k + 1, Len(q))
  BY <1>2 DEF IsCut
<1>4. b \in Seq(S) /\ Len(b) = Len(q) - k /\ \A i \in 1 .. Len(q) - k : b[i] = q[k + i]
  <2> DEFINE n == Len(q)
  <2>1. \A i \in (k + 1) .. n : q[i] \in S
    BY <1>1, ElementOfSeq
  <2> HIDE DEF n
  <2>2. /\ b \in Seq(S) /\ Len(b) = (IF k + 1 <= n THEN n - (k + 1) + 1 ELSE 0)
        /\ \A i \in 1 .. n - (k + 1) + 1 : b[i] = q[(k + 1) + i - 1]
    BY <1>1, <1>3, <2>1, SubSeqProperties DEF n
  <2>3. n \in Nat /\ k \in 0 .. n
    BY <1>1 DEF n
  <2>5. Len(b) = n - k
    <3>1. CASE k = n
      BY <2>2, <2>3, <3>1
    <3>2. CASE k # n
      <4>1. k + 1 <= n /\ n - (k + 1) + 1 = n - k
        BY <2>3, <3>2
      <4> QED
        BY <2>2, <4>1
    <3> QED
      BY <3>1, <3>2
  <2>4. ASSUME NEW i \in 1 .. n - k PROVE b[i] = q[k + i]
    <3>1. i \in 1 .. n - (k + 1) + 1 /\ (k + 1) + i - 1 = k + i
      BY <2>3
    <3> QED
      BY <2>2, <3>1
  <2> QED
    BY <2>2, <2>4, <2>5 DEF n
<1>5. ASSUME NEW i \in 1 .. Len(q) PROVE q[i] \in ToSet(a) \union ToSet(b)
  <2>1. DOMAIN a = 1 .. k /\ DOMAIN b = 1 .. Len(q) - k
    BY <1>2, <1>4, LenProperties
  <2>2. CASE i \in 1 .. k
    BY <1>2, <2>1, <2>2 DEF ToSet
  <2>3. CASE i \notin 1 .. k
    <3>1. i - k \in 1 .. Len(q) - k /\ k + (i - k) = i
      BY <1>1, <2>3
    <3>2. b[i - k] = q[i]
      BY <1>4, <3>1
    <3> QED
      BY <2>1, <3>1, <3>2 DEF ToSet
  <2> QED
    BY <2>2, <2>3
<1>6. ToSet(q) \subseteq ToSet(a) \union ToSet(b)
  <2>1. ToSet(q) = {q[i] : i \in 1 .. Len(q)}
    BY <1>1 DEF ToSet
  <2> QED
    BY <1>5, <2>1
<1>7. ToSet(a) \subseteq ToSet(q)
  <2>1. DOMAIN a = 1 .. k /\ 1 .. k \subseteq DOMAIN q
    BY <1>1, <1>2, LenProperties
  <2> QED
    BY <1>2, <2>1 DEF ToSet
<1>8. ToSet(b) \subseteq ToSet(q)
  <2>1. DOMAIN b = 1 .. Len(q) - k
    BY <1>4, LenProperties
  <2>2. \A i \in 1 .. Len(q) - k : k + i \in DOMAIN q
    BY <1>1
  <2> QED
    BY <1>4, <2>1, <2>2 DEF ToSet
<1> QED
  BY <1>2, <1>4, <1>6, <1>7, <1>8 DEF Parted

-----------------------------------------------------------------------------
(* The shape of a state: what the variables hold, and that what was visited is *)
(* code, of which there is finitely much.                                      *)

ShapeInv ==
  /\ Sound(program)
  /\ WalkOK(walk) /\ IsFiniteSet(DOMAIN walk.thunkRoots)
  /\ walk.visited \subseteq Code(program) /\ walk.linkage \subseteq Code(program)
  /\ starts \in [candidates : {starts.candidates}, before : {starts.before},
                 rejected : {starts.rejected}]
  /\ \A c \in starts.candidates : c.address \in Places(program)
  /\ starts.rejected \subseteq Places(program)
  /\ queue \in Seq(Code(program)) /\ chunk \in Seq(Code(program))
  /\ \A a \in DOMAIN thunks : Jump(a, thunks[a])

LEMMA InCodeIsCode == \A a : InCode(a) <=> a \in Code(program)
BY DEF InCode, Code

LEMMA ShapeInit == ASSUME Init PROVE ShapeInv
<1>1. Sound(program) /\ walk = NoWalk /\ queue = <<>> /\ chunk = <<>> /\ thunks = <<>>
      /\ starts = [candidates |-> {}, before |-> {}, rejected |-> {}]
  BY ProgramsAssumption DEF Init
<1>2. WalkOK(NoWalk) /\ DOMAIN NoWalk.thunkRoots = {} /\ NoWalk.visited = {}
      /\ NoWalk.linkage = {}
  BY DEF WalkOK, NoWalk
<1> QED
  BY <1>1, <1>2, FS_EmptySet, EmptySeq DEF ShapeInv

\* A round puts what is to be asked about into the queue, and visits it.
LEMMA RoundDoes ==
  ASSUME ShapeInv, Round
  PROVE  /\ ToQuery(walk) \subseteq Code(program)
         /\ WalkOK(walk')
         /\ walk'.visited = walk.visited \union ToQuery(walk) /\ walk'.active = {}
         /\ walk'.entries = walk.entries /\ walk'.extents = walk.extents
         /\ walk'.calls = walk.calls /\ walk'.linkage = walk.linkage
         /\ walk'.thunkRoots = walk.thunkRoots /\ walk'.conditional = walk.conditional
         /\ walk'.thunkJumps = walk.thunkJumps /\ walk'.contextEdges = walk.contextEdges
         /\ queue' \in Seq(Code(program)) /\ ToSet(queue') = ToQuery(walk)
<1>1. ToQuery(walk) \subseteq Code(program)
  BY InCodeIsCode DEF ToQuery
<1>2. ToQuery(walk) \in SUBSET Int /\ IsFiniteSet(ToQuery(walk))
  <2>1. Code(program) \subseteq Int
    BY DEF Code
  <2> QED
    BY <1>1, <2>1, CodeIsFinite, FS_Subset DEF ShapeInv
<1>3. queue' \in Seq(ToQuery(walk)) /\ ToSet(queue') = ToQuery(walk)
  BY <1>2, OrderedIsSeq DEF Round
<1>4. queue' \in Seq(Code(program))
  BY <1>1, <1>3
<1>5. walk' = [walk EXCEPT !.visited = @ \union ToQuery(walk), !.active = {}]
  BY DEF Round
<1> QED
  BY <1>1, <1>3, <1>4, <1>5 DEF ShapeInv, WalkOK

LEMMA ShapeRound == ASSUME ShapeInv, Round PROVE ShapeInv'
<1>1. program' = program /\ starts' = starts /\ chunk' = chunk /\ thunks' = thunks
  BY DEF Round
<1> QED
  BY <1>1, RoundDoes DEF ShapeInv, Jump, Flow

\* A chunk is taken off the queue, and walked unless the console does not answer;
\* what is remembered of it besides are stubs and thunks.
LEMMA QueryDoes ==
  ASSUME ShapeInv, QueryChunk
  PROVE  /\ WalkOK(walk') /\ walk'.linkage \subseteq Code(program)
         /\ walk'.visited = walk.visited /\ walk'.active = walk.active
         /\ walk'.entries = walk.entries /\ walk'.extents = walk.extents
         /\ walk'.calls = walk.calls /\ walk'.thunkRoots = walk.thunkRoots
         /\ walk'.conditional = walk.conditional
         /\ walk'.thunkJumps = walk.thunkJumps /\ walk'.contextEdges = walk.contextEdges
         /\ queue' \in Seq(Code(program)) /\ chunk' \in Seq(Code(program))
         /\ Len(queue') < Len(queue)
         /\ failed => failed'
         /\ failed' \/ ToSet(queue) \subseteq ToSet(queue') \union ToSet(chunk')
         /\ ToSet(queue') \union ToSet(chunk') \subseteq ToSet(queue)
         /\ \A a \in DOMAIN thunks' : Jump(a, thunks'[a])
<1> DEFINE k == Min({ChunkSize, Len(queue)})
           asked == SubSeq(queue, 1, k)
           set == ToSet(asked)
           linked == [walk EXCEPT !.linkage = @ \union LinkageCandidates(walk, set)]
<1>1. Len(queue) \in Nat \ {0} /\ k \in 1 .. Len(queue)
  <2>1. Len(queue) \in Nat \ {0}
    BY EmptySeq, LenProperties DEF ShapeInv, QueryChunk
  <2> QED
    BY <2>1, MinOfTwo, DiscoveryAssumption
<1>2. queue' = SubSeq(queue, Len(asked) + 1, Len(queue))
  BY DEF QueryChunk
<1>3. /\ chunk' = asked \/ (chunk' = <<>> /\ failed' = TRUE)
      /\ failed => failed'
  BY DEF QueryChunk, Missed
<1>4. /\ walk' \in {walk, linked}
      /\ \/ thunks' \in {<<>>, thunks}
         \/ \E S \in SUBSET DOMAIN ConfirmedThunks(linked, set) :
              thunks' = Restrict(ConfirmedThunks(linked, set), S)
  <2> DEFINE confirmed == ConfirmedThunks(linked, set)
  <2>1. \/ walk' = linked
           /\ \E lost : thunks' = Restrict(confirmed, DOMAIN confirmed \ lost)
        \/ walk' = walk /\ thunks' \in {<<>>, thunks}
    BY DEF QueryChunk
  <2> HIDE DEF linked, confirmed
  <2>2. \A lost : DOMAIN confirmed \ lost \in SUBSET DOMAIN confirmed
    OBVIOUS
  <2> QED
    BY <2>1, <2>2 DEF confirmed
<1> HIDE DEF k
<1>5. /\ asked \in Seq(Code(program)) /\ queue' \in Seq(Code(program))
      /\ Len(queue') = Len(queue) - k
      /\ ToSet(queue) = ToSet(asked) \union ToSet(queue')
  <2>1. k \in 0 .. Len(queue)
    BY <1>1
  <2>2. asked = SubSeq(queue, 1, k) /\ queue \in Seq(Code(program))
    BY DEF ShapeInv
  <2> HIDE DEF asked
  <2>3. IsCut(queue, k, asked, queue')
    BY <1>2, <2>2 DEF IsCut
  <2>4. Parted(Code(program), queue, k, asked, queue')
    BY <2>1, <2>2, <2>3, Cut
  <2> QED
    BY <2>4 DEF Parted
<1> HIDE DEF asked
<1>6. LinkageCandidates(walk, set) \subseteq Code(program)
  BY InCodeIsCode DEF LinkageCandidates
<1>7. /\ WalkOK(walk') /\ walk'.linkage \subseteq Code(program)
      /\ walk'.visited = walk.visited /\ walk'.active = walk.active
      /\ walk'.entries = walk.entries /\ walk'.extents = walk.extents
      /\ walk'.calls = walk.calls /\ walk'.thunkRoots = walk.thunkRoots
      /\ walk'.conditional = walk.conditional
      /\ walk'.thunkJumps = walk.thunkJumps /\ walk'.contextEdges = walk.contextEdges
  <2> HIDE DEF set
  <2> QED
    BY <1>4, <1>6 DEF ShapeInv, WalkOK
<1>8. ASSUME NEW t, t = ConfirmedThunks(linked, set), NEW a \in DOMAIN t PROVE Jump(a, t[a])
  <2> HIDE DEF set, linked
  <2>1. t[a] = (CHOOSE u \in Flow(a).targets : TRUE)
        /\ \E u \in Flow(a).targets :
             Flow(a).kind = "branch" /\ Flow(a).fall = {} /\ Flow(a).targets = {u}
    BY <1>8 DEF ConfirmedThunks
  <2> QED
    BY <2>1 DEF Jump
<1>9. \A a \in DOMAIN thunks' : Jump(a, thunks'[a])
  <2> HIDE DEF linked, set
  <2>1. CASE thunks' = <<>>
    BY <2>1
  <2>2. CASE thunks' = thunks
    BY <2>2 DEF ShapeInv
  <2> DEFINE confirmed == ConfirmedThunks(linked, set)
  <2>3. \A a \in DOMAIN confirmed : Jump(a, confirmed[a])
    BY <1>8
  <2> HIDE DEF confirmed
  <2>4. ASSUME NEW S \in SUBSET DOMAIN confirmed, thunks' = Restrict(confirmed, S)
        PROVE  \A a \in DOMAIN thunks' : Jump(a, thunks'[a])
    BY <2>3, <2>4 DEF Restrict
  <2> QED
    BY <1>4, <2>1, <2>2, <2>4 DEF confirmed
<1> HIDE DEF linked, set
<1>10. chunk' \in Seq(Code(program))
  BY <1>3, <1>5, EmptySeq
<1>11. Len(queue') < Len(queue)
  BY <1>1, <1>5
<1>12. failed' \/ ToSet(queue) \subseteq ToSet(queue') \union ToSet(chunk')
  BY <1>3, <1>5
<1>13. ToSet(queue') \union ToSet(chunk') \subseteq ToSet(queue)
  <2>1. ToSet(<<>>) = {}
    BY DEF ToSet
  <2> QED
    BY <1>3, <1>5, <2>1
<1> QED
  BY <1>3, <1>5, <1>7, <1>9, <1>10, <1>11, <1>12, <1>13

LEMMA ShapeQuery == ASSUME ShapeInv, QueryChunk PROVE ShapeInv'
<1>1. program' = program /\ starts' = starts
  BY DEF QueryChunk
<1> QED
  BY <1>1, QueryDoes DEF ShapeInv, Jump, Flow

\* An instruction is walked as InstructionDoes says.
LEMMA WalkDoes ==
  ASSUME ShapeInv, WalkInstruction
  PROVE  /\ Head(chunk) \in Code(program)
         /\ chunk' \in Seq(Code(program)) /\ Len(chunk') = Len(chunk) - 1 /\ Len(chunk) \in Nat
         /\ ToSet(chunk) = ToSet(chunk') \union {Head(chunk)}
         /\ Steps(walk, walk', Head(chunk))
<1>1. chunk \in Seq(Code(program)) /\ chunk # <<>> /\ chunk' = Tail(chunk)
  BY DEF ShapeInv, WalkInstruction
<1>2. /\ Head(chunk) \in Code(program) /\ Tail(chunk) \in Seq(Code(program))
      /\ Len(Tail(chunk)) = Len(chunk) - 1
      /\ \A i \in 1 .. Len(Tail(chunk)) : Tail(chunk)[i] = chunk[i + 1]
  BY <1>1, HeadTailProperties
<1>3. Len(chunk) \in Nat /\ DOMAIN chunk = 1 .. Len(chunk) /\ Head(chunk) = chunk[1]
  BY <1>1, LenProperties
<1>4. ToSet(chunk) \subseteq ToSet(Tail(chunk)) \union {Head(chunk)}
  <2>1. DOMAIN Tail(chunk) = 1 .. Len(chunk) - 1
    BY <1>2, LenProperties
  <2>2. ASSUME NEW i \in 1 .. Len(chunk)
        PROVE  chunk[i] \in ToSet(Tail(chunk)) \union {Head(chunk)}
    <3>1. CASE i = 1
      BY <1>3, <3>1
    <3>2. CASE i # 1
      <4>1. i - 1 \in 1 .. Len(chunk) - 1 /\ (i - 1) + 1 = i
        BY <1>3, <3>2
      <4>2. Tail(chunk)[i - 1] = chunk[i]
        BY <1>2, <4>1
      <4> QED
        BY <2>1, <4>1, <4>2 DEF ToSet
    <3> QED
      BY <3>1, <3>2
  <2>3. ToSet(chunk) = {chunk[i] : i \in 1 .. Len(chunk)}
    BY <1>3 DEF ToSet
  <2> QED
    BY <2>2, <2>3
<1>8. ToSet(Tail(chunk)) \union {Head(chunk)} \subseteq ToSet(chunk)
  <2>1. chunk[1] \in ToSet(chunk)
    <3>1. 1 \in DOMAIN chunk
      BY <1>1, <1>2, <1>3, EmptySeq
    <3> QED
      BY <3>1 DEF ToSet
  <2>2. DOMAIN Tail(chunk) = 1 .. Len(chunk) - 1
    BY <1>2, LenProperties
  <2>3. \A i \in 1 .. Len(chunk) - 1 : i + 1 \in DOMAIN chunk /\ Tail(chunk)[i] = chunk[i + 1]
    BY <1>2, <1>3
  <2> QED
    BY <1>3, <2>1, <2>2, <2>3 DEF ToSet
<1> DEFINE a == Head(chunk)
<1>5. Plain(a)
  <2>1. Sound(program)
    BY DEF ShapeInv
  <2>2. a \in DOMAIN program.flow
    BY <1>2, <2>1, CodeIsFinite
  <2>3. /\ program.flow[a].first \subseteq program.flow[a].targets
        /\ \A s \in {program.flow[a].first, program.flow[a].fall} : \A t, u \in s : t = u
    BY <2>1, <2>2 DEF Sound
  <2> HIDE DEF a
  <2> QED
    BY <2>3 DEF Plain, Flow
<1>6. walk' = Instruction(walk, a)
  BY DEF WalkInstruction
<1>7. Steps(walk, walk', a)
  <2> HIDE DEF a
  <2> QED
    BY <1>5, <1>6, InstructionDoes DEF ShapeInv
<1> QED
  BY <1>1, <1>2, <1>3, <1>4, <1>7, <1>8

LEMMA ShapeWalk == ASSUME ShapeInv, WalkInstruction PROVE ShapeInv'
<1>1. program' = program /\ starts' = starts /\ queue' = queue /\ thunks' = thunks
  BY DEF WalkInstruction
<1> QED
  BY <1>1, WalkDoes DEF ShapeInv, Steps, Jump, Flow

\* The sweep comes first: no thunk is confirmed before it.
NoneBefore == phase = "sweep" => thunks = <<>> /\ walk.visited = {}

LEMMA NoneYet == ASSUME NoneBefore, [Next]_vars PROVE NoneBefore'
<1>1. phase' # "sweep" \/ UNCHANGED vars
  <2>1. CASE Sweep \/ Start \/ Round \/ QueryChunk \/ WalkInstruction \/ Finish \/ GiveUp
    BY <2>1 DEF Sweep, Start, Round, QueryChunk, WalkInstruction, Finish, GiveUp, Walking
  <2>2. CASE ConfirmCandidates \/ ConfirmPatterns \/ PromoteLinkages
    BY <2>2, Zenon DEF ConfirmCandidates, ConfirmPatterns, PromoteLinkages
  <2>3. CASE RejectPatterns
    <3>1. phase' = "linkages" \/ (phase' = phase /\ phase = "patterns")
      BY <2>3, Zenon DEF RejectPatterns
    <3> QED
      BY <3>1
  <2> QED
    BY <2>1, <2>2, <2>3 DEF Next, Stop
<1> QED
  BY <1>1 DEF NoneBefore, vars

LEMMA NoneIsInvariant == Spec => []NoneBefore
<1>1. Init => NoneBefore
  BY DEF Init, NoWalk, NoneBefore
<1> QED
  BY <1>1, NoneYet, PTL DEF Spec

\* What ends discovery early leaves all else as it is, and nothing to walk.
LEMMA GiveUpDoes ==
  ASSUME GiveUp
  PROVE  /\ phase \in {"sweep", "start", "relocs"} /\ phase' = "error"
         /\ phase = "relocs" => Walked
         /\ UNCHANGED <<program, functions, xrefs, walk, queue, chunk, thunks, starts, failed>>
BY DEF GiveUp

\* The sweep finds calls and candidates, and may lose answers.
LEMMA SweepDoes ==
  ASSUME ShapeInv, Sweep
  PROVE  /\ \E lost : program' = Lose(program, lost)
         /\ WalkOK(walk')
         /\ walk'.visited = walk.visited /\ walk'.active = walk.active
         /\ walk'.entries = walk.entries /\ walk'.extents = walk.extents
         /\ walk'.calls = walk.calls /\ walk'.linkage = walk.linkage
         /\ walk'.thunkRoots = walk.thunkRoots /\ walk'.conditional = walk.conditional
         /\ walk'.thunkJumps = walk.thunkJumps /\ walk'.contextEdges = walk.contextEdges
<1>1. \E s : walk' = [walk EXCEPT !.candidates = s]
  BY Zenon DEF Sweep
<1>2. \E lost : program' = Lose(program, lost)
  BY Zenon DEF Sweep
<1> QED
  BY <1>1, <1>2 DEF ShapeInv, WalkOK

\* The image keeps all but its flow.
LEMMA SweepKeeps ==
  ASSUME ShapeInv, Sweep
  PROVE  /\ Sound(program') /\ Addresses' = Addresses
         /\ Code(program') = Code(program) /\ Places(program') = Places(program)
         /\ program'.functions = program.functions /\ program'.plt = program.plt
<1>1. PICK lost : program' = Lose(program, lost)
  BY SweepDoes
<1>2. /\ Sound(program') /\ DOMAIN program'.flow = DOMAIN program.flow
      /\ program'.ranges = program.ranges /\ program'.hits = program.hits
      /\ program'.functions = program.functions /\ program'.plt = program.plt
  BY <1>1, LosingIsSound DEF ShapeInv
<1> QED
  BY <1>2 DEF Code, Places, Addresses

LEMMA ShapeSweep == ASSUME ShapeInv, NoneBefore, Sweep PROVE ShapeInv'
<1>1. starts' = starts /\ queue' = queue /\ chunk' = chunk /\ thunks' = <<>>
  BY DEF Sweep, NoneBefore
<1> QED
  BY <1>1, SweepDoes, SweepKeeps DEF ShapeInv

\* Everything known to be a function is an entry, and is walked first.
LEMMA StartDoes ==
  ASSUME ShapeInv, Start
  PROVE  /\ WalkOK(walk')
         /\ walk'.visited = walk.visited /\ walk'.extents = walk.extents
         /\ walk'.calls = walk.calls /\ walk'.linkage = walk.linkage
         /\ walk'.thunkRoots = walk.thunkRoots /\ walk'.conditional = walk.conditional
         /\ walk'.thunkJumps = walk.thunkJumps /\ walk'.contextEdges = walk.contextEdges
         /\ walk'.active = walk'.entries
         /\ \A f \in DOMAIN functions' : f # 0 /\ InCode(f) => f \in walk'.active
         /\ DOMAIN functions \subseteq DOMAIN functions'
         /\ DOMAIN functions' \subseteq DOMAIN functions \union {p[1] : p \in program.plt}
         /\ failed => failed'
<1> DEFINE stubs == {p \in program.plt :
                       LET l == program.linkages[p[1]]
                       IN  /\ HasSlots /\ l.length # 0 /\ l.length <= p[2]
                           /\ l.slot \in program.slots /\ Within(p[1], l.length)
                           /\ p[1] \notin DOMAIN functions}
           Known(S) == InsertAll(functions,
                                 [f \in {p[1] : p \in S} |-> program.linkages[f].length])
           Seeds(S) == {f \in DOMAIN Known(S) \union program.slots : f # 0 /\ InCode(f)}
<1>6. \E lost : /\ functions' = Known(stubs \ lost)
                /\ walk' = [walk EXCEPT !.entries = Seeds(stubs \ lost),
                                        !.active = Seeds(stubs \ lost),
                                        !.origin = [f \in Seeds(stubs \ lost) |-> f]]
                /\ failed => failed'
  <2>1. \A some : Missed(some) => (failed => failed')
    BY DEF Missed
  <2> QED
    BY <2>1, Zenon DEF Start
<1>2. \A lost : stubs \ lost \in SUBSET program.plt
  OBVIOUS
<1> HIDE DEF stubs
<1>7. PICK proved \in SUBSET program.plt :
        /\ functions' = Known(proved)
        /\ walk' = [walk EXCEPT !.entries = Seeds(proved), !.active = Seeds(proved),
                                !.origin = [f \in Seeds(proved) |-> f]]
        /\ failed => failed'
  BY <1>2, <1>6, Zenon
<1> DEFINE known == Known(proved)
           seeds == Seeds(proved)
<1>1. functions' = known
      /\ walk' = [walk EXCEPT !.entries = seeds, !.active = seeds,
                              !.origin = [f \in seeds |-> f]]
  BY <1>7
<1>3. DOMAIN known = DOMAIN functions \union {p[1] : p \in proved}
  BY DEF InsertAll
<1> HIDE DEF known
<1>4. \A f \in DOMAIN known : f # 0 /\ InCode(f) => f \in seeds
  <2> HIDE DEF Known
  <2> QED
    BY DEF known
<1> HIDE DEF seeds
<1>5. /\ WalkOK(walk')
      /\ walk'.visited = walk.visited /\ walk'.extents = walk.extents
      /\ walk'.calls = walk.calls /\ walk'.linkage = walk.linkage
      /\ walk'.thunkRoots = walk.thunkRoots /\ walk'.conditional = walk.conditional
      /\ walk'.active = seeds /\ walk'.entries = seeds
      /\ walk'.thunkJumps = walk.thunkJumps /\ walk'.contextEdges = walk.contextEdges
  BY <1>1 DEF ShapeInv, WalkOK
<1> QED
  BY <1>1, <1>3, <1>4, <1>5, <1>7

LEMMA ShapeStart == ASSUME ShapeInv, Start PROVE ShapeInv'
<1>1. program' = program /\ starts' = starts /\ queue' = queue /\ chunk' = chunk
      /\ thunks' = thunks
  BY DEF Start
<1> QED
  BY <1>1, StartDoes DEF ShapeInv, Jump, Flow

\* The confirmed candidates are entries and are walked next.
LEMMA EnterDoes ==
  ASSUME NEW w, WalkOK(w), NEW found, NEW m, NEW v, v = Enter(w, found, m)
  PROVE  /\ WalkOK(v)
         /\ v.entries = w.entries \union found /\ v.active = found
         /\ v.visited = w.visited /\ v.extents = w.extents /\ v.calls = w.calls
         /\ v.linkage = w.linkage /\ v.thunkRoots = w.thunkRoots
         /\ v.conditional = w.conditional
         /\ v.thunkJumps = w.thunkJumps /\ v.contextEdges = w.contextEdges
BY DEF WalkOK, Enter

LEMMA CandidatesDo ==
  ASSUME ConfirmCandidates
  PROVE  \E found, m : walk' = Enter(walk, found, m)
BY DEF ConfirmCandidates

LEMMA ShapeCandidates == ASSUME ShapeInv, ConfirmCandidates PROVE ShapeInv'
<1>1. program' = program /\ starts' = starts /\ queue' = queue /\ chunk' = chunk
      /\ thunks' = thunks
  BY DEF ConfirmCandidates
<1>2. PICK found, m : walk' = Enter(walk, found, m)
  BY CandidatesDo
<1> QED
  BY <1>1, <1>2, EnterDoes DEF ShapeInv, Jump, Flow

\* The possible starts are hits, and none is rejected yet.
LEMMA PatternsDo ==
  ASSUME ShapeInv, ConfirmPatterns
  PROVE  /\ \E found, m : walk' = Enter(walk, found, m)
         /\ starts' \in [candidates : {starts'.candidates}, before : {starts'.before},
                         rejected : {starts'.rejected}]
         /\ starts'.rejected = {}
         /\ \A c \in starts'.candidates : c.address \in Places(program)
<1>1. PICK hits \in {program.hits} \union (IF program.fails THEN SUBSET program.hits ELSE {}) :
        LET collected == Collect(hits, Surroundings, walk.entries, SizedFunctions,
                                 walk.extents, walk.conditional) IN
        /\ starts' = [candidates |-> collected, before |-> walk.entries, rejected |-> {}]
        /\ \E found, m : walk' = Enter(walk, found, m)
  BY DEF ConfirmPatterns
<1>2. hits \subseteq program.hits
  OBVIOUS
<1>3. AreHits(starts'.candidates, program.hits)
  <2> DEFINE collected == Collect(hits, Surroundings, walk.entries, SizedFunctions,
                                  walk.extents, walk.conditional)
  <2>1. AreHits(collected, program.hits)
    BY <1>2, CollectedAreHits
  <2>2. starts'.candidates = collected
    BY <1>1
  <2> HIDE DEF collected
  <2> QED
    BY <2>1, <2>2
<1> QED
  BY <1>1, <1>3 DEF Places, AreHits

LEMMA ShapePatterns == ASSUME ShapeInv, ConfirmPatterns PROVE ShapeInv'
<1>1. program' = program /\ queue' = queue /\ chunk' = chunk /\ thunks' = thunks
  BY DEF ConfirmPatterns
<1>2. PICK found, m : walk' = Enter(walk, found, m)
  BY PatternsDo
<1> QED
  BY <1>1, <1>2, PatternsDo, EnterDoes DEF ShapeInv, Jump, Flow

\* A pass over the possible starts rejects more, or is the last: then those that
\* are rejected are no entries any more, and are all that a conditional jump, and
\* no call, leads to.
LEMMA RejectPatternsDo ==
  ASSUME ShapeInv, RejectPatterns
  PROVE  /\ WalkOK(walk')
         /\ walk'.visited = walk.visited /\ walk'.active = walk.active
         /\ walk'.extents = walk.extents /\ walk'.calls = walk.calls
         /\ walk'.linkage = walk.linkage /\ walk'.thunkRoots = walk.thunkRoots
         /\ walk'.conditional = walk.conditional
         /\ walk'.thunkJumps = walk.thunkJumps /\ walk'.contextEdges = walk.contextEdges
         /\ walk'.entries \subseteq walk.entries
         /\ starts' \in [candidates : {starts.candidates}, before : {starts.before},
                         rejected : {starts'.rejected}]
         /\ starts.rejected \subseteq starts'.rejected
         /\ starts'.rejected \subseteq Places(program)
         /\ \A c \in starts'.rejected \ starts.rejected : c \notin Targets(walk.calls)
         /\ walk'.entries = IF phase' = "patterns" THEN walk.entries
                            ELSE walk.entries \ starts.rejected
         /\ \/ phase' = "patterns" /\ starts'.rejected # starts.rejected
            \/ /\ phase' = "linkages"
               /\ walk'.entries \intersect starts.rejected = {}
               /\ \A c \in starts.candidates :
                    c.possible /\ c.address \in walk.conditional
                      => c.address \in starts.rejected \union {p[2] : p \in walk.calls}
<1> DEFINE called == {p[2] : p \in walk.calls}
           possible == {c.address : c \in {d \in starts.candidates : d.possible}} \ called
           definite == {c.address : c \in {d \in starts.candidates : ~d.possible}}
           established == starts.before \union called \union definite
           base == [walk |-> walk, rejected |-> starts.rejected]
           pass == Rejects(established, base, InOrder(possible))
           n == Cardinality(possible)
<1>1. /\ phase = "patterns"
      /\ starts' = [starts EXCEPT !.rejected = pass.rejected]
      /\ walk' = IF pass.rejected = starts.rejected
                 THEN [walk EXCEPT !.entries = @ \ starts.rejected] ELSE pass.walk
      /\ phase' = IF pass.rejected = starts.rejected THEN "linkages" ELSE phase
  BY DEF RejectPatterns, Rejects
<1>2. possible \in SUBSET Places(program)
  BY DEF ShapeInv
<1>3. \A c \in starts.candidates : c.possible => c.address \in possible \union called
  OBVIOUS
<1>12. \A c \in possible : c \notin Targets(walk.calls)
  BY DEF Targets
<1> HIDE DEF possible, established
<1>4. /\ n \in Nat /\ DOMAIN InOrder(possible) = 1 .. n
      /\ Listed(InOrder(possible), n) = possible
  <2>1. possible \in SUBSET Int /\ IsFiniteSet(possible)
    BY <1>2, PlacesAreFinite, FS_Subset DEF ShapeInv
  <2>2. /\ n \in Nat /\ InOrder(possible) \in [1 .. n -> possible]
        /\ \A a \in possible : \E i \in 1 .. n : InOrder(possible)[i] = a
    BY <2>1, InOrderLists
  <2> HIDE DEF n
  <2> QED
    BY <2>2 DEF Listed
<1> HIDE DEF n
<1>5. PassOK(base) /\ base.walk = walk /\ base.rejected = starts.rejected
  BY DEF PassOK, ShapeInv
<1> HIDE DEF base
<1>6. Rejected(base, pass, possible)
  <2>1. Rejected(base, pass, Listed(InOrder(possible), n))
    BY <1>4, <1>5, PassRejects
  <2> QED
    BY <1>4, <2>1
<1> HIDE DEF pass
<1>7. /\ WalkOK(walk')
      /\ walk'.visited = walk.visited /\ walk'.active = walk.active
      /\ walk'.extents = walk.extents /\ walk'.calls = walk.calls
      /\ walk'.linkage = walk.linkage /\ walk'.thunkRoots = walk.thunkRoots
      /\ walk'.conditional = walk.conditional
      /\ walk'.thunkJumps = walk.thunkJumps /\ walk'.contextEdges = walk.contextEdges
      /\ walk'.entries \subseteq walk.entries
  <2>1. CASE pass.rejected = starts.rejected
    BY <1>1, <2>1 DEF ShapeInv, WalkOK
  <2>2. CASE pass.rejected # starts.rejected
    <3>1. walk' = pass.walk
      BY <1>1, <2>2
    <3> QED
      BY <1>5, <1>6, <3>1 DEF Rejected, Kept
  <2> QED
    BY <2>1, <2>2
<1>8. /\ starts' \in [candidates : {starts.candidates}, before : {starts.before},
                      rejected : {starts'.rejected}]
      /\ starts'.rejected = pass.rejected
  BY <1>1 DEF ShapeInv
<1>9. starts.rejected \subseteq pass.rejected /\ pass.rejected \subseteq Places(program)
      /\ possible \intersect walk.conditional \subseteq pass.rejected
      /\ \A c \in pass.rejected \ starts.rejected : c \notin Targets(walk.calls)
  BY <1>2, <1>5, <1>6, <1>12 DEF Rejected, ShapeInv
<1>10. CASE pass.rejected = starts.rejected
  <2>1. phase' = "linkages" /\ walk'.entries = walk.entries \ starts.rejected
    BY <1>1, <1>10 DEF ShapeInv, WalkOK
  <2>2. \A c \in starts.candidates :
          c.possible /\ c.address \in walk.conditional
            => c.address \in starts.rejected \union called
    BY <1>3, <1>9, <1>10
  <2> QED
    BY <1>7, <1>8, <1>9, <2>1, <2>2
<1>11. CASE pass.rejected # starts.rejected
  <2>1. phase' = "patterns" /\ walk' = pass.walk
    BY <1>1, <1>11
  <2>2. walk'.entries = walk.entries
    BY <1>5, <1>6, <2>1 DEF Rejected, Kept
  <2> QED
    BY <1>7, <1>8, <1>9, <1>11, <2>1, <2>2
<1> QED
  BY <1>10, <1>11

LEMMA ShapeReject == ASSUME ShapeInv, RejectPatterns PROVE ShapeInv'
<1>1. program' = program /\ queue' = queue /\ chunk' = chunk /\ thunks' = thunks
  BY DEF RejectPatterns
<1>2. /\ starts'.candidates = starts.candidates
      /\ starts' \in [candidates : {starts'.candidates}, before : {starts'.before},
                      rejected : {starts'.rejected}]
  BY RejectPatternsDo
<1> QED
  BY <1>1, <1>2, RejectPatternsDo DEF ShapeInv, Jump, Flow

\* A stub is a candidate that was walked.
Stubs == {t \in walk.linkage : t \in {e[1] : e \in walk.extents}}

\* A stub that needs no context of its callers.
PlainStub(t) == ~program.linkages[t].context
Agreed(t) == EdgesAgree(walk, t)

\* The stubs that the console answers for, in their two turns.
Unpromoted == [functions |-> functions, walk |-> walk, changed |-> FALSE]
PromotedPlain(plain) == Promotions(Unpromoted, InOrder(plain))
PromotedAll(plain, asking) ==
  ContextPromotions(PromotedPlain(plain), InOrder(asking \ PromotedPlain(plain).walk.entries))

LEMMA StubsArePicked ==
  ASSUME PromoteLinkages
  PROVE  /\ phase = "linkages" /\ phase' = "finish" /\ (failed => failed')
         /\ \E plain, asking \in SUBSET {t \in walk.linkage : LinkageShape(walk, t)} :
              LET all == PromotedAll(plain, asking)
              IN  /\ functions' = all.functions
                  /\ walk' = IF all.changed
                             THEN [all.walk EXCEPT !.bodies = RebuiltBodies(all.walk)] ELSE walk
                  /\ \A t \in plain : PlainStub(t)
<1> DEFINE shaped == {t \in walk.linkage : LinkageShape(walk, t)}
           Simple(lost) == {t \in shaped \ lost : ~program.linkages[t].context}
           Contextual(lost) == {t \in shaped \ lost : program.linkages[t].context
                                                        /\ t \notin walk.conditional}
           Picked(plain, asking) ==
             LET all == PromotedAll(plain, asking)
             IN  /\ functions' = all.functions
                 /\ walk' = IF all.changed
                            THEN [all.walk EXCEPT !.bodies = RebuiltBodies(all.walk)] ELSE walk
<1>1. \E lost, mute : Picked(Simple(lost), Contextual(lost) \ mute)
  BY Zenon DEF PromoteLinkages, PromotedAll, PromotedPlain, Unpromoted, Promotions,
               ContextPromotions
<1>2. phase = "linkages" /\ phase' = "finish" /\ \E some : Missed(some)
  BY Zenon DEF PromoteLinkages
<1>3. failed => failed'
  BY <1>2 DEF Missed
<1> HIDE DEF Picked
<1>4. \A lost, mute : /\ Simple(lost) \in SUBSET shaped
                      /\ Contextual(lost) \ mute \in SUBSET shaped
                      /\ \A t \in Simple(lost) : PlainStub(t)
  BY DEF PlainStub
<1> HIDE DEF Simple, Contextual
<1>5. \E plain, asking \in SUBSET shaped : Picked(plain, asking) /\ \A t \in plain : PlainStub(t)
  BY <1>1, <1>4
<1> QED
  BY <1>2, <1>3, <1>5 DEF Picked

\* What is promoted are stubs, each with a slot of its own or of all its callers.
LEMMA PromoteLinkagesDo ==
  ASSUME ShapeInv, PromoteLinkages
  PROVE  /\ WalkOK(walk')
         /\ walk'.visited = walk.visited /\ walk'.active = walk.active
         /\ walk'.extents = walk.extents /\ walk'.calls = walk.calls
         /\ walk'.linkage = walk.linkage /\ walk'.thunkRoots = walk.thunkRoots
         /\ walk'.conditional = walk.conditional
         /\ walk'.entries \subseteq walk.entries \union Stubs
         /\ DOMAIN functions \subseteq DOMAIN functions'
         /\ DOMAIN functions' \subseteq DOMAIN functions \union Stubs
         /\ walk'.thunkJumps = walk.thunkJumps /\ walk'.contextEdges = walk.contextEdges
         /\ \A t \in (DOMAIN functions' \union walk'.entries)
                       \ (DOMAIN functions \union walk.entries) : PlainStub(t) \/ Agreed(t)
         /\ failed => failed'
<1>15. failed => failed'
  BY StubsArePicked
<1> DEFINE shaped == {t \in walk.linkage : LinkageShape(walk, t)}
<1>20. PICK plain \in SUBSET shaped, asking \in SUBSET shaped :
         LET all == PromotedAll(plain, asking)
         IN  /\ functions' = all.functions
             /\ walk' = IF all.changed
                        THEN [all.walk EXCEPT !.bodies = RebuiltBodies(all.walk)] ELSE walk
             /\ \A t \in plain : PlainStub(t)
  BY StubsArePicked
<1> DEFINE base == [functions |-> functions, walk |-> walk, changed |-> FALSE]
           direct == Promotions(base, InOrder(plain))
           all == ContextPromotions(direct, InOrder(asking \ direct.walk.entries))
<1>1. /\ functions' = all.functions
      /\ walk' = IF all.changed THEN [all.walk EXCEPT !.bodies = RebuiltBodies(all.walk)]
                 ELSE walk
  BY <1>20 DEF PromotedAll, PromotedPlain, Unpromoted
<1>2. shaped \in SUBSET Stubs
  BY DEF LinkageShape, Stubs
<1>14. \A t \in plain : PlainStub(t)
  BY <1>20
<1>3. shaped \in SUBSET Int /\ IsFiniteSet(shaped)
  <2>1. shaped \in SUBSET Code(program) /\ Code(program) \subseteq Int
    BY DEF ShapeInv, Code
  <2> HIDE DEF shaped
  <2> QED
    BY <2>1, CodeIsFinite, FS_Subset DEF ShapeInv
<1> HIDE DEF shaped
<1>4. /\ plain \in SUBSET Int /\ IsFiniteSet(plain)
      /\ asking \ direct.walk.entries \in SUBSET Int
      /\ IsFiniteSet(asking \ direct.walk.entries)
  <2>1. plain \in SUBSET shaped
        /\ asking \ direct.walk.entries \in SUBSET shaped
    OBVIOUS
  <2> HIDE DEF direct
  <2> QED
    BY <1>3, <2>1, FS_Subset
<1>5. PromotingOK(base) /\ base.walk = walk /\ base.functions = functions
  BY DEF PromotingOK, ShapeInv
<1> HIDE DEF base
<1>6. Promoted(base, direct, plain)
  BY <1>4, <1>5, BothPromote
<1>7. Promoted(direct, all, asking \ direct.walk.entries) /\ Agreeing(direct, all)
  <2>1. PromotingOK(direct)
    BY <1>6 DEF Promoted
  <2> HIDE DEF direct
  <2> QED
    BY <1>4, <2>1, BothPromote
<1> HIDE DEF direct
<1> DEFINE T == (plain) \union (asking \ direct.walk.entries)
<1>8. Promoted(base, all, T)
  <2> HIDE DEF all
  <2> QED
    BY <1>6, <1>7, PromotedIsTransitive
<1>9. T \subseteq Stubs
  BY <1>2
<1>13. \A t \in Named(all) \ Named(base) : PlainStub(t) \/ Agreed(t)
  <2> HIDE DEF all
  <2> TAKE t \in Named(all) \ Named(base)
  <2>1. CASE t \in Named(direct)
    <3>1. t \in plain
      BY <1>6, <2>1 DEF Promoted, Named
    <3> QED
      BY <1>14, <3>1
  <2>2. CASE t \notin Named(direct)
    <3>1. EdgesAgree(direct.walk, t) /\ direct.walk.contextEdges = walk.contextEdges
      BY <1>5, <1>6, <1>7, <2>2 DEF Promoted, Agreeing
    <3> QED
      BY <3>1 DEF EdgesAgree, Agreed
  <2> QED
    BY <2>1, <2>2
<1> HIDE DEF all, T
<1>10. DOMAIN functions \subseteq DOMAIN functions'
       /\ DOMAIN functions' \subseteq DOMAIN functions \union Stubs
  BY <1>1, <1>5, <1>8, <1>9 DEF Promoted
<1>11. CASE all.changed
  <2>1. walk' = [all.walk EXCEPT !.bodies = RebuiltBodies(all.walk)]
    BY <1>1, <1>11
  <2>2. WalkOK(all.walk)
    BY <1>8 DEF Promoted, PromotingOK
  <2>3. /\ WalkOK(walk')
        /\ walk'.visited = all.walk.visited /\ walk'.active = all.walk.active
        /\ walk'.extents = all.walk.extents /\ walk'.calls = all.walk.calls
        /\ walk'.linkage = all.walk.linkage /\ walk'.thunkRoots = all.walk.thunkRoots
        /\ walk'.conditional = all.walk.conditional /\ walk'.entries = all.walk.entries
        /\ walk'.thunkJumps = all.walk.thunkJumps
        /\ walk'.contextEdges = all.walk.contextEdges
    BY <2>1, <2>2 DEF WalkOK
  <2>4. \A t \in (DOMAIN functions' \union walk'.entries)
                   \ (DOMAIN functions \union walk.entries) : PlainStub(t) \/ Agreed(t)
    BY <1>1, <1>5, <1>13, <2>3 DEF Named
  <2> QED
    BY <1>5, <1>8, <1>9, <1>10, <1>15, <2>3, <2>4 DEF Promoted
<1>12. CASE ~ all.changed
  <2>1. walk' = walk
    BY <1>1, <1>12
  <2>2. walk.entries \subseteq all.walk.entries
    BY <1>5, <1>8 DEF Promoted
  <2>3. \A t \in (DOMAIN functions' \union walk'.entries)
                   \ (DOMAIN functions \union walk.entries) : PlainStub(t) \/ Agreed(t)
    BY <1>1, <1>5, <1>13, <2>1, <2>2 DEF Named
  <2> QED
    BY <1>10, <1>15, <2>1, <2>3 DEF ShapeInv
<1> QED
  BY <1>11, <1>12

LEMMA ShapePromote == ASSUME ShapeInv, PromoteLinkages PROVE ShapeInv'
<1>1. program' = program /\ starts' = starts /\ queue' = queue /\ chunk' = chunk
      /\ thunks' = thunks
  BY DEF PromoteLinkages
<1> QED
  BY <1>1, PromoteLinkagesDo DEF ShapeInv, Jump, Flow

LEMMA ShapeRest ==
  ASSUME ShapeInv, Finish \/ GiveUp \/ Stop \/ UNCHANGED vars PROVE ShapeInv'
<1>1. /\ program' = program /\ starts' = starts /\ queue' = queue /\ chunk' = chunk
      /\ thunks' = thunks /\ walk' = walk
  BY GiveUpDoes DEF Finish, Stop, vars
<1> QED
  BY <1>1 DEF ShapeInv, Jump, Flow

\* The variables have their shapes in every state, and only code is visited, asked
\* about and walked (ShapeInv: the sets and maps of flow_discover_with_candidates).
THEOREM ShapeIsInvariant == Spec => []ShapeInv
<1>1. Init => ShapeInv
  BY ShapeInit
<1>2. ShapeInv /\ NoneBefore /\ [Next]_vars => ShapeInv'
  BY ShapeSweep, ShapeStart, ShapeRound, ShapeQuery, ShapeWalk, ShapeCandidates,
     ShapePatterns, ShapeReject, ShapePromote, ShapeRest DEF Next
<1> QED
  BY <1>1, <1>2, NoneIsInvariant, PTL DEF Spec

-----------------------------------------------------------------------------
(* Discovery ends: each step is one of a measure that only grows. *)

LEMMA PartIs ==
  ASSUME NEW i \in 1 .. 9
  PROVE  Part(Parts[i]) = i
<1>1. DOMAIN Parts = 1 .. 9 /\ \A j \in 1 .. 9 : Parts[j] = Parts[i] => j = i
  BY DEF Parts
<1>2. \E j \in DOMAIN Parts : Parts[j] = Parts[i]
  BY <1>1
<1>3. Part(Parts[i]) \in DOMAIN Parts /\ Parts[Part(Parts[i])] = Parts[i]
  BY <1>2, Zenon DEF Part
<1> QED
  BY <1>1, <1>3

LEMMA PartsAre ==
  /\ Part("sweep") = 1 /\ Part("start") = 2 /\ Part("seeds") = 3 /\ Part("relocs") = 4
  /\ Part("patterns") = 5 /\ Part("linkages") = 6 /\ Part("finish") = 7
  /\ Part("done") = 8 /\ Part("error") = 9
<1>1. /\ Parts[1] = "sweep" /\ Parts[2] = "start" /\ Parts[3] = "seeds"
      /\ Parts[4] = "relocs" /\ Parts[5] = "patterns" /\ Parts[6] = "linkages"
      /\ Parts[7] = "finish" /\ Parts[8] = "done" /\ Parts[9] = "error"
  BY DEF Parts
<1>2. \A i \in 1 .. 9 : Part(Parts[i]) = i
  BY PartIs
<1> HIDE DEF Parts
<1> QED
  BY <1>1, <1>2

Advances == Before(Measure(phase, walk, starts, queue, chunk),
                   Measure(phase', walk', starts', queue', chunk'))

\* A later part is an advance, whatever else changes.
LEMMA LaterAdvances ==
  ASSUME NEW m, NEW n, m[1] < n[1]
  PROVE  Before(m, n)
<1>1. \A j \in 1 .. 1 - 1 : m[j] <= n[j]
  OBVIOUS
<1> QED
  BY <1>1 DEF Before

LEMMA FirstsAdvance ==
  ASSUME NEW m, NEW n, NEW k \in 1 .. 5, m[k] < n[k], \A j \in 1 .. k - 1 : m[j] <= n[j]
  PROVE  Before(m, n)
BY DEF Before

\* The parts of a measure.
LEMMA MeasureIs ==
  ASSUME NEW p, NEW w, NEW r, NEW q, NEW c, NEW m, m = Measure(p, w, r, q, c)
  PROVE  /\ m[1] = Part(p) /\ m[2] = Cardinality(w.visited)
         /\ m[3] = Cardinality(r.rejected) /\ m[4] = -Len(q) /\ m[5] = -Len(c)
BY DEF Measure

LEMMA VisitedIsFinite ==
  ASSUME ShapeInv
  PROVE  /\ IsFiniteSet(walk.visited) /\ Cardinality(walk.visited) \in Nat
         /\ IsFiniteSet(starts.rejected) /\ Cardinality(starts.rejected) \in Nat
         /\ Len(queue) \in Nat /\ Len(chunk) \in Nat
<1>1. Sound(program) /\ walk.visited \subseteq Code(program)
      /\ starts.rejected \subseteq Places(program)
      /\ queue \in Seq(Code(program)) /\ chunk \in Seq(Code(program))
  BY DEF ShapeInv
<1>2. IsFiniteSet(walk.visited) /\ IsFiniteSet(starts.rejected)
  BY <1>1, CodeIsFinite, PlacesAreFinite, FS_Subset
<1> QED
  BY <1>1, <1>2, FS_CardinalityType, LenProperties

\* A set that grows has more members.
LEMMA MoreMembers ==
  ASSUME NEW S, NEW T, IsFiniteSet(T), S \subseteq T, S # T
  PROVE  Cardinality(S) < Cardinality(T)
<1>1. IsFiniteSet(S) /\ Cardinality(S) <= Cardinality(T) /\ Cardinality(S) # Cardinality(T)
  BY FS_Subset
<1>2. Cardinality(S) \in Nat /\ Cardinality(T) \in Nat
  BY <1>1, FS_CardinalityType
<1> QED
  BY <1>1, <1>2

LEMMA RoundAdvances == ASSUME ShapeInv, ShapeInv', Round PROVE Advances
<1> DEFINE m == Measure(phase, walk, starts, queue, chunk)
           n == Measure(phase', walk', starts', queue', chunk')
<1>1. /\ m[1] = Part(phase) /\ m[2] = Cardinality(walk.visited)
      /\ n[1] = Part(phase') /\ n[2] = Cardinality(walk'.visited)
  BY MeasureIs
<1>2. phase' = phase /\ Part(phase) \in 1 .. 9
  BY PartsAre DEF Round, Walking
<1>3. walk.visited \subseteq walk'.visited /\ walk.visited # walk'.visited
  <2>1. walk'.visited = walk.visited \union ToQuery(walk)
    BY RoundDoes
  <2>2. ToQuery(walk) # {} /\ ToQuery(walk) \intersect walk.visited = {}
    BY DEF Round, ToQuery
  <2> QED
    BY <2>1, <2>2
<1>4. Cardinality(walk.visited) < Cardinality(walk'.visited)
  <2>1. Sound(program') /\ walk'.visited \subseteq Code(program')
    BY DEF ShapeInv
  <2>2. IsFiniteSet(walk'.visited)
    BY <2>1, CodeIsFinite, FS_Subset
  <2> QED
    BY <1>3, <2>2, MoreMembers
<1> HIDE DEF m, n
<1>5. m[2] < n[2] /\ \A j \in 1 .. 2 - 1 : m[j] <= n[j]
  BY <1>1, <1>2, <1>4
<1>6. Before(m, n)
  BY <1>5, FirstsAdvance
<1> QED
  BY <1>6 DEF Advances, m, n

LEMMA QueryAdvances == ASSUME ShapeInv, QueryChunk PROVE Advances
<1> DEFINE m == Measure(phase, walk, starts, queue, chunk)
           n == Measure(phase', walk', starts', queue', chunk')
<1>1. /\ m[1] = Part(phase) /\ m[2] = Cardinality(walk.visited)
      /\ m[3] = Cardinality(starts.rejected) /\ m[4] = -Len(queue)
      /\ n[1] = Part(phase') /\ n[2] = Cardinality(walk'.visited)
      /\ n[3] = Cardinality(starts'.rejected) /\ n[4] = -Len(queue')
  BY MeasureIs
<1>2. phase' = phase /\ starts' = starts /\ Part(phase) \in 1 .. 9
  BY PartsAre DEF QueryChunk, Walking
<1>3. walk'.visited = walk.visited /\ Len(queue') < Len(queue) /\ Len(queue') \in Nat
  BY QueryDoes, LenProperties
<1>4. Cardinality(walk.visited) \in Nat /\ Cardinality(starts.rejected) \in Nat
      /\ Len(queue) \in Nat
  BY VisitedIsFinite
<1> HIDE DEF m, n
<1>5. m[4] < n[4] /\ m[1] <= n[1] /\ m[2] <= n[2] /\ m[3] <= n[3]
  BY <1>1, <1>2, <1>3, <1>4
<1>6. \A j \in 1 .. 4 - 1 : m[j] <= n[j]
  <2>1. \A j \in 1 .. 4 - 1 : j = 1 \/ j = 2 \/ j = 3
    OBVIOUS
  <2> QED
    BY <1>5, <2>1
<1>7. Before(m, n)
  BY <1>5, <1>6, FirstsAdvance
<1> QED
  BY <1>7 DEF Advances, m, n

LEMMA WalkAdvances == ASSUME ShapeInv, WalkInstruction PROVE Advances
<1> DEFINE m == Measure(phase, walk, starts, queue, chunk)
           n == Measure(phase', walk', starts', queue', chunk')
<1>1. /\ m[1] = Part(phase) /\ m[2] = Cardinality(walk.visited)
      /\ m[3] = Cardinality(starts.rejected) /\ m[4] = -Len(queue) /\ m[5] = -Len(chunk)
      /\ n[1] = Part(phase') /\ n[2] = Cardinality(walk'.visited)
      /\ n[3] = Cardinality(starts'.rejected) /\ n[4] = -Len(queue') /\ n[5] = -Len(chunk')
  BY MeasureIs
<1>2. phase' = phase /\ starts' = starts /\ queue' = queue /\ Part(phase) \in 1 .. 9
  BY PartsAre DEF WalkInstruction, Walking
<1>3. walk'.visited = walk.visited /\ Len(chunk') = Len(chunk) - 1
  BY WalkDoes DEF Steps
<1>4. Cardinality(walk.visited) \in Nat /\ Cardinality(starts.rejected) \in Nat
      /\ Len(queue) \in Nat /\ Len(chunk) \in Nat
  BY VisitedIsFinite
<1> HIDE DEF m, n
<1>5. m[5] < n[5] /\ m[1] <= n[1] /\ m[2] <= n[2] /\ m[3] <= n[3] /\ m[4] <= n[4]
  BY <1>1, <1>2, <1>3, <1>4
<1>6. \A j \in 1 .. 5 - 1 : m[j] <= n[j]
  <2>1. \A j \in 1 .. 5 - 1 : j = 1 \/ j = 2 \/ j = 3 \/ j = 4
    OBVIOUS
  <2> QED
    BY <1>5, <2>1
<1>7. Before(m, n)
  BY <1>5, <1>6, FirstsAdvance
<1> QED
  BY <1>7 DEF Advances, m, n

LEMMA RejectAdvances == ASSUME ShapeInv, RejectPatterns PROVE Advances
<1> DEFINE m == Measure(phase, walk, starts, queue, chunk)
           n == Measure(phase', walk', starts', queue', chunk')
<1>1. /\ m[1] = Part(phase) /\ m[2] = Cardinality(walk.visited)
      /\ m[3] = Cardinality(starts.rejected)
      /\ n[1] = Part(phase') /\ n[2] = Cardinality(walk'.visited)
      /\ n[3] = Cardinality(starts'.rejected)
  BY MeasureIs
<1>2. phase = "patterns" /\ walk'.visited = walk.visited
  BY RejectPatternsDo DEF RejectPatterns
<1>3. CASE phase' = "linkages"
  <2>1. m[1] < n[1]
    BY <1>1, <1>2, <1>3, PartsAre
  <2> QED
    BY <2>1, LaterAdvances DEF Advances
<1>4. CASE phase' = "patterns" /\ starts'.rejected # starts.rejected
  <2>1. IsFiniteSet(starts'.rejected)
    BY RejectPatternsDo, PlacesAreFinite, FS_Subset DEF ShapeInv
  <2>2. Cardinality(starts.rejected) < Cardinality(starts'.rejected)
    BY <1>4, <2>1, MoreMembers, RejectPatternsDo
  <2>3. Cardinality(walk.visited) \in Nat /\ Part("patterns") = 5
    BY VisitedIsFinite, PartsAre
  <2> HIDE DEF m, n
  <2>4. m[3] < n[3] /\ m[1] <= n[1] /\ m[2] <= n[2]
    BY <1>1, <1>2, <1>4, <2>2, <2>3
  <2>5. \A j \in 1 .. 3 - 1 : m[j] <= n[j]
    <3>1. \A j \in 1 .. 3 - 1 : j = 1 \/ j = 2
      OBVIOUS
    <3> QED
      BY <2>4, <3>1
  <2>6. Before(m, n)
    BY <2>4, <2>5, FirstsAdvance
  <2> QED
    BY <2>6 DEF Advances, m, n
<1> QED
  BY <1>3, <1>4, RejectPatternsDo

\* The other steps go on to a later part.
LEMMA OthersAdvance ==
  ASSUME \/ Sweep \/ Start \/ ConfirmCandidates \/ ConfirmPatterns \/ PromoteLinkages
         \/ Finish \/ GiveUp
  PROVE  Advances
<1> DEFINE m == Measure(phase, walk, starts, queue, chunk)
           n == Measure(phase', walk', starts', queue', chunk')
<1>1. Part(phase) < Part(phase')
  <2>1. CASE Sweep
    <3>1. phase = "sweep" /\ phase' = "start"
      BY <2>1, Zenon DEF Sweep
    <3> QED
      BY <3>1, PartsAre
  <2>2. CASE Start
    <3>1. phase = "start" /\ phase' = "seeds"
      BY <2>2, Zenon DEF Start
    <3> QED
      BY <3>1, PartsAre
  <2>3. CASE ConfirmCandidates
    BY <2>3, PartsAre DEF ConfirmCandidates
  <2>4. CASE ConfirmPatterns
    BY <2>4, PartsAre DEF ConfirmPatterns
  <2>5. CASE PromoteLinkages
    <3>1. phase = "linkages" /\ phase' = "finish"
      BY <2>5, Zenon DEF PromoteLinkages
    <3> QED
      BY <3>1, PartsAre
  <2>6. CASE Finish
    BY <2>6, PartsAre DEF Finish
  <2>7. CASE GiveUp
    BY <2>7, PartsAre, GiveUpDoes
  <2> QED
    BY <2>1, <2>2, <2>3, <2>4, <2>5, <2>6, <2>7
<1>2. m[1] = Part(phase) /\ n[1] = Part(phase')
  BY MeasureIs
<1>3. m[1] < n[1]
  BY <1>1, <1>2
<1> HIDE DEF m, n
<1>4. Before(m, n)
  BY <1>3, LaterAdvances
<1> QED
  BY <1>4 DEF Advances, m, n

\* Discovery ends, for every image and every answer of the console: no step goes
\* back to an earlier part, to what was visited or rejected before, or to what was
\* asked about (discover_seeded's loops; DiscoveryAdvances).
THEOREM DiscoveryEnds == Spec => DiscoveryAdvances
<1>1. ShapeInv /\ ShapeInv' /\ [Next]_vars =>
        [Before(Measure(phase, walk, starts, queue, chunk),
                Measure(phase', walk', starts', queue', chunk'))]_vars
  <2> SUFFICES ASSUME ShapeInv, ShapeInv', Next
               PROVE  Advances \/ UNCHANGED vars
    BY DEF Advances
  <2> QED
    BY RoundAdvances, QueryAdvances, WalkAdvances, RejectAdvances, OthersAdvance DEF Next, Stop
<1> QED
  BY <1>1, ShapeIsInvariant, PTL DEF Spec, DiscoveryAdvances

-----------------------------------------------------------------------------
(* The worklist: whatever is reached was walked or is to be walked. *)

\* An address in code was visited, or will be.
Owed(t) == InCode(t) /\ t # 0 => t \in walk.visited \union walk.active
Walks == {e[1] : e \in walk.extents}

\* What is known to be a function, or to be called, is owed to the walk.
EntriesAreOwed ==
  /\ phase \notin {"sweep", "start", "error"} =>
       \A t \in walk.entries \union DOMAIN functions : Owed(t)
  /\ \A p \in walk.calls : Owed(p[2])

\* What was walked was visited, its calls are recorded, and where it leads to is
\* owed.
FlowsAreOwed ==
  \A a \in Walks :
    /\ a \in walk.visited /\ ~IsBad(a)
    /\ \A t \in Followed(Flow(a)) : Owed(t)
    /\ CallsOf(a) \subseteq walk.calls

\* What is asked about was visited; and unless the console failed, what was visited
\* was walked or is being asked about.
VisitsAreWalked ==
  /\ ToSet(queue) \union ToSet(chunk) \subseteq walk.visited
  /\ ~failed => \A a \in walk.visited :
                  Decodes(a) => a \in Walks \union ToSet(queue) \union ToSet(chunk)

\* Nothing is walked before discovery starts, and nothing is left when it ends.
WorkIsDone ==
  /\ phase \in {"sweep", "start"} => walk.extents = {} /\ walk.calls = {}
  /\ ~Walking => queue = <<>> /\ chunk = <<>>
  /\ phase \in {"linkages", "finish", "done"} => ToQuery(walk) = {}

CallsAreKnown ==
  /\ \A p \in xrefs : InCode(p[2]) => p[2] \in DOMAIN functions
  /\ phase = "done" => walk.calls \subseteq xrefs /\ (program.mapped => ~failed)

ReachInv ==
  EntriesAreOwed /\ FlowsAreOwed /\ VisitsAreWalked /\ WorkIsDone /\ CallsAreKnown

LEMMA ReachInit == ASSUME Init PROVE ReachInv
<1>1. /\ walk.extents = {} /\ walk.calls = {} /\ walk.visited = {} /\ xrefs = {}
      /\ queue = <<>> /\ chunk = <<>> /\ phase \in {"sweep", "start"}
  BY DEF Init, NoWalk
<1>2. ToSet(queue) = {} /\ ToSet(chunk) = {}
  BY <1>1 DEF ToSet
<1> QED
  BY <1>1, <1>2 DEF ReachInv, EntriesAreOwed, FlowsAreOwed, VisitsAreWalked, WorkIsDone,
                    CallsAreKnown, Walks, Walking

\* What is owed stays owed as long as it is not forgotten.
LEMMA OwedStays ==
  ASSUME program' = program,
         \A t : InCode(t) /\ t # 0 /\ t \in walk.visited \union walk.active
                  => t \in walk'.visited \union walk'.active
  PROVE  \A t : Owed(t) => Owed(t)'
BY DEF Owed, InCode

LEMMA FlowsStay ==
  ASSUME FlowsAreOwed, program' = program, walk'.extents = walk.extents,
         walk.visited \subseteq walk'.visited, walk.calls \subseteq walk'.calls,
         \A t : Owed(t) => Owed(t)'
  PROVE  FlowsAreOwed'
<1>1. \A a : IsBad(a)' = IsBad(a) /\ Flow(a)' = Flow(a) /\ CallsOf(a)' = CallsOf(a)
  BY DEF IsBad, Flow, CallsOf
<1>2. Walks' = Walks
  BY DEF Walks
<1>3. ASSUME NEW a \in Walks
      PROVE  /\ a \in walk'.visited /\ ~IsBad(a)'
             /\ \A t \in Followed(Flow(a)) : Owed(t)'
             /\ CallsOf(a) \subseteq walk'.calls
  BY <1>1, <1>3 DEF FlowsAreOwed
<1>4. \A a \in Walks' : \A t \in Followed(Flow(a)') : Owed(t)'
  BY <1>1, <1>2, <1>3
<1> QED
  BY <1>1, <1>2, <1>3, <1>4 DEF FlowsAreOwed

\* What a step does to the walk if it walks nothing.
LEMMA VisitsStay ==
  ASSUME VisitsAreWalked, program' = program, walk'.extents = walk.extents,
         walk'.visited = walk.visited, queue' = queue, chunk' = chunk,
         failed => failed'
  PROVE  VisitsAreWalked'
<1>1. Walks' = Walks
  BY DEF Walks
<1>2. \A a : Decodes(a)' = Decodes(a)
  BY DEF Decodes, Flow
<1> QED
  BY <1>1, <1>2 DEF VisitsAreWalked

LEMMA ReachSweep == ASSUME ShapeInv, NoneBefore, ReachInv, Sweep PROVE ReachInv'
<1>1. /\ phase = "sweep" /\ phase' = "start" /\ queue' = queue /\ chunk' = chunk
  BY DEF Sweep
<1>2. /\ walk'.visited = {} /\ walk'.extents = walk.extents /\ walk'.calls = walk.calls
  BY <1>1, SweepDoes DEF NoneBefore
<1>3. walk.extents = {} /\ walk.calls = {} /\ queue = <<>> /\ chunk = <<>>
  BY <1>1 DEF ReachInv, WorkIsDone, Walking
<1>4. \A p \in xrefs' : InCode(p[2])' => p[2] \in DOMAIN functions'
  <2>1. functions' = CloseCallTargets(functions, xrefs')
    BY Zenon DEF Sweep
  <2>2. \A p \in xrefs' : InCode(p[2])' => InCode(p[2])
    BY SweepKeeps DEF InCode, Code
  <2> QED
    BY <2>1, <2>2 DEF CloseCallTargets, InsertAll
<1>5. VisitsAreWalked'
  <2>1. ToSet(queue') = {} /\ ToSet(chunk') = {}
    BY <1>1, <1>3 DEF ToSet
  <2> QED
    BY <1>2, <2>1 DEF VisitsAreWalked
<1>6. FlowsAreOwed' /\ EntriesAreOwed' /\ WorkIsDone'
  BY <1>1, <1>2, <1>3 DEF FlowsAreOwed, EntriesAreOwed, WorkIsDone, Walks
<1>7. CallsAreKnown'
  BY <1>1, <1>4 DEF CallsAreKnown
<1> QED
  BY <1>5, <1>6, <1>7 DEF ReachInv

LEMMA ReachStart == ASSUME ShapeInv, ReachInv, Start PROVE ReachInv'
<1>1. /\ phase = "start" /\ phase' = "seeds" /\ xrefs' = xrefs
      /\ program' = program /\ queue' = queue /\ chunk' = chunk
  BY DEF Start
<1>2. walk.extents = {} /\ walk.calls = {} /\ queue = <<>> /\ chunk = <<>>
  BY <1>1 DEF ReachInv, WorkIsDone, Walking
<1>3. EntriesAreOwed'
  <2>1. \A t \in walk'.entries \union DOMAIN functions' : Owed(t)'
    BY <1>1, StartDoes DEF Owed, InCode
  <2> QED
    BY <1>2, <2>1, StartDoes DEF EntriesAreOwed
<1>4. VisitsAreWalked'
  BY <1>1, VisitsStay, StartDoes DEF ReachInv
<1>5. FlowsAreOwed'
  BY <1>2, StartDoes DEF FlowsAreOwed, Walks
<1>6. WorkIsDone'
  BY <1>1, <1>2 DEF WorkIsDone
<1>7. CallsAreKnown'
  BY <1>1, StartDoes DEF ReachInv, CallsAreKnown, InCode
<1> QED
  BY <1>3, <1>4, <1>5, <1>6, <1>7 DEF ReachInv

LEMMA ReachRound == ASSUME ShapeInv, ReachInv, Round PROVE ReachInv'
<1>1. /\ Walking /\ queue = <<>> /\ chunk = <<>>
      /\ program' = program /\ phase' = phase /\ functions' = functions
      /\ xrefs' = xrefs /\ chunk' = chunk /\ failed' = failed
  BY DEF Round
<1>2. /\ walk'.visited = walk.visited \union ToQuery(walk) /\ walk'.active = {}
      /\ walk'.entries = walk.entries /\ walk'.extents = walk.extents
      /\ walk'.calls = walk.calls /\ ToSet(queue') = ToQuery(walk)
  BY RoundDoes
<1>3. \A t : Owed(t) => Owed(t)'
  <2>1. \A t : InCode(t) /\ t # 0 /\ t \in walk.visited \union walk.active
                 => t \in walk'.visited \union walk'.active
    BY <1>2 DEF ToQuery
  <2> QED
    BY <1>1, <2>1, OwedStays
<1>4. EntriesAreOwed'
  BY <1>1, <1>2, <1>3 DEF ReachInv, EntriesAreOwed
<1>5. FlowsAreOwed'
  BY <1>1, <1>2, <1>3, FlowsStay DEF ReachInv
<1>6. VisitsAreWalked'
  <2>1. Walks' = Walks /\ \A a : Decodes(a)' = Decodes(a)
    BY <1>1, <1>2 DEF Walks, Decodes, Flow
  <2>2. ToSet(queue) = {} /\ ToSet(chunk) = {}
    BY <1>1 DEF ToSet
  <2> QED
    BY <1>1, <1>2, <2>1, <2>2 DEF ReachInv, VisitsAreWalked
<1>7. WorkIsDone'
  BY <1>1 DEF Walking, WorkIsDone
<1>8. CallsAreKnown'
  BY <1>1, <1>2 DEF ReachInv, CallsAreKnown, InCode
<1> QED
  BY <1>4, <1>5, <1>6, <1>7, <1>8 DEF ReachInv

LEMMA ReachQuery == ASSUME ShapeInv, ReachInv, QueryChunk PROVE ReachInv'
<1>1. /\ Walking /\ chunk = <<>> /\ program' = program /\ phase' = phase
      /\ functions' = functions /\ xrefs' = xrefs
  BY DEF QueryChunk
<1>2. /\ walk'.visited = walk.visited /\ walk'.active = walk.active
      /\ walk'.entries = walk.entries /\ walk'.extents = walk.extents
      /\ walk'.calls = walk.calls
      /\ failed => failed'
      /\ failed' \/ ToSet(queue) \subseteq ToSet(queue') \union ToSet(chunk')
      /\ ToSet(queue') \union ToSet(chunk') \subseteq ToSet(queue)
  BY QueryDoes
<1>3. \A t : Owed(t) => Owed(t)'
  BY <1>1, <1>2, OwedStays
<1>4. EntriesAreOwed'
  BY <1>1, <1>2, <1>3 DEF ReachInv, EntriesAreOwed
<1>5. FlowsAreOwed'
  BY <1>1, <1>2, <1>3, FlowsStay DEF ReachInv
<1>6. VisitsAreWalked'
  <2>1. Walks' = Walks /\ \A a : Decodes(a)' = Decodes(a)
    BY <1>1, <1>2 DEF Walks, Decodes, Flow
  <2>2. ToSet(chunk) = {}
    BY <1>1 DEF ToSet
  <2> QED
    BY <1>1, <1>2, <2>1, <2>2 DEF ReachInv, VisitsAreWalked
<1>7. WorkIsDone'
  BY <1>1 DEF Walking, WorkIsDone
<1>8. CallsAreKnown'
  BY <1>1, <1>2 DEF ReachInv, CallsAreKnown, InCode, Walking
<1> QED
  BY <1>4, <1>5, <1>6, <1>7, <1>8 DEF ReachInv

LEMMA ReachWalk == ASSUME ShapeInv, ReachInv, WalkInstruction PROVE ReachInv'
<1> DEFINE a == Head(chunk)
<1>1. /\ Walking /\ program' = program /\ phase' = phase /\ functions' = functions
      /\ xrefs' = xrefs /\ queue' = queue /\ failed' = failed
  BY DEF WalkInstruction
<1>2. Steps(walk, walk', a) /\ ToSet(chunk) = ToSet(chunk') \union {a}
  BY WalkDoes
<1> HIDE DEF a
<1>3. /\ walk'.visited = walk.visited /\ walk.active \subseteq walk'.active
      /\ walk'.calls = walk.calls \union CallsOf(a)
      /\ walk'.entries \subseteq walk.entries \union walk'.visited \union walk'.active
      /\ walk'.extents = IF IsBad(a) THEN walk.extents
                         ELSE walk.extents \union {<<a, Flow(a).length>>}
  BY <1>2 DEF Steps
<1>4. \A t : Owed(t) => Owed(t)'
  BY <1>1, <1>3, OwedStays
<1>5. \A p \in CallsOf(a) : Owed(p[2])'
  <2> SUFFICES ASSUME Flow(a).kind = "call", NEW t \in Flow(a).targets, InCode(t), t # 0
               PROVE  t \in walk'.visited \union walk'.active
    BY <1>1 DEF CallsOf, Owed, InCode
  <2>1. CASE t \in walk.entries
    <3>1. Owed(t)
      BY <1>1, <2>1 DEF ReachInv, EntriesAreOwed, Walking
    <3> QED
      BY <1>3, <3>1 DEF Owed
  <2>2. CASE t \in walk'.active
    BY <2>2
  <2> QED
    BY <1>2, <2>1, <2>2 DEF Steps
<1>6. EntriesAreOwed'
  <2>1. \A t \in walk'.entries : Owed(t)'
    <3> TAKE t \in walk'.entries
    <3>1. CASE t \in walk.entries
      <4>1. Owed(t)
        BY <1>1, <3>1 DEF ReachInv, EntriesAreOwed, Walking
      <4> QED
        BY <1>4, <4>1
    <3>2. CASE t \in walk'.visited \union walk'.active
      BY <3>2 DEF Owed
    <3> QED
      BY <1>3, <3>1, <3>2
  <2>2. \A t \in DOMAIN functions' : Owed(t)'
    BY <1>1, <1>4 DEF ReachInv, EntriesAreOwed, Walking
  <2>3. \A p \in walk'.calls : Owed(p[2])'
    BY <1>3, <1>4, <1>5 DEF ReachInv, EntriesAreOwed
  <2> QED
    BY <2>1, <2>2, <2>3 DEF EntriesAreOwed
<1>7. Walks' = IF IsBad(a) THEN Walks ELSE Walks \union {a}
  <2>1. Walks' = {e[1] : e \in walk'.extents}
    BY DEF Walks
  <2>2. CASE IsBad(a)
    BY <1>3, <2>1, <2>2 DEF Walks
  <2>3. CASE ~IsBad(a)
    <3> DEFINE e == <<a, Flow(a).length>>
    <3>1. walk'.extents = walk.extents \union {e} /\ e[1] = a
      BY <1>3, <2>3
    <3> HIDE DEF e
    <3> QED
      BY <2>1, <2>3, <3>1 DEF Walks
  <2> QED
    BY <2>2, <2>3
<1>8. a \in walk.visited
  BY <1>2 DEF ReachInv, VisitsAreWalked
<1>9. FlowsAreOwed'
  <2>1. \A b : IsBad(b)' = IsBad(b) /\ Flow(b)' = Flow(b) /\ CallsOf(b)' = CallsOf(b)
    BY <1>1 DEF IsBad, Flow, CallsOf
  <2>2. ASSUME NEW b \in Walks
        PROVE  /\ b \in walk'.visited /\ ~IsBad(b)
               /\ \A t \in Followed(Flow(b)) : Owed(t)'
               /\ CallsOf(b) \subseteq walk'.calls
    BY <1>3, <1>4, <2>2 DEF ReachInv, FlowsAreOwed
  <2>3. ASSUME ~IsBad(a)
        PROVE  /\ a \in walk'.visited
               /\ \A t \in Followed(Flow(a)) : Owed(t)'
               /\ CallsOf(a) \subseteq walk'.calls
    <3>1. \A t \in Followed(Flow(a)) : InCode(t) => t \in walk'.visited \union walk'.active
      BY <1>2, <2>3 DEF Steps
    <3>2. \A t : InCode(t)' = InCode(t)
      BY <1>1 DEF InCode
    <3> QED
      BY <1>3, <1>8, <3>1, <3>2 DEF Owed
  <2>4. ASSUME NEW b \in Walks'
        PROVE  /\ b \in walk'.visited /\ ~IsBad(b)
               /\ \A t \in Followed(Flow(b)) : Owed(t)'
               /\ CallsOf(b) \subseteq walk'.calls
    BY <1>7, <2>2, <2>3, <2>4
  <2>5. ASSUME NEW b \in Walks' PROVE \A t \in Followed(Flow(b)') : Owed(t)'
    BY <2>1, <2>4, <2>5
  <2> QED
    BY <2>1, <2>4, <2>5 DEF FlowsAreOwed
<1>10. VisitsAreWalked'
  <2>1. \A b : Decodes(b)' = Decodes(b) /\ (Decodes(b) => ~IsBad(b))
    BY <1>1 DEF Decodes, Flow, IsBad
  <2> QED
    BY <1>1, <1>2, <1>3, <1>7, <2>1 DEF ReachInv, VisitsAreWalked
<1>11. WorkIsDone'
  BY <1>1 DEF Walking, WorkIsDone
<1>12. CallsAreKnown'
  BY <1>1 DEF ReachInv, CallsAreKnown, InCode, Walking
<1> QED
  BY <1>6, <1>9, <1>10, <1>11, <1>12 DEF ReachInv

\* The confirmed candidates are entries and are walked next; nothing else is owed.
LEMMA ReachEnter ==
  ASSUME ShapeInv, ReachInv, ConfirmCandidates \/ ConfirmPatterns
  PROVE  ReachInv'
<1>1. /\ phase \in {"seeds", "relocs"} /\ phase' \in {"relocs", "patterns"} /\ Walked
      /\ program' = program /\ functions' = functions /\ xrefs' = xrefs
      /\ queue' = queue /\ chunk' = chunk
  BY DEF ConfirmCandidates, ConfirmPatterns
<1>2. failed => failed'
  <2>1. \E some : Missed(some)
    BY Zenon DEF ConfirmCandidates, ConfirmPatterns
  <2> QED
    BY <2>1 DEF Missed
<1>3. PICK found, m : walk' = Enter(walk, found, m)
  BY CandidatesDo, PatternsDo
<1>4. /\ walk'.entries = walk.entries \union found /\ walk'.active = found
      /\ walk'.visited = walk.visited /\ walk'.extents = walk.extents
      /\ walk'.calls = walk.calls
  BY <1>3, EnterDoes DEF ShapeInv
<1>5. \A t : Owed(t) => Owed(t)'
  <2>1. \A t : InCode(t) /\ t # 0 /\ t \in walk.visited \union walk.active
                 => t \in walk'.visited \union walk'.active
    BY <1>1, <1>4 DEF Walked, ToQuery
  <2> QED
    BY <1>1, <2>1, OwedStays
<1>6. EntriesAreOwed'
  <2>1. \A t \in found : Owed(t)'
    BY <1>4 DEF Owed
  <2>2. \A t \in walk.entries \union DOMAIN functions : Owed(t)
    BY <1>1 DEF ReachInv, EntriesAreOwed
  <2>3. \A p \in walk.calls : Owed(p[2])
    BY DEF ReachInv, EntriesAreOwed
  <2> QED
    BY <1>1, <1>4, <1>5, <2>1, <2>2, <2>3 DEF EntriesAreOwed
<1>7. FlowsAreOwed'
  BY <1>1, <1>4, <1>5, FlowsStay DEF ReachInv
<1>8. VisitsAreWalked'
  BY <1>1, <1>2, <1>4, VisitsStay DEF ReachInv
<1>9. WorkIsDone'
  BY <1>1 DEF WorkIsDone, Walking
<1>10. CallsAreKnown'
  BY <1>1 DEF ReachInv, CallsAreKnown, InCode
<1> QED
  BY <1>6, <1>7, <1>8, <1>9, <1>10 DEF ReachInv

LEMMA ReachReject == ASSUME ShapeInv, ReachInv, RejectPatterns PROVE ReachInv'
<1>1. /\ phase = "patterns" /\ phase' \in {"patterns", "linkages"} /\ Walked
      /\ program' = program /\ functions' = functions /\ xrefs' = xrefs
      /\ queue' = queue /\ chunk' = chunk /\ failed' = failed
  <2>1. /\ phase = "patterns" /\ Walked
        /\ program' = program /\ functions' = functions /\ xrefs' = xrefs
        /\ queue' = queue /\ chunk' = chunk /\ failed' = failed
    BY DEF RejectPatterns
  <2> QED
    BY <2>1, RejectPatternsDo
<1>2. /\ walk'.visited = walk.visited /\ walk'.active = walk.active
      /\ walk'.extents = walk.extents /\ walk'.calls = walk.calls
      /\ walk'.entries \subseteq walk.entries
  BY RejectPatternsDo
<1>3. \A t : Owed(t) => Owed(t)'
  BY <1>1, <1>2, OwedStays
<1>4. EntriesAreOwed'
  BY <1>1, <1>2, <1>3 DEF ReachInv, EntriesAreOwed
<1>5. FlowsAreOwed'
  BY <1>1, <1>2, <1>3, FlowsStay DEF ReachInv
<1>6. VisitsAreWalked'
  BY <1>1, <1>2, VisitsStay DEF ReachInv
<1>7. WorkIsDone'
  <2>1. ToQuery(walk) = {} /\ queue = <<>> /\ chunk = <<>>
    BY <1>1 DEF Walked
  <2>2. ToQuery(walk)' = ToQuery(walk)
    BY <1>1, <1>2 DEF ToQuery, InCode
  <2> QED
    BY <1>1, <2>1, <2>2 DEF WorkIsDone, Walking
<1>8. CallsAreKnown'
  BY <1>1, <1>2 DEF ReachInv, CallsAreKnown, InCode
<1> QED
  BY <1>4, <1>5, <1>6, <1>7, <1>8 DEF ReachInv

LEMMA ReachPromote == ASSUME ShapeInv, ReachInv, PromoteLinkages PROVE ReachInv'
<1>1. /\ phase = "linkages" /\ phase' = "finish"
      /\ program' = program /\ xrefs' = xrefs
      /\ queue' = queue /\ chunk' = chunk
  BY Zenon DEF PromoteLinkages
<1>2. /\ walk'.visited = walk.visited /\ walk'.active = walk.active
      /\ walk'.extents = walk.extents /\ walk'.calls = walk.calls
      /\ walk'.entries \subseteq walk.entries \union Stubs
      /\ DOMAIN functions \subseteq DOMAIN functions'
      /\ DOMAIN functions' \subseteq DOMAIN functions \union Stubs
      /\ failed => failed'
  BY PromoteLinkagesDo
<1>3. \A t : Owed(t) => Owed(t)'
  BY <1>1, <1>2, OwedStays
<1>4. \A t \in Stubs : Owed(t)
  BY DEF ReachInv, FlowsAreOwed, Stubs, Walks, Owed
<1>5. EntriesAreOwed'
  BY <1>1, <1>2, <1>3, <1>4 DEF ReachInv, EntriesAreOwed
<1>6. FlowsAreOwed'
  BY <1>1, <1>2, <1>3, FlowsStay DEF ReachInv
<1>7. VisitsAreWalked'
  BY <1>1, <1>2, VisitsStay DEF ReachInv
<1>8. WorkIsDone'
  <2>1. ToQuery(walk) = {} /\ queue = <<>> /\ chunk = <<>>
    BY <1>1 DEF ReachInv, WorkIsDone, Walking
  <2>2. ToQuery(walk)' = ToQuery(walk)
    BY <1>1, <1>2 DEF ToQuery, InCode
  <2> QED
    BY <1>1, <2>1, <2>2 DEF WorkIsDone, Walking
<1>9. CallsAreKnown'
  BY <1>1, <1>2 DEF ReachInv, CallsAreKnown, InCode
<1> QED
  BY <1>5, <1>6, <1>7, <1>8, <1>9 DEF ReachInv

\* The functions in the end: those before, the entries that own themselves, and
\* what is called in code.
LEMMA FinishDoes ==
  ASSUME Finish
  PROVE  \E kept \in SUBSET walk.entries :
           /\ xrefs' = xrefs \union walk.calls
           /\ DOMAIN functions' = DOMAIN functions \union kept
                                    \union {p[2] : p \in {q \in xrefs' : InCode(q[2])}}
<1> DEFINE kept == {e \in walk.entries : Owner(walk, e) = e}
           bodies == CanonicalBodies(walk)
           known == InsertAll([e \in kept |-> 1], functions)
           sized == [f \in DOMAIN known |-> IF f \in DOMAIN bodies
                                            THEN Max({bodies[f] - f, 1}) ELSE known[f]]
<1>1. xrefs' = xrefs \union walk.calls /\ functions' = CloseCallTargets(sized, xrefs')
  BY DEF Finish
<1> HIDE DEF bodies
<1>2. DOMAIN known = DOMAIN functions \union kept
  <2> HIDE DEF kept
  <2> QED
    BY DEF InsertAll
<1>3. DOMAIN sized = DOMAIN known
  <2> HIDE DEF known
  <2> QED
    OBVIOUS
<1> HIDE DEF sized, known
<1>4. DOMAIN functions' = DOMAIN sized \union {p[2] : p \in {q \in xrefs' : InCode(q[2])}}
  BY <1>1 DEF CloseCallTargets, InsertAll
<1>5. kept \in SUBSET walk.entries
  OBVIOUS
<1> QED
  BY <1>1, <1>2, <1>3, <1>4, <1>5

LEMMA ReachFinish == ASSUME ShapeInv, ReachInv, Finish PROVE ReachInv'
<1>1. /\ phase = "finish" /\ phase' = IF failed /\ program.mapped THEN "error" ELSE "done"
      /\ program' = program /\ walk' = walk
      /\ queue' = queue /\ chunk' = chunk /\ failed' = failed
  BY DEF Finish
<1>2. PICK kept \in SUBSET walk.entries :
        /\ xrefs' = xrefs \union walk.calls
        /\ DOMAIN functions' = DOMAIN functions \union kept
                                 \union {p[2] : p \in {q \in xrefs' : InCode(q[2])}}
  BY FinishDoes
<1>3. \A t : Owed(t) => Owed(t)'
  BY <1>1, OwedStays
<1>4. /\ \A t \in walk.entries \union DOMAIN functions : Owed(t)
      /\ \A p \in walk.calls : Owed(p[2])
  BY <1>1 DEF ReachInv, EntriesAreOwed
<1>5. \A p \in xrefs' : InCode(p[2]) => Owed(p[2])
  BY <1>2, <1>4 DEF ReachInv, CallsAreKnown
<1>6. EntriesAreOwed'
  BY <1>1, <1>2, <1>3, <1>4, <1>5 DEF EntriesAreOwed
<1>7. FlowsAreOwed'
  BY <1>1, <1>3, FlowsStay DEF ReachInv
<1>8. VisitsAreWalked'
  BY <1>1, VisitsStay DEF ReachInv
<1>9. WorkIsDone'
  <2>1. ToQuery(walk)' = ToQuery(walk)
    BY <1>1 DEF ToQuery, InCode
  <2> QED
    BY <1>1, <2>1 DEF ReachInv, WorkIsDone, Walking
<1>10. CallsAreKnown'
  BY <1>1, <1>2 DEF CallsAreKnown, InCode
<1> QED
  BY <1>6, <1>7, <1>8, <1>9, <1>10 DEF ReachInv

LEMMA ReachRest == ASSUME ReachInv, UNCHANGED vars PROVE ReachInv'
BY DEF vars, ReachInv, EntriesAreOwed, FlowsAreOwed, VisitsAreWalked, WorkIsDone,
       CallsAreKnown, Walks, Owed, InCode, IsBad, Flow, CallsOf, Decodes, Walking, ToQuery

LEMMA ReachGiveUp == ASSUME ReachInv, GiveUp PROVE ReachInv'
<1>1. /\ phase' = "error" /\ queue = <<>> /\ chunk = <<>>
      /\ UNCHANGED <<program, functions, xrefs, walk, queue, chunk, failed>>
  BY GiveUpDoes DEF ReachInv, WorkIsDone, Walking, Walked
<1>2. \A t : Owed(t) => Owed(t)'
  BY <1>1, OwedStays
<1>3. FlowsAreOwed' /\ VisitsAreWalked'
  BY <1>1, <1>2, FlowsStay, VisitsStay DEF ReachInv
<1>4. EntriesAreOwed' /\ WorkIsDone' /\ CallsAreKnown'
  BY <1>1, <1>2 DEF ReachInv, EntriesAreOwed, WorkIsDone, CallsAreKnown, InCode
<1> QED
  BY <1>3, <1>4 DEF ReachInv

\* The worklist is sound in every state (ReachInv): what an entry, a call or a walked
\* instruction leads to is visited or to be visited, and what was visited is walked
\* or being asked about, unless the console failed.
THEOREM ReachIsInvariant == Spec => []ReachInv
<1>1. Init => ReachInv
  BY ReachInit
<1>2. ShapeInv /\ NoneBefore /\ ReachInv /\ [Next]_vars => ReachInv'
  <2> SUFFICES ASSUME ShapeInv, NoneBefore, ReachInv, [Next]_vars PROVE ReachInv'
    OBVIOUS
  <2> QED
    BY ReachSweep, ReachStart, ReachRound, ReachQuery, ReachWalk, ReachEnter, ReachReject,
       ReachPromote, ReachFinish, ReachGiveUp, ReachRest DEF Next, Stop
<1> QED
  BY <1>1, <1>2, ShapeIsInvariant, NoneIsInvariant, PTL DEF Spec

-----------------------------------------------------------------------------
(* What is reachable: the recursive function exists, as the ends of the paths of *)
(* each length, which may rest where they are.                                   *)

Ends(from, edges) == from \union {e[2] : e \in edges}
Paths(from, edges, n) ==
  {p \in [0 .. n -> Ends(from, edges)] :
     /\ p[0] \in from
     /\ \A i \in 0 .. n - 1 : p[i + 1] = p[i] \/ \E e \in edges : e[1] = p[i] /\ e[2] = p[i + 1]}
EndsAt(from, edges) == [n \in Nat |-> {p[n] : p \in Paths(from, edges, n)}]

LEMMA PathsBegin ==
  ASSUME NEW from, NEW edges
  PROVE  EndsAt(from, edges)[0] = from
<1>1. \A p \in Paths(from, edges, 0) : p[0] \in from
  BY DEF Paths
<1>2. ASSUME NEW x \in from PROVE \E p \in Paths(from, edges, 0) : p[0] = x
  <2> DEFINE p == [i \in 0 .. 0 |-> x]
  <2>1. p[0] = x /\ p \in [0 .. 0 -> Ends(from, edges)]
    BY DEF Ends
  <2>2. 0 .. 0 - 1 = {}
    OBVIOUS
  <2> HIDE DEF p
  <2>3. p \in Paths(from, edges, 0)
    BY <2>1, <2>2 DEF Paths
  <2> QED
    BY <2>1, <2>3
<1>3. EndsAt(from, edges)[0] = {p[0] : p \in Paths(from, edges, 0)}
  BY DEF EndsAt
<1> QED
  BY <1>1, <1>2, <1>3

\* A path of n steps, and one more.
LEMMA PathsGoOn ==
  ASSUME NEW from, NEW edges, NEW n \in Nat, NEW p \in Paths(from, edges, n),
         NEW y, y = p[n] \/ \E e \in edges : e[1] = p[n] /\ e[2] = y
  PROVE  \E q \in Paths(from, edges, n + 1) : q[n + 1] = y
<1> DEFINE q == [i \in 0 .. n + 1 |-> IF i = n + 1 THEN y ELSE p[i]]
<1>1. p \in [0 .. n -> Ends(from, edges)] /\ p[0] \in from
  BY DEF Paths
<1>2. y \in Ends(from, edges)
  <2>1. n \in 0 .. n
    OBVIOUS
  <2> QED
    BY <1>1, <2>1 DEF Ends
<1>3. q \in [0 .. n + 1 -> Ends(from, edges)]
  BY <1>1, <1>2
<1>4. q[n + 1] = y /\ \A i \in 0 .. n : q[i] = p[i]
  OBVIOUS
<1> HIDE DEF q
<1>5. q[0] \in from
  BY <1>1, <1>4
<1>6. ASSUME NEW i \in 0 .. (n + 1) - 1
      PROVE  q[i + 1] = q[i] \/ \E e \in edges : e[1] = q[i] /\ e[2] = q[i + 1]
  <2>1. CASE i = n
    <3>1. q[i] = p[n] /\ q[i + 1] = y
      BY <1>4, <2>1
    <3> QED
      BY <3>1
  <2>2. CASE i # n
    <3>1. i \in 0 .. n - 1 /\ q[i] = p[i] /\ q[i + 1] = p[i + 1]
      BY <1>4, <2>2
    <3>2. p[i + 1] = p[i] \/ \E e \in edges : e[1] = p[i] /\ e[2] = p[i + 1]
      BY <3>1 DEF Paths
    <3> QED
      BY <3>1, <3>2
  <2> QED
    BY <2>1, <2>2
<1>7. q \in Paths(from, edges, n + 1)
  BY <1>3, <1>5, <1>6 DEF Paths
<1> QED
  BY <1>4, <1>7

\* A path of one more step, without its last.
LEMMA PathsGoBack ==
  ASSUME NEW from, NEW edges, NEW n \in Nat, NEW p \in Paths(from, edges, n + 1)
  PROVE  \E q \in Paths(from, edges, n) :
           p[n + 1] = q[n] \/ \E e \in edges : e[1] = q[n] /\ e[2] = p[n + 1]
<1> DEFINE q == [i \in 0 .. n |-> p[i]]
<1>1. /\ p \in [0 .. n + 1 -> Ends(from, edges)] /\ p[0] \in from
      /\ \A i \in 0 .. (n + 1) - 1 :
           p[i + 1] = p[i] \/ \E e \in edges : e[1] = p[i] /\ e[2] = p[i + 1]
  BY DEF Paths
<1>2. q \in [0 .. n -> Ends(from, edges)] /\ \A i \in 0 .. n : q[i] = p[i]
  BY <1>1
<1> HIDE DEF q
<1>3. n \in 0 .. n /\ n \in 0 .. (n + 1) - 1 /\ 0 \in 0 .. n
  OBVIOUS
<1>4. ASSUME NEW i \in 0 .. n - 1
      PROVE  q[i + 1] = q[i] \/ \E e \in edges : e[1] = q[i] /\ e[2] = q[i + 1]
  <2>1. i \in 0 .. (n + 1) - 1 /\ q[i] = p[i] /\ q[i + 1] = p[i + 1]
    BY <1>2
  <2>2. p[i + 1] = p[i] \/ \E e \in edges : e[1] = p[i] /\ e[2] = p[i + 1]
    BY <1>1, <2>1
  <2> QED
    BY <2>1, <2>2
<1>5. q[0] \in from /\ q[n] = p[n]
  BY <1>1, <1>2, <1>3
<1>6. q \in Paths(from, edges, n)
  BY <1>2, <1>4, <1>5 DEF Paths
<1>7. p[n + 1] = p[n] \/ \E e \in edges : e[1] = p[n] /\ e[2] = p[n + 1]
  BY <1>1, <1>3
<1> QED
  BY <1>5, <1>6, <1>7

\* Each step goes along the edges from what was reached.
Step(S, edges) == S \union {e[2] : e \in {d \in edges : d[1] \in S}}

LEMMA EndsAtGoOn ==
  ASSUME NEW from, NEW edges, NEW n \in Nat
  PROVE  EndsAt(from, edges)[n + 1] = Step(EndsAt(from, edges)[n], edges)
<1> DEFINE g == EndsAt(from, edges)
<1>1. /\ g[n] = {p[n] : p \in Paths(from, edges, n)}
      /\ g[n + 1] = {p[n + 1] : p \in Paths(from, edges, n + 1)}
  BY DEF EndsAt
<1> HIDE DEF g
<1>2. ASSUME NEW y \in g[n + 1] PROVE y \in Step(g[n], edges)
  <2>1. PICK p \in Paths(from, edges, n + 1) : y = p[n + 1]
    BY <1>1, <1>2
  <2>2. PICK q \in Paths(from, edges, n) :
          y = q[n] \/ \E e \in edges : e[1] = q[n] /\ e[2] = y
    BY <2>1, PathsGoBack
  <2>3. q[n] \in g[n]
    BY <1>1
  <2> QED
    BY <2>2, <2>3 DEF Step
<1>3. ASSUME NEW y \in Step(g[n], edges) PROVE y \in g[n + 1]
  <2>1. \E x \in g[n] : y = x \/ \E e \in edges : e[1] = x /\ e[2] = y
    BY <1>3 DEF Step
  <2>2. PICK p \in Paths(from, edges, n) :
          y = p[n] \/ \E e \in edges : e[1] = p[n] /\ e[2] = y
    BY <1>1, <2>1
  <2>3. \E q \in Paths(from, edges, n + 1) : q[n + 1] = y
    BY <2>2, PathsGoOn
  <2> QED
    BY <1>1, <2>3
<1>4. g[n + 1] = Step(g[n], edges)
  BY <1>2, <1>3
<1> QED
  BY <1>4 DEF g

\* What is reachable is where the paths of as many steps end as there are addresses.
LEMMA ReachableIsEndsAt ==
  ASSUME NEW from, NEW edges, IsFiniteSet(Addresses)
  PROVE  Reachable(from, edges) = EndsAt(from, edges)[Cardinality(Addresses)]
<1> DEFINE Value(r, n) == IF n = 0 THEN from
                         ELSE r[n - 1] \union {e[2] : e \in {d \in edges : d[1] \in r[n - 1]}}
           P(r) == r = [n \in Nat |-> Value(r, n)]
           g == EndsAt(from, edges)
           reach == CHOOSE r : P(r)
<1>1. ASSUME NEW n \in Nat PROVE g[n] = Value(g, n)
  <2>1. CASE n = 0
    BY <2>1, PathsBegin
  <2>2. CASE n # 0
    <3>1. n - 1 \in Nat /\ (n - 1) + 1 = n
      BY <2>2
    <3> HIDE DEF g
    <3>2. g[(n - 1) + 1] = Step(g[n - 1], edges)
      BY <3>1, EndsAtGoOn DEF g
    <3> QED
      BY <2>2, <3>1, <3>2 DEF Step
  <2> QED
    BY <2>1, <2>2
<1>2. P(g)
  <2>2. g = [n \in Nat |-> g[n]]
    BY DEF EndsAt
  <2> HIDE DEF g, Value
  <2> QED
    BY <1>1, <2>2
<1>3. P(reach)
  <2> HIDE DEF P, g
  <2> QED
    BY <1>2
<1>4. Reachable(from, edges) = reach[Cardinality(Addresses)]
  BY DEF Reachable
<1>5. \A n \in Nat : reach[n] = Value(reach, n)
  <2> HIDE DEF reach, Value
  <2> QED
    BY <1>3
<1> HIDE DEF reach, P, g
<1> DEFINE Bad == {n \in Nat : reach[n] # g[n]}
<1>6. Bad = {}
  <2> SUFFICES ASSUME Bad # {} PROVE FALSE
    OBVIOUS
  <2>1. PICK n \in Bad : \A m \in Bad : n <= m
    <3>1. Bad \in SUBSET Nat
      OBVIOUS
    <3> HIDE DEF Bad
    <3> QED
      BY <3>1, LeastNumber
  <2>2. n # 0
    BY <1>1, <1>5, <2>1
  <2>3. n - 1 \in Nat /\ n - 1 \notin Bad
    BY <2>1, <2>2
  <2>4. reach[n - 1] = g[n - 1]
    BY <2>3
  <2>5. Value(reach, n) = Value(g, n)
    BY <2>4
  <2> QED
    BY <1>1, <1>5, <2>1, <2>5
<1>7. Cardinality(Addresses) \in Nat
  BY FS_CardinalityType
<1> QED
  BY <1>4, <1>6, <1>7 DEF g

\* What is reachable is there from the start, or the end of an edge.
LEMMA ReachableAreEnds ==
  ASSUME NEW from, NEW edges, IsFiniteSet(Addresses)
  PROVE  Reachable(from, edges) \subseteq Ends(from, edges)
<1> DEFINE N == Cardinality(Addresses)
<1>1. N \in Nat /\ Reachable(from, edges) = EndsAt(from, edges)[N]
  BY FS_CardinalityType, ReachableIsEndsAt
<1> HIDE DEF N
<1>2. N \in 0 .. N
  BY <1>1
<1>3. \A p \in Paths(from, edges, N) : p[N] \in Ends(from, edges)
  BY <1>2 DEF Paths
<1> QED
  BY <1>1, <1>3 DEF EndsAt

\* Nothing reachable is missed, for every image and every answer of the console:
\* what a function leads to in code was walked, and what it calls is a function
\* (the worklist of discover_seeded, close_call_targets; ReachIsWalked).
THEOREM ReachableIsWalked == Spec => []ReachIsWalked
<1>1. ASSUME ShapeInv, ReachInv PROVE ReachIsWalked
  <2> SUFFICES ASSUME Complete PROVE ReachIsWalked
    BY DEF ReachIsWalked
  <2> DEFINE calls == UNION {{<<e[1], t>> : t \in Flow(e[1]).targets} :
                               e \in {x \in walk.extents : Flow(x[1]).kind = "call"}}
             edges == FollowedEdges \union calls
             reached == {a \in Reachable(DOMAIN functions, edges) : InCode(a) /\ a # 0}
  <2>1. phase = "done" /\ ~failed
    BY <1>1 DEF Complete, ReachInv, CallsAreKnown
  <2>2. /\ queue = <<>> /\ chunk = <<>> /\ ToQuery(walk) = {}
        /\ walk.calls \subseteq xrefs
    BY <1>1, <2>1 DEF ReachInv, WorkIsDone, CallsAreKnown, Walking
  <2>3. \A t : Owed(t) /\ InCode(t) /\ t # 0 => t \in walk.visited
    BY <2>2 DEF Owed, ToQuery
  <2>4. \A t \in DOMAIN functions : Owed(t)
    BY <1>1, <2>1 DEF ReachInv, EntriesAreOwed
  <2>5. \A e \in FollowedEdges : Owed(e[2])
    BY <1>1 DEF ReachInv, FlowsAreOwed, FollowedEdges, Walks
  <2>6. \A c \in calls : c[2] # 0 => c \in walk.calls
    BY <1>1 DEF ReachInv, FlowsAreOwed, CallsOf, Walks
  <2>7. \A c \in calls : Owed(c[2])
    BY <1>1, <2>6 DEF ReachInv, EntriesAreOwed, Owed
  <2> HIDE DEF calls
  <2>8. \A t \in Ends(DOMAIN functions, edges) : Owed(t)
    BY <2>4, <2>5, <2>7 DEF Ends
  <2>9. IsFiniteSet(Addresses)
    BY <1>1 DEF ShapeInv, Sound, Addresses
  <2>10. reached \subseteq walk.visited
    <3> HIDE DEF edges
    <3>1. Reachable(DOMAIN functions, edges) \subseteq Ends(DOMAIN functions, edges)
      BY <2>9, ReachableAreEnds
    <3> QED
      BY <2>3, <2>8, <3>1
  <2>11. {a \in reached : Decodes(a)} \subseteq {e[1] : e \in walk.extents}
    <3>1. ToSet(queue) = {} /\ ToSet(chunk) = {}
      BY <2>2 DEF ToSet
    <3> HIDE DEF reached
    <3> QED
      BY <1>1, <2>1, <2>10, <3>1 DEF ReachInv, VisitsAreWalked, Walks
  <2>12. \A c \in calls : InCode(c[2]) /\ c[2] # 0 => c[2] \in DOMAIN functions
    BY <1>1, <2>2, <2>6 DEF ReachInv, CallsAreKnown
  <2> QED
    BY <2>10, <2>11, <2>12 DEF ReachIsWalked, calls
<1> QED
  BY <1>1, ShapeIsInvariant, ReachIsInvariant, PTL

-----------------------------------------------------------------------------
(* Possible starts. *)

\* Those that a conditional jump leads to, and no call.
Doubtful ==
  ({c.address : c \in {d \in starts.candidates : d.possible}}
     \intersect walk.conditional) \ {p[2] : p \in walk.calls}

\* Once the passes are over they are no entries, unless as linkage stubs; and what
\* becomes a function before the end is given, called, or in a linkage table.
SettleInv ==
  /\ phase = "sweep" => xrefs = {}
  /\ phase \in {"linkages", "finish"} =>
       Doubtful \intersect walk.entries \subseteq walk.linkage
  /\ phase \notin {"done", "error"} =>
       DOMAIN functions \subseteq
         DOMAIN program.functions \union {p[2] : p \in xrefs}
           \union {p[1] : p \in program.plt}
           \union (IF phase = "finish" THEN walk.linkage ELSE {})
  /\ PossibleStartsSettle

LEMMA SettleInit == ASSUME Init PROVE SettleInv
BY DEF Init, SettleInv, PossibleStartsSettle

\* A step that adds no function, before the end and not out of the passes.
LEMMA SettleStays ==
  ASSUME SettleInv, program' = program, functions' = functions, xrefs' = xrefs,
         phase \notin {"sweep", "linkages", "finish", "done", "error"},
         phase' \notin {"sweep", "linkages", "finish", "done"}
  PROVE  SettleInv'
BY DEF SettleInv, PossibleStartsSettle

\* The sweep comes first: a function is one that was given, or is called.
LEMMA SettleSweep == ASSUME ShapeInv, SettleInv, Sweep PROVE SettleInv'
<1>1. phase = "sweep" /\ phase' = "start" /\ functions' = CloseCallTargets(functions, xrefs')
  BY Zenon DEF Sweep
<1>2. DOMAIN functions' \subseteq DOMAIN functions \union {p[2] : p \in xrefs'}
  BY <1>1 DEF CloseCallTargets, InsertAll
<1>3. DOMAIN functions \subseteq DOMAIN program.functions \union {p[1] : p \in program.plt}
  BY <1>1 DEF SettleInv
<1>4. program'.functions = program.functions /\ program'.plt = program.plt
  BY SweepKeeps
<1> QED
  BY <1>1, <1>2, <1>3, <1>4 DEF SettleInv, PossibleStartsSettle

LEMMA SettleStart == ASSUME ShapeInv, SettleInv, Start PROVE SettleInv'
<1>1. phase = "start" /\ phase' = "seeds" /\ program' = program /\ xrefs' = xrefs
  BY DEF Start
<1>2. DOMAIN functions' \subseteq DOMAIN functions \union {p[1] : p \in program.plt}
  BY StartDoes
<1> QED
  BY <1>1, <1>2 DEF SettleInv, PossibleStartsSettle

\* The passes end when what a conditional jump leads to is rejected.
LEMMA SettleReject == ASSUME ShapeInv, SettleInv, RejectPatterns PROVE SettleInv'
<1>1. /\ phase = "patterns" /\ program' = program /\ functions' = functions
      /\ xrefs' = xrefs
  BY DEF RejectPatterns
<1>2. /\ starts'.candidates = starts.candidates
      /\ walk'.calls = walk.calls /\ walk'.conditional = walk.conditional
      /\ \/ phase' = "patterns"
         \/ /\ phase' = "linkages"
            /\ walk'.entries \intersect starts.rejected = {}
            /\ \A c \in starts.candidates :
                 c.possible /\ c.address \in walk.conditional
                   => c.address \in starts.rejected \union {p[2] : p \in walk.calls}
  BY RejectPatternsDo
<1>3. phase' = "linkages" => Doubtful' \intersect walk'.entries = {}
  BY <1>2 DEF Doubtful
<1> QED
  BY <1>1, <1>2, <1>3 DEF SettleInv, PossibleStartsSettle

LEMMA SettlePromote == ASSUME ShapeInv, SettleInv, PromoteLinkages PROVE SettleInv'
<1>1. /\ phase = "linkages" /\ phase' = "finish" /\ program' = program
      /\ xrefs' = xrefs /\ starts' = starts
  BY Zenon DEF PromoteLinkages
<1>2. /\ walk'.calls = walk.calls /\ walk'.conditional = walk.conditional
      /\ walk'.linkage = walk.linkage
      /\ walk'.entries \subseteq walk.entries \union walk.linkage
      /\ DOMAIN functions' \subseteq DOMAIN functions \union walk.linkage
  BY PromoteLinkagesDo DEF Stubs
<1>3. Doubtful' = Doubtful
  BY <1>1, <1>2 DEF Doubtful
<1> QED
  BY <1>1, <1>2, <1>3 DEF SettleInv, PossibleStartsSettle

\* The entries that are functions in the end are called, or stubs, if a conditional
\* jump leads to them.
LEMMA SettleFinish == ASSUME SettleInv, Finish PROVE SettleInv'
<1>1. /\ phase = "finish" /\ phase' \in {"done", "error"} /\ program' = program
      /\ walk' = walk /\ starts' = starts
  BY DEF Finish
<1>2. PICK kept \in SUBSET walk.entries :
        /\ xrefs' = xrefs \union walk.calls
        /\ DOMAIN functions' = DOMAIN functions \union kept
                                 \union {p[2] : p \in {q \in xrefs' : InCode(q[2])}}
  BY FinishDoes
<1>3. /\ Doubtful \intersect walk.entries \subseteq walk.linkage
      /\ DOMAIN functions \subseteq
           DOMAIN program.functions \union {p[2] : p \in xrefs}
             \union {p[1] : p \in program.plt} \union walk.linkage
  BY <1>1 DEF SettleInv
<1>4. ASSUME NEW c \in starts.candidates, c.possible, c.address \in walk.conditional,
             c.address \in DOMAIN functions'
      PROVE  \/ c.address \in {p[2] : p \in xrefs'}
             \/ c.address \in DOMAIN program.functions
             \/ c.address \in {p[1] : p \in program.plt}
             \/ c.address \in walk.linkage
  <2>1. CASE c.address \in DOMAIN functions
    BY <1>2, <1>3, <2>1
  <2>2. CASE c.address \in kept
    <3>1. c.address \in Doubtful \/ c.address \in {p[2] : p \in walk.calls}
      BY <1>4 DEF Doubtful
    <3> QED
      BY <1>2, <1>3, <2>2, <3>1
  <2>3. CASE c.address \in {p[2] : p \in {q \in xrefs' : InCode(q[2])}}
    BY <2>3
  <2> QED
    BY <1>2, <1>4, <2>1, <2>2, <2>3
<1>5. PossibleStartsSettle'
  BY <1>1, <1>4 DEF PossibleStartsSettle
<1> QED
  BY <1>1, <1>5 DEF SettleInv

LEMMA SettleGiveUp == ASSUME SettleInv, GiveUp PROVE SettleInv'
BY GiveUpDoes DEF SettleInv, PossibleStartsSettle

LEMMA SettleRest == ASSUME SettleInv, UNCHANGED vars PROVE SettleInv'
BY DEF vars, SettleInv, Doubtful, PossibleStartsSettle

\* What the passes reject stays rejected (SettleInv): no linkage stub, and no function
\* known before the end, brings a rejected start back (RejectPatterns to Finish).
THEOREM SettleIsInvariant == Spec => []SettleInv
<1>1. Init => SettleInv
  BY SettleInit
<1>2. ShapeInv /\ SettleInv /\ [Next]_vars => SettleInv'
  <2> SUFFICES ASSUME ShapeInv, SettleInv, [Next]_vars PROVE SettleInv'
    OBVIOUS
  <2>1. CASE Round \/ QueryChunk \/ WalkInstruction
    <3>1. /\ program' = program /\ functions' = functions /\ xrefs' = xrefs
          /\ phase' = phase /\ phase \in {"seeds", "relocs", "patterns"}
      BY <2>1 DEF Round, QueryChunk, WalkInstruction, Walking
    <3> QED
      BY <3>1, SettleStays
  <2>2. CASE ConfirmCandidates \/ ConfirmPatterns
    <3>1. /\ program' = program /\ functions' = functions /\ xrefs' = xrefs
          /\ phase \in {"seeds", "relocs"} /\ phase' \in {"relocs", "patterns"}
      BY <2>2 DEF ConfirmCandidates, ConfirmPatterns
    <3> QED
      BY <3>1, SettleStays
  <2> QED
    BY <2>1, <2>2, SettleSweep, SettleStart, SettleReject, SettlePromote, SettleFinish,
       SettleGiveUp, SettleRest DEF Next, Stop
<1> QED
  BY <1>1, <1>2, ShapeIsInvariant, PTL DEF Spec

\* A possible start that a conditional jump leads to becomes no function of its own,
\* whatever the patterns and the walks that find the jump: it is one only if it was
\* given, is called, or is in a linkage table (PossibleStartsSettle).
THEOREM PossibleStartsAreSettled == Spec => []PossibleStartsSettle
<1>1. SettleInv => PossibleStartsSettle
  BY DEF SettleInv
<1> QED
  BY <1>1, SettleIsInvariant, PTL

-----------------------------------------------------------------------------
(* Stubs that need their callers' context. *)

\* The unconditional jump at b goes to t alone; t is inside an instruction that was
\* walked or is to be walked.
Linked(b, t) == Flow(b).kind = "branch" /\ Flow(b).targets = {t}
Straddles(t) ==
  Inside(t, walk.extents \union {<<a, Flow(a).length>> : a \in ToSet(chunk)})
Known == {0} \union Targets(walk.calls) \union Targets(walk.thunkJumps)

\* A stub was walked or is to be, or a jump to it is.
StubsAreOwed ==
  \A t \in walk.linkage \ {0} :
    t \in walk.visited \union walk.active \/ \E b \in ToSet(chunk) : Linked(b, t)

\* Stubs are found in the first part, where they are neither functions nor entries;
\* until they are promoted they become entries only by a call or a thunk, and after
\* that functions only as the code says.
StubsAreNew ==
  /\ phase \in {"sweep", "start"} => walk.linkage = {}
  /\ phase = "seeds" =>
       \A f \in DOMAIN functions : f # 0 /\ InCode(f) => f \in walk.entries
  /\ phase \in {"seeds", "relocs", "patterns", "linkages"} =>
       /\ walk.linkage \intersect DOMAIN functions \subseteq {0}
       /\ walk.linkage \intersect walk.entries \subseteq Known
StubsArePromoted ==
  phase = "finish" =>
    \A t \in walk.linkage \intersect (DOMAIN functions \union walk.entries) :
      t \in Known \/ PlainStub(t) \/ Agreed(t)

\* The jumps to a stub are recorded: none was walked before the stub was found, since
\* its target would have been a stub, or walked, or inside an instruction.
JumpsAreKept ==
  \A b \in Walks : \A t \in walk.linkage :
    Linked(b, t) /\ Within(b, Flow(b).length) => <<t, b>> \in walk.contextEdges
JumpsAreStubs ==
  phase = "seeds" /\ HasSlots =>
    \A b \in Walks \union ToSet(chunk) : \A t \in Flow(b).targets :
      Linked(b, t) /\ InCode(t)
        => t \in walk.linkage \union walk.visited \union walk.entries \/ Straddles(t)

ContextInv ==
  /\ StubsAreOwed /\ StubsAreNew /\ StubsArePromoted /\ JumpsAreKept /\ JumpsAreStubs
  /\ ContextsAgree

LEMMA ContextInit == ASSUME Init PROVE ContextInv
<1>1. /\ walk.linkage = {} /\ walk.extents = {} /\ chunk = <<>>
      /\ phase \in {"sweep", "start"}
  BY DEF Init, NoWalk
<1> QED
  BY <1>1 DEF ContextInv, StubsAreOwed, StubsAreNew, StubsArePromoted, JumpsAreKept,
              JumpsAreStubs, ContextsAgree

\* The program's flow and code stay.
LEMMA FlowStays ==
  ASSUME program' = program
  PROVE  /\ \A b, t : Linked(b, t)' = Linked(b, t)
         /\ \A b : Flow(b)' = Flow(b) /\ Within(b, Flow(b).length)' = Within(b, Flow(b).length)
         /\ \A t : InCode(t)' = InCode(t)
         /\ HasSlots' = HasSlots
BY DEF Linked, Flow, Within, InCode, HasSlots

\* The candidates for stubs are those of the chunk that is to be walked.
LEMMA StubsAreFound ==
  ASSUME ShapeInv, QueryChunk
  PROVE  walk'.linkage = IF phase = "seeds"
                         THEN walk.linkage \union LinkageCandidates(walk, ToSet(chunk'))
                         ELSE walk.linkage
<1> DEFINE asked == SubSeq(queue, 1, Min({ChunkSize, Len(queue)}))
           set == ToSet(asked)
           new == LinkageCandidates(walk, set)
           linked == [walk EXCEPT !.linkage = @ \union new]
<1>1. \/ chunk' = asked /\ walk' = IF phase = "seeds" THEN linked ELSE walk
      \/ chunk' = <<>> /\ walk' = walk
  BY Zenon DEF QueryChunk
<1>2. LinkageCandidates(walk, ToSet(<<>>)) = {}
  <2>1. ToSet(<<>>) = {}
    BY DEF ToSet
  <2> QED
    BY <2>1 DEF LinkageCandidates
<1>3. ToSet(asked) = set
  OBVIOUS
<1> HIDE DEF asked, set
<1>4. linked.linkage = walk.linkage \union new
  BY DEF ShapeInv, WalkOK
<1> QED
  BY <1>1, <1>2, <1>3, <1>4

\* A jump that is asked about leads to a stub, to what was walked or known, or into
\* an instruction.
LEMMA AskedAreStubs ==
  ASSUME ShapeInv, NEW asked \in SUBSET Code(program)
  PROVE  /\ \A t \in LinkageCandidates(walk, asked) :
              /\ \E b \in asked : Linked(b, t)
              /\ InCode(t) /\ t \notin walk.visited \union walk.entries
              /\ ~Inside(t, walk.extents)
         /\ HasSlots => \A b \in asked : \A t \in Flow(b).targets :
              Linked(b, t) /\ InCode(t)
                => \/ t \in LinkageCandidates(walk, asked) \union walk.visited \union walk.entries
                   \/ Inside(t, walk.extents)
                   \/ Inside(t, {<<a, Flow(a).length>> : a \in asked})
<1>1. \A b \in asked : /\ Flow(b).first \subseteq Flow(b).targets
                       /\ Flow(b).first = {} => Flow(b).targets = {}
                       /\ \A t, u \in Flow(b).first : t = u
  <2> TAKE b \in asked
  <2>1. Sound(program)
    BY DEF ShapeInv
  <2>2. b \in DOMAIN program.flow
    BY <2>1, CodeIsFinite
  <2> QED
    BY <2>1, <2>2 DEF Sound, Flow
<1>2. ASSUME NEW t \in LinkageCandidates(walk, asked)
      PROVE  /\ \E b \in asked : Linked(b, t)
             /\ InCode(t) /\ t \notin walk.visited \union walk.entries
             /\ ~Inside(t, walk.extents)
  <2>1. /\ InCode(t) /\ t \notin walk.visited \union walk.entries
        /\ ~Inside(t, walk.extents)
        /\ \E b \in asked : /\ Flow(b).kind = "branch" /\ Flow(b).targets = Flow(b).first
                            /\ t \in Flow(b).targets
    BY <1>2 DEF LinkageCandidates
  <2>2. PICK b \in asked : /\ Flow(b).kind = "branch" /\ Flow(b).targets = Flow(b).first
                           /\ t \in Flow(b).targets
    BY <2>1
  <2>3. Flow(b).targets = {t}
    BY <1>1, <2>2
  <2> QED
    BY <2>1, <2>2, <2>3 DEF Linked
<1>3. ASSUME HasSlots, NEW b \in asked, NEW t \in Flow(b).targets, Linked(b, t), InCode(t)
      PROVE  \/ t \in LinkageCandidates(walk, asked) \union walk.visited \union walk.entries
             \/ Inside(t, walk.extents)
             \/ Inside(t, {<<a, Flow(a).length>> : a \in asked})
  <2>1. Flow(b).kind = "branch" /\ Flow(b).targets = Flow(b).first
    BY <1>1, <1>3 DEF Linked
  <2>2. t \in UNION {Flow(a).targets :
                       a \in {c \in asked : Flow(c).kind = "branch"
                                              /\ Flow(c).targets = Flow(c).first}}
    BY <1>3, <2>1
  <2> QED
    BY <1>3, <2>2 DEF LinkageCandidates
<1> QED
  BY <1>2, <1>3

LEMMA ContextSweep == ASSUME ShapeInv, ContextInv, Sweep PROVE ContextInv'
<1>1. phase = "sweep" /\ phase' = "start"
  BY DEF Sweep
<1>2. walk'.linkage = {}
  BY <1>1, SweepDoes DEF ContextInv, StubsAreNew
<1> QED
  BY <1>1, <1>2 DEF ContextInv, StubsAreOwed, StubsAreNew, StubsArePromoted, JumpsAreKept,
                    JumpsAreStubs, ContextsAgree

LEMMA ContextStart == ASSUME ShapeInv, ReachInv, ContextInv, Start PROVE ContextInv'
<1>1. phase = "start" /\ phase' = "seeds" /\ program' = program /\ chunk' = chunk
  BY DEF Start
<1>2. walk'.linkage = {} /\ walk'.extents = {} /\ chunk' = <<>>
  BY <1>1, StartDoes DEF ContextInv, StubsAreNew, ReachInv, WorkIsDone, Walking
<1>3. \A f \in DOMAIN functions' : f # 0 /\ InCode(f) => f \in walk'.entries
  BY StartDoes
<1>4. Walks' = {} /\ ToSet(chunk') = {}
  BY <1>2 DEF Walks, ToSet
<1>5. JumpsAreStubs'
  BY <1>4 DEF JumpsAreStubs
<1>6. StubsAreNew'
  BY <1>1, <1>2, <1>3, FlowStays DEF StubsAreNew
<1> QED
  BY <1>1, <1>2, <1>5, <1>6 DEF ContextInv, StubsAreOwed, StubsArePromoted, JumpsAreKept,
                                ContextsAgree

LEMMA ContextRound == ASSUME ShapeInv, ContextInv, Round PROVE ContextInv'
<1>1. /\ Walking /\ program' = program /\ phase' = phase /\ functions' = functions
      /\ chunk' = chunk
  BY DEF Round
<1>2. /\ walk'.visited = walk.visited \union ToQuery(walk)
      /\ walk'.entries = walk.entries /\ walk'.extents = walk.extents
      /\ walk'.calls = walk.calls /\ walk'.linkage = walk.linkage
      /\ walk'.thunkJumps = walk.thunkJumps /\ walk'.contextEdges = walk.contextEdges
  BY RoundDoes
<1>3. /\ \A b, t : Linked(b, t)' = Linked(b, t)
      /\ \A b : Flow(b)' = Flow(b) /\ Within(b, Flow(b).length)' = Within(b, Flow(b).length)
      /\ \A t : InCode(t)' = InCode(t)
      /\ HasSlots' = HasSlots
  BY <1>1, FlowStays
<1>4. StubsAreOwed'
  <2>1. ASSUME NEW t \in walk.linkage \ {0}, t \in walk.active
        PROVE  t \in walk'.visited
    <3>1. InCode(t)
      BY InCodeIsCode DEF ShapeInv
    <3> QED
      BY <1>2, <2>1, <3>1 DEF ToQuery
  <2>2. \A t \in walk.linkage \ {0} :
          t \in walk.visited \union walk.active \/ \E b \in ToSet(chunk) : Linked(b, t)
    BY DEF ContextInv, StubsAreOwed
  <2>3. \A t \in walk.linkage \ {0} :
          t \in walk'.visited \/ \E b \in ToSet(chunk) : Linked(b, t)
    BY <1>2, <2>1, <2>2
  <2> QED
    BY <1>1, <1>2, <1>3, <2>3 DEF StubsAreOwed
<1>5. StubsAreNew'
  <2>1. Known' = Known
    BY <1>2 DEF Known
  <2> QED
    BY <1>1, <1>2, <1>3, <2>1 DEF ContextInv, StubsAreNew
<1>6. Walks' = Walks
  BY <1>2 DEF Walks
<1>7. JumpsAreKept'
  BY <1>1, <1>2, <1>3, <1>6 DEF ContextInv, JumpsAreKept
<1>8. JumpsAreStubs'
  <2>1. \A t : Straddles(t)' = Straddles(t)
    BY <1>1, <1>2, <1>3 DEF Straddles, Inside
  <2> QED
    BY <1>1, <1>2, <1>3, <1>6, <2>1 DEF ContextInv, JumpsAreStubs
<1> QED
  BY <1>1, <1>4, <1>5, <1>7, <1>8 DEF ContextInv, StubsArePromoted, ContextsAgree, Walking

\* A stub that is found is led to by a jump of the chunk, and by none walked before.
LEMMA ContextQuery == ASSUME ShapeInv, ContextInv, QueryChunk PROVE ContextInv'
<1>1. /\ Walking /\ chunk = <<>> /\ program' = program /\ phase' = phase
      /\ functions' = functions
  BY DEF QueryChunk
<1>2. /\ walk'.visited = walk.visited /\ walk'.active = walk.active
      /\ walk'.entries = walk.entries /\ walk'.extents = walk.extents
      /\ walk'.calls = walk.calls
      /\ walk'.thunkJumps = walk.thunkJumps /\ walk'.contextEdges = walk.contextEdges
      /\ chunk' \in Seq(Code(program))
  BY QueryDoes
<1> DEFINE asked == ToSet(chunk')
           new == LinkageCandidates(walk, asked)
<1>3. walk'.linkage = IF phase = "seeds" THEN walk.linkage \union new ELSE walk.linkage
  BY StubsAreFound
<1>4. asked \in SUBSET Code(program)
  BY <1>2, LenProperties DEF ToSet
<1> HIDE DEF asked
<1>5. /\ \A t \in new : /\ \E b \in asked : Linked(b, t)
                        /\ InCode(t) /\ t \notin walk.visited \union walk.entries
                        /\ ~Inside(t, walk.extents)
      /\ HasSlots => \A b \in asked : \A t \in Flow(b).targets :
           Linked(b, t) /\ InCode(t)
             => \/ t \in new \union walk.visited \union walk.entries
                \/ Inside(t, walk.extents)
                \/ Inside(t, {<<a, Flow(a).length>> : a \in asked})
  BY <1>4, AskedAreStubs
<1>6. new # {} => HasSlots
  BY DEF LinkageCandidates
<1> HIDE DEF new
<1>7. /\ \A b, t : Linked(b, t)' = Linked(b, t)
      /\ \A b : Flow(b)' = Flow(b) /\ Within(b, Flow(b).length)' = Within(b, Flow(b).length)
      /\ \A t : InCode(t)' = InCode(t)
      /\ HasSlots' = HasSlots
  BY <1>1, FlowStays
<1>8. ToSet(chunk) = {} /\ ToSet(chunk)' = asked /\ ToSet(chunk') = asked
  BY <1>1 DEF ToSet, asked
<1>9. Walks' = Walks
  BY <1>2 DEF Walks
<1>10. StubsAreOwed'
  <2>1. \A t \in walk.linkage \ {0} : t \in walk.visited \union walk.active
    BY <1>8 DEF ContextInv, StubsAreOwed
  <2>2. \A t \in walk'.linkage \ {0} :
          t \in walk.visited \union walk.active \/ \E b \in asked : Linked(b, t)
    BY <1>3, <1>5, <2>1
  <2> QED
    BY <1>2, <1>7, <1>8, <2>2 DEF StubsAreOwed
<1>11. StubsAreNew'
  <2>1. Known' = Known
    BY <1>2 DEF Known
  <2>2. CASE phase = "seeds"
    <3>1. \A t \in new : t \in DOMAIN functions => t = 0
      BY <1>5, <2>2 DEF ContextInv, StubsAreNew
    <3>2. /\ walk.linkage \intersect DOMAIN functions \subseteq {0}
          /\ walk.linkage \intersect walk.entries \subseteq Known
      BY <2>2 DEF ContextInv, StubsAreNew
    <3>3. /\ walk'.linkage \intersect DOMAIN functions \subseteq {0}
          /\ walk'.linkage \intersect walk.entries \subseteq Known
      BY <1>3, <1>5, <2>2, <3>1, <3>2
    <3>4. \A f \in DOMAIN functions : f # 0 /\ InCode(f) => f \in walk.entries
      BY <2>2 DEF ContextInv, StubsAreNew
    <3> QED
      BY <1>1, <1>2, <1>7, <2>1, <2>2, <3>3, <3>4 DEF StubsAreNew
  <2>3. CASE phase # "seeds"
    BY <1>1, <1>2, <1>3, <1>7, <2>1, <2>3 DEF ContextInv, StubsAreNew
  <2> QED
    BY <2>2, <2>3
<1>12. JumpsAreKept'
  <2>1. ASSUME NEW b \in Walks, NEW t \in walk'.linkage, Linked(b, t),
               Within(b, Flow(b).length)
        PROVE  <<t, b>> \in walk.contextEdges
    <3>1. CASE t \in walk.linkage
      BY <2>1, <3>1 DEF ContextInv, JumpsAreKept
    <3>2. CASE t \notin walk.linkage
      <4>1. t \in new /\ phase = "seeds" /\ HasSlots
        BY <1>3, <1>6, <3>2
      <4>2. t \in walk.visited \union walk.entries \/ Straddles(t)
        BY <1>5, <2>1, <3>2, <4>1 DEF ContextInv, JumpsAreStubs, Linked
      <4>3. Straddles(t) => Inside(t, walk.extents)
        BY <1>8 DEF Straddles
      <4> QED
        BY <1>5, <4>1, <4>2, <4>3
    <3> QED
      BY <3>1, <3>2
  <2> QED
    BY <1>2, <1>7, <1>9, <2>1 DEF JumpsAreKept
<1>13. JumpsAreStubs'
  <2> DEFINE Straddled(t) ==
        Inside(t, walk.extents \union {<<a, Flow(a).length>> : a \in asked})
  <2>1. \A t : Straddles(t)' = Straddled(t)
    BY <1>2, <1>7, <1>8 DEF Straddles, Inside
  <2>2. \A t : /\ Straddles(t) => Straddled(t)
               /\ Inside(t, walk.extents) => Straddled(t)
               /\ Inside(t, {<<a, Flow(a).length>> : a \in asked}) => Straddled(t)
    BY <1>8 DEF Straddles, Inside
  <2> HIDE DEF Straddled
  <2>3. ASSUME phase = "seeds", HasSlots, NEW b \in Walks \union asked,
               NEW t \in Flow(b).targets, Linked(b, t), InCode(t)
        PROVE  t \in walk'.linkage \union walk.visited \union walk.entries \/ Straddled(t)
    <3>1. CASE b \in Walks
      BY <1>3, <2>2, <2>3, <3>1 DEF ContextInv, JumpsAreStubs
    <3>2. CASE b \in asked
      BY <1>3, <1>5, <2>2, <2>3, <3>2
    <3> QED
      BY <2>3, <3>1, <3>2
  <2> QED
    BY <1>1, <1>2, <1>7, <1>8, <1>9, <2>1, <2>3 DEF JumpsAreStubs
<1> QED
  BY <1>1, <1>10, <1>11, <1>12, <1>13 DEF ContextInv, StubsArePromoted, ContextsAgree, Walking

\* What does not decode has nothing inside it.
LEMMA StraddlesStay ==
  ASSUME ShapeInv, WalkInstruction
  PROVE  \A t \in Int : Straddles(t) => Straddles(t)'
<1> DEFINE a == Head(chunk)
<1>1. /\ Steps(walk, walk', a) /\ a \in Code(program)
      /\ ToSet(chunk) = ToSet(chunk') \union {a}
  BY WalkDoes
<1>2. program' = program
  BY DEF WalkInstruction
<1>3. IsBad(a) => Flow(a).length = 1
  <2>1. Sound(program)
    BY DEF ShapeInv
  <2>2. a \in DOMAIN program.flow
    BY <1>1, <2>1, CodeIsFinite
  <2>3. program.flow[a].kind \in {"bad", "unimpl"} => program.flow[a].length = 1
    BY <2>1, <2>2 DEF Sound
  <2> QED
    BY <2>3 DEF IsBad, Flow
<1>4. a \in Int
  BY <1>1 DEF Code
<1> HIDE DEF a
<1>5. \A b : Flow(b)' = Flow(b)
  BY <1>2 DEF Flow
<1> DEFINE before == walk.extents \union {<<b, Flow(b).length>> : b \in ToSet(chunk)}
           after == walk'.extents \union {<<b, Flow(b).length>> : b \in ToSet(chunk')}
<1>6. before \subseteq after \union (IF IsBad(a) THEN {<<a, 1>>} ELSE {})
  <2>1. before \subseteq after \union {<<a, Flow(a).length>>}
    BY <1>1 DEF Steps
  <2>2. ~IsBad(a) => <<a, Flow(a).length>> \in after
    BY <1>1 DEF Steps
  <2> QED
    BY <1>3, <2>1, <2>2
<1>7. \A t : Straddles(t) => Inside(t, before)
  BY DEF Straddles
<1>8. \A t : Inside(t, after) => Straddles(t)'
  BY <1>5 DEF Straddles, Inside
<1> HIDE DEF before, after
<1>9. ASSUME NEW t \in Int, Inside(t, before) PROVE Inside(t, after)
  <2>1. PICK e \in before : e[1] < t /\ t < e[1] + e[2]
    BY <1>9 DEF Inside
  <2>2. CASE e \in after
    BY <2>1, <2>2 DEF Inside
  <2>3. CASE e = <<a, 1>>
    <3>1. a < t /\ t < a + 1
      BY <2>1, <2>3
    <3> QED
      BY <1>4, <3>1
  <2> QED
    BY <1>6, <2>2, <2>3
<1> QED
  BY <1>7, <1>8, <1>9

\* A walked jump to a stub is recorded, and the stub is walked next.
LEMMA ContextWalk == ASSUME ShapeInv, ContextInv, WalkInstruction PROVE ContextInv'
<1> DEFINE a == Head(chunk)
<1>1. /\ Walking /\ program' = program /\ phase' = phase /\ functions' = functions
  BY DEF WalkInstruction
<1>2. /\ Steps(walk, walk', a) /\ a \in Code(program)
      /\ ToSet(chunk) = ToSet(chunk') \union {a}
  BY WalkDoes
<1>3. /\ Flow(a).first \subseteq Flow(a).targets
      /\ Flow(a).first = {} => Flow(a).targets = {}
  <2>1. Sound(program)
    BY DEF ShapeInv
  <2>2. a \in DOMAIN program.flow
    BY <1>2, <2>1, CodeIsFinite
  <2> HIDE DEF a
  <2> QED
    BY <2>1, <2>2 DEF Sound, Flow
<1> HIDE DEF a
<1>4. /\ walk'.visited = walk.visited /\ walk.active \subseteq walk'.active
      /\ walk'.linkage = walk.linkage /\ walk.entries \subseteq walk'.entries
      /\ walk'.calls = walk.calls \union CallsOf(a)
      /\ walk.thunkJumps \subseteq walk'.thunkJumps
      /\ walk'.contextEdges = walk.contextEdges \union JumpEdges(walk, a)
      /\ walk'.entries \subseteq walk.entries \union {0} \union Targets(walk'.calls)
                                   \union Targets(walk'.thunkJumps)
      /\ walk'.extents = IF IsBad(a) THEN walk.extents
                         ELSE walk.extents \union {<<a, Flow(a).length>>}
  BY <1>2 DEF Steps
<1>5. /\ \A b, t : Linked(b, t)' = Linked(b, t)
      /\ \A b : Flow(b)' = Flow(b) /\ Within(b, Flow(b).length)' = Within(b, Flow(b).length)
      /\ \A t : InCode(t)' = InCode(t)
      /\ HasSlots' = HasSlots
  BY <1>1, FlowStays
<1>6. Walks' \subseteq Walks \union {a}
  BY <1>4 DEF Walks
<1>7. \A t : Linked(a, t) => Flow(a).first = {t} /\ ~IsBad(a)
  BY <1>3 DEF Linked, IsBad
<1>8. StubsAreOwed'
  <2>1. ASSUME NEW t \in walk.linkage \ {0}, Linked(a, t)
        PROVE  t \in walk'.visited \union walk'.active
    <3>1. InCode(t)
      BY InCodeIsCode DEF ShapeInv
    <3>2. t \in Followed(Flow(a)) /\ ~IsBad(a)
      BY <1>7, <2>1 DEF Followed, Linked
    <3> QED
      BY <1>2, <3>1, <3>2 DEF Steps
  <2>2. \A t \in walk.linkage \ {0} :
          t \in walk.visited \union walk.active \/ \E b \in ToSet(chunk) : Linked(b, t)
    BY DEF ContextInv, StubsAreOwed
  <2>3. \A t \in walk.linkage \ {0} :
          t \in walk'.visited \union walk'.active \/ \E b \in ToSet(chunk') : Linked(b, t)
    BY <1>2, <1>4, <2>1, <2>2
  <2> QED
    BY <1>4, <1>5, <2>3 DEF StubsAreOwed
<1>9. StubsAreNew'
  <2>1. Known \subseteq Known'
    BY <1>4 DEF Known, Targets
  <2>2. walk'.entries \subseteq walk.entries \union Known'
    BY <1>4 DEF Known
  <2> QED
    BY <1>1, <1>4, <1>5, <2>1, <2>2 DEF ContextInv, StubsAreNew
<1>10. JumpsAreKept'
  <2>1. ASSUME NEW b \in Walks \union {a}, NEW t \in walk.linkage, Linked(b, t),
               Within(b, Flow(b).length)
        PROVE  <<t, b>> \in walk'.contextEdges
    <3>1. CASE b \in Walks
      BY <1>4, <2>1, <3>1 DEF ContextInv, JumpsAreKept
    <3>2. CASE b = a
      <4>1. t \in Flow(a).first \intersect walk.linkage /\ Flow(a).kind = "branch"
            /\ Within(a, Flow(a).length)
        BY <1>7, <2>1, <3>2 DEF Linked
      <4>2. <<t, a>> \in JumpEdges(walk, a)
        BY <4>1 DEF JumpEdges
      <4> QED
        BY <1>4, <3>2, <4>2
    <3> QED
      BY <2>1, <3>1, <3>2
  <2> QED
    BY <1>4, <1>5, <1>6, <2>1 DEF JumpsAreKept
<1>11. JumpsAreStubs'
  <2>1. \A t : InCode(t) /\ Straddles(t) => Straddles(t)'
    <3>1. \A t : InCode(t) => t \in Int
      BY InCodeIsCode DEF Code
    <3> QED
      BY <3>1, StraddlesStay
  <2>2. Walks' \union ToSet(chunk') \subseteq Walks \union ToSet(chunk)
    BY <1>2, <1>6
  <2> QED
    BY <1>1, <1>4, <1>5, <2>1, <2>2 DEF ContextInv, JumpsAreStubs
<1> QED
  BY <1>1, <1>8, <1>9, <1>10, <1>11 DEF ContextInv, StubsArePromoted, ContextsAgree, Walking

\* The confirmed candidates were not walked, so no stub is among them.
LEMMA FoundAreNew ==
  ASSUME ConfirmCandidates \/ ConfirmPatterns
  PROVE  \E found, m : walk' = Enter(walk, found, m) /\ found \intersect walk.visited = {}
<1>1. CASE ConfirmCandidates
  BY <1>1 DEF ConfirmCandidates
<1>2. CASE ConfirmPatterns
  <2> DEFINE Found(collected) ==
               {c.address : c \in {d \in collected :
                  InCode(d.address) /\ d.address \notin walk.visited \union walk.entries
                    /\ Decodes(d.address)}}
  <2>1. \E collected : \E found \in {Found(collected), {}} : walk' = Enter(walk, found, {})
    <3> HIDE DEF Found
    <3> QED
      BY <1>2 DEF ConfirmPatterns, Found
  <2>2. \A collected : Found(collected) \intersect walk.visited = {}
    OBVIOUS
  <2> HIDE DEF Found
  <2> QED
    BY <2>1, <2>2
<1> QED
  BY <1>1, <1>2

LEMMA ContextEnter ==
  ASSUME ShapeInv, ContextInv, ConfirmCandidates \/ ConfirmPatterns
  PROVE  ContextInv'
<1>1. /\ phase \in {"seeds", "relocs"} /\ phase' \in {"relocs", "patterns"} /\ Walked
      /\ program' = program /\ functions' = functions /\ chunk' = chunk
  BY DEF ConfirmCandidates, ConfirmPatterns
<1>2. PICK found, m : walk' = Enter(walk, found, m) /\ found \intersect walk.visited = {}
  BY FoundAreNew
<1>3. /\ walk'.entries = walk.entries \union found
      /\ walk'.visited = walk.visited /\ walk'.extents = walk.extents
      /\ walk'.calls = walk.calls /\ walk'.linkage = walk.linkage
      /\ walk'.thunkJumps = walk.thunkJumps /\ walk'.contextEdges = walk.contextEdges
  BY <1>2, EnterDoes DEF ShapeInv
<1>4. walk.linkage \ {0} \subseteq walk.visited
  <2>1. ToSet(chunk) = {}
    BY <1>1 DEF Walked, ToSet
  <2>2. \A t \in walk.linkage \ {0} : t \in walk.visited \union walk.active
    BY <2>1 DEF ContextInv, StubsAreOwed
  <2>3. \A t \in walk.linkage : InCode(t)
    BY InCodeIsCode DEF ShapeInv
  <2> QED
    BY <1>1, <2>2, <2>3 DEF Walked, ToQuery
<1>5. StubsAreOwed'
  BY <1>3, <1>4 DEF StubsAreOwed
<1>6. StubsAreNew'
  <2>1. Known' = Known /\ 0 \in Known
    BY <1>3 DEF Known
  <2>2. /\ walk.linkage \intersect DOMAIN functions \subseteq {0}
        /\ walk.linkage \intersect walk.entries \subseteq Known
    BY <1>1 DEF ContextInv, StubsAreNew
  <2>3. walk.linkage \intersect walk'.entries \subseteq Known
    BY <1>2, <1>3, <1>4, <2>1, <2>2
  <2> QED
    BY <1>1, <1>3, <2>1, <2>2, <2>3 DEF StubsAreNew
<1>7. JumpsAreKept'
  <2>1. Walks' = Walks
    BY <1>3 DEF Walks
  <2> QED
    BY <1>1, <1>3, <2>1, FlowStays DEF ContextInv, JumpsAreKept
<1> QED
  BY <1>1, <1>5, <1>6, <1>7 DEF ContextInv, StubsArePromoted, JumpsAreStubs, ContextsAgree

\* A rejection takes an entry away, and finds no stub.
LEMMA ContextReject == ASSUME ShapeInv, ContextInv, RejectPatterns PROVE ContextInv'
<1>1. /\ phase = "patterns" /\ phase' \in {"patterns", "linkages"}
      /\ program' = program /\ functions' = functions /\ chunk' = chunk
  <2>1. /\ phase = "patterns"
        /\ program' = program /\ functions' = functions /\ chunk' = chunk
    BY DEF RejectPatterns
  <2> QED
    BY <2>1, RejectPatternsDo
<1>2. /\ walk'.visited = walk.visited /\ walk'.active = walk.active
      /\ walk'.extents = walk.extents /\ walk'.calls = walk.calls
      /\ walk'.linkage = walk.linkage /\ walk'.entries \subseteq walk.entries
      /\ walk'.thunkJumps = walk.thunkJumps /\ walk'.contextEdges = walk.contextEdges
  BY RejectPatternsDo
<1>3. Walks' = Walks /\ Known' = Known
  BY <1>2 DEF Walks, Known
<1>4. StubsAreOwed'
  BY <1>1, <1>2, FlowStays DEF ContextInv, StubsAreOwed
<1>5. StubsAreNew'
  BY <1>1, <1>2, <1>3 DEF ContextInv, StubsAreNew
<1>6. JumpsAreKept'
  BY <1>1, <1>2, <1>3, FlowStays DEF ContextInv, JumpsAreKept
<1> QED
  BY <1>1, <1>4, <1>5, <1>6 DEF ContextInv, StubsArePromoted, JumpsAreStubs, ContextsAgree

\* A stub is promoted by its own slot, or by the one that its callers agree on.
LEMMA ContextPromote == ASSUME ShapeInv, ContextInv, PromoteLinkages PROVE ContextInv'
<1>1. /\ phase = "linkages" /\ phase' = "finish" /\ program' = program /\ chunk' = chunk
  BY Zenon DEF PromoteLinkages
<1>2. /\ walk'.visited = walk.visited /\ walk'.active = walk.active
      /\ walk'.extents = walk.extents /\ walk'.calls = walk.calls
      /\ walk'.linkage = walk.linkage /\ walk'.conditional = walk.conditional
      /\ walk'.thunkJumps = walk.thunkJumps /\ walk'.contextEdges = walk.contextEdges
      /\ \A t \in (DOMAIN functions' \union walk'.entries)
                    \ (DOMAIN functions \union walk.entries) : PlainStub(t) \/ Agreed(t)
  BY PromoteLinkagesDo
<1>3. Walks' = Walks /\ Known' = Known /\ 0 \in Known
  BY <1>2 DEF Walks, Known
<1>4. StubsAreOwed'
  BY <1>1, <1>2, FlowStays DEF ContextInv, StubsAreOwed
<1>5. StubsArePromoted'
  <2>1. \A t : PlainStub(t)' = PlainStub(t) /\ Agreed(t)' = Agreed(t)
    BY <1>1, <1>2 DEF PlainStub, Agreed, EdgesAgree
  <2>2. \A t \in walk.linkage \intersect (DOMAIN functions \union walk.entries) : t \in Known
    BY <1>1, <1>3 DEF ContextInv, StubsAreNew
  <2>3. \A t \in walk.linkage \intersect (DOMAIN functions' \union walk'.entries) :
          t \in Known \/ PlainStub(t) \/ Agreed(t)
    BY <1>2, <2>2
  <2> QED
    BY <1>2, <1>3, <2>1, <2>3 DEF StubsArePromoted
<1>6. JumpsAreKept'
  BY <1>1, <1>2, <1>3, FlowStays DEF ContextInv, JumpsAreKept
<1> QED
  BY <1>1, <1>4, <1>5, <1>6 DEF ContextInv, StubsAreNew, JumpsAreStubs, ContextsAgree

\* What is a function in the end was one, or an entry, or is called.
LEMMA ContextFinish == ASSUME ShapeInv, ContextInv, Finish PROVE ContextInv'
<1>1. /\ phase = "finish" /\ phase' \in {"done", "error"} /\ program' = program
      /\ walk' = walk /\ chunk' = chunk
  BY DEF Finish
<1>2. PICK kept \in SUBSET walk.entries :
        /\ xrefs' = xrefs \union walk.calls
        /\ DOMAIN functions' = DOMAIN functions \union kept
                                 \union {p[2] : p \in {q \in xrefs' : InCode(q[2])}}
  BY FinishDoes
<1>3. ASSUME NEW t \in (walk.linkage \intersect DOMAIN functions') \ {0},
             program.linkages[t].context,
             t \notin DOMAIN program.functions \union {p[2] : p \in xrefs' \union walk.thunkJumps},
             NEW b \in JumpsTo(t)
      PROVE  /\ program.contexts[b] \in program.slots
             /\ \A d \in JumpsTo(t) : program.contexts[d] = program.contexts[b]
  <2>1. t \in DOMAIN functions \union walk.entries
    BY <1>2, <1>3
  <2>2. t \notin Known
    BY <1>2, <1>3 DEF Known, Targets
  <2>3. Agreed(t)
    BY <1>1, <1>3, <2>1, <2>2 DEF ContextInv, StubsArePromoted, PlainStub
  <2>4. PICK s \in program.slots :
          \A e \in walk.contextEdges : e[1] = t => program.contexts[e[2]] = s
    BY <2>3 DEF Agreed, EdgesAgree
  <2>5. \A d \in JumpsTo(t) : program.contexts[d] = s
    <3> TAKE d \in JumpsTo(t)
    <3>1. d \in Walks /\ Linked(d, t) /\ Within(d, Flow(d).length)
      BY DEF JumpsTo, Linked, Walks
    <3>2. <<t, d>> \in walk.contextEdges
      BY <1>3, <3>1 DEF ContextInv, JumpsAreKept
    <3> QED
      BY <2>4, <3>2
  <2> QED
    BY <1>3, <2>5
<1>4. ContextsAgree'
  <2>1. \A t : JumpsTo(t)' = JumpsTo(t)
    BY <1>1 DEF JumpsTo, Flow, Within
  <2> QED
    BY <1>1, <1>3, <2>1 DEF ContextsAgree
<1>5. StubsAreOwed'
  BY <1>1, FlowStays DEF ContextInv, StubsAreOwed
<1>6. JumpsAreKept'
  <2>1. Walks' = Walks
    BY <1>1 DEF Walks
  <2> QED
    BY <1>1, <2>1, FlowStays DEF ContextInv, JumpsAreKept
<1> QED
  BY <1>1, <1>4, <1>5, <1>6 DEF ContextInv, StubsAreNew, StubsArePromoted, JumpsAreStubs

LEMMA ContextRest == ASSUME ContextInv, UNCHANGED vars PROVE ContextInv'
<1>1. /\ program' = program /\ phase' = phase /\ functions' = functions /\ xrefs' = xrefs
      /\ walk' = walk /\ chunk' = chunk
  BY DEF vars
<1>2. Walks' = Walks /\ Known' = Known /\ \A t : JumpsTo(t)' = JumpsTo(t)
  BY <1>1 DEF Walks, Known, JumpsTo, Flow, Within
<1>3. /\ \A b, t : Linked(b, t)' = Linked(b, t)
      /\ \A b : Flow(b)' = Flow(b) /\ Within(b, Flow(b).length)' = Within(b, Flow(b).length)
      /\ \A t : InCode(t)' = InCode(t)
      /\ HasSlots' = HasSlots
  BY <1>1, FlowStays
<1>4. StubsAreOwed' /\ JumpsAreKept'
  BY <1>1, <1>2, <1>3 DEF ContextInv, StubsAreOwed, JumpsAreKept
<1>5. StubsAreNew'
  BY <1>1, <1>2, <1>3 DEF ContextInv, StubsAreNew
<1>6. StubsArePromoted'
  <2>1. \A t : PlainStub(t)' = PlainStub(t) /\ Agreed(t)' = Agreed(t)
    BY <1>1 DEF PlainStub, Agreed, EdgesAgree
  <2> QED
    BY <1>1, <1>2, <2>1 DEF ContextInv, StubsArePromoted
<1>7. JumpsAreStubs'
  <2>1. \A t : Straddles(t)' = Straddles(t)
    BY <1>1, <1>3 DEF Straddles, Inside
  <2> QED
    BY <1>1, <1>2, <1>3, <2>1 DEF ContextInv, JumpsAreStubs
<1>8. ContextsAgree'
  BY <1>1, <1>2 DEF ContextInv, ContextsAgree
<1> QED
  BY <1>4, <1>5, <1>6, <1>7, <1>8 DEF ContextInv

LEMMA ContextGiveUp == ASSUME ContextInv, GiveUp PROVE ContextInv'
<1>1. /\ phase' = "error" /\ program' = program /\ functions' = functions
      /\ walk' = walk /\ chunk' = chunk
  BY GiveUpDoes
<1>2. Walks' = Walks /\ \A b, t : Linked(b, t)' = Linked(b, t)
  BY <1>1, FlowStays DEF Walks
<1>3. StubsAreOwed'
  BY <1>1, <1>2 DEF ContextInv, StubsAreOwed
<1>4. JumpsAreKept'
  BY <1>1, <1>2, FlowStays DEF ContextInv, JumpsAreKept
<1> QED
  BY <1>1, <1>3, <1>4 DEF ContextInv, StubsAreNew, StubsArePromoted, JumpsAreStubs, ContextsAgree

\* Every jump to a stub is recorded, whichever batch it comes in, and a stub that is
\* promoted for its callers' slot is one whose recorded jumps agree on it (ContextInv:
\* linkage_candidates, context_edges and the promotions).
THEOREM ContextIsInvariant == Spec => []ContextInv
<1>1. Init => ContextInv
  BY ContextInit
<1>2. ShapeInv /\ ReachInv /\ ContextInv /\ [Next]_vars => ContextInv'
  <2> SUFFICES ASSUME ShapeInv, ReachInv, ContextInv, [Next]_vars PROVE ContextInv'
    OBVIOUS
  <2> QED
    BY ContextSweep, ContextStart, ContextRound, ContextQuery, ContextWalk, ContextEnter,
       ContextReject, ContextPromote, ContextFinish, ContextGiveUp, ContextRest DEF Next, Stop
<1> QED
  BY <1>1, <1>2, ShapeIsInvariant, ReachIsInvariant, PTL DEF Spec

\* A stub that is a function only for its callers' context is led to by jumps that all
\* prove the same imported slot, whatever batches the walk met them in (ContextsAgree).
THEOREM ContextStubsAgree == Spec => []ContextsAgree
<1>1. ContextInv => ContextsAgree
  BY DEF ContextInv
<1> QED
  BY <1>1, ContextIsInvariant, PTL

-----------------------------------------------------------------------------
(* The ends of a set of addresses. *)

\* InOrder is in ascending order.
LEMMA InOrderAscends ==
  ASSUME NEW S \in SUBSET Int, IsFiniteSet(S),
         NEW i \in 1 .. Cardinality(S), NEW j \in 1 .. Cardinality(S), i < j
  PROVE  InOrder(S)[i] < InOrder(S)[j]
<1> DEFINE n == Cardinality(S)
           q == InOrder(S)
<1>1. n \in Nat /\ q \in [1 .. n -> S] /\ \A a \in S : \E k \in 1 .. n : q[k] = a
  BY InOrderLists
<1>2. \A k \in 1 .. n : \E a \in S : Cardinality(Below(S, a)) = k - 1
  <2> TAKE k \in 1 .. n
  <2> DEFINE Place == [a \in S |-> Cardinality(Below(S, a)) + 1]
  <2>1. Place \in Injection(S, 1 .. n)
    <3>1. \A a \in S : Cardinality(Below(S, a)) + 1 \in 1 .. n
      BY <1>1, BelowIsLess
    <3>2. \A a, c \in S : Place[a] = Place[c] => a = c
      BY BelowGrows
    <3> QED
      BY <3>1, <3>2 DEF Injection, IsInjective
  <2>2. IsFiniteSet(1 .. n) /\ Cardinality(1 .. n) = n
    BY <1>1, FS_Interval
  <2>3. Place \in Surjection(S, 1 .. n)
    BY <2>1, <2>2, FS_Injection
  <2>4. PICK a \in S : Place[a] = k
    BY <2>3 DEF Surjection
  <2>5. Cardinality(Below(S, a)) \in Int
    BY <1>1, BelowIsLess
  <2> QED
    BY <2>4, <2>5
<1>3. q = [k \in 1 .. n |-> CHOOSE a \in S : Cardinality(Below(S, a)) = k - 1]
  BY DEF InOrder, Below
<1>4. \A k \in 1 .. n : q[k] \in S /\ Cardinality(Below(S, q[k])) = k - 1
  BY <1>2, <1>3
<1> HIDE DEF q, n
<1>5. /\ q[i] \in S /\ q[j] \in S /\ i \in 1 .. n /\ j \in 1 .. n
      /\ Cardinality(Below(S, q[i])) = i - 1 /\ Cardinality(Below(S, q[j])) = j - 1
  BY <1>4 DEF n
<1>6. q[i] # q[j]
  BY <1>1, <1>5
<1>7. ~ (q[j] < q[i])
  <2> SUFFICES ASSUME q[j] < q[i] PROVE FALSE
    OBVIOUS
  <2>1. Cardinality(Below(S, q[j])) < Cardinality(Below(S, q[i]))
    BY <1>5, BelowGrows
  <2> QED
    BY <1>5, <2>1
<1>8. q[i] < q[j]
  <2>1. q[i] \in Int /\ q[j] \in Int
    BY <1>5
  <2> QED
    BY <1>6, <1>7, <2>1
<1> QED
  BY <1>8 DEF q

\* A finite set of addresses has a least one and a greatest one.
LEMMA EndsOfSet ==
  ASSUME NEW S \in SUBSET Int, IsFiniteSet(S), S # {}
  PROVE  /\ Min(S) \in S /\ \A x \in S : Min(S) <= x
         /\ Max(S) \in S /\ \A x \in S : x <= Max(S)
<1> DEFINE n == Cardinality(S)
           q == InOrder(S)
<1>1. n \in Nat /\ q \in [1 .. n -> S] /\ \A a \in S : \E k \in 1 .. n : q[k] = a
  BY InOrderLists
<1>2. \A i, j \in 1 .. n : i < j => q[i] < q[j]
  BY InOrderAscends
<1> HIDE DEF n, q
<1>3. 1 \in 1 .. n /\ n \in 1 .. n
  <2>1. PICK a \in S : TRUE
    OBVIOUS
  <2>2. PICK k \in 1 .. n : q[k] = a
    BY <1>1
  <2> QED
    BY <1>1, <2>2
<1>4. \A k \in 1 .. n : q[1] <= q[k] /\ q[k] <= q[n]
  <2> TAKE k \in 1 .. n
  <2>1. q[1] \in Int /\ q[k] \in Int /\ q[n] \in Int
    BY <1>1, <1>3
  <2>2. q[1] <= q[k]
    <3>1. CASE k = 1
      BY <2>1, <3>1
    <3>2. CASE k # 1
      <4>1. 1 < k
        BY <3>2
      <4> QED
        BY <1>2, <1>3, <2>1, <4>1
    <3> QED
      BY <3>1, <3>2
  <2>3. q[k] <= q[n]
    <3>1. CASE k = n
      BY <2>1, <3>1
    <3>2. CASE k # n
      <4>1. k < n
        BY <1>1, <3>2
      <4> QED
        BY <1>2, <1>3, <2>1, <4>1
    <3> QED
      BY <3>1, <3>2
  <2> QED
    BY <2>2, <2>3
<1>5. q[1] \in S /\ q[n] \in S
  BY <1>1, <1>3
<1>6. \A x \in S : q[1] <= x /\ x <= q[n]
  BY <1>1, <1>4
<1>7. Min(S) \in S /\ \A x \in S : Min(S) <= x
  BY <1>5, <1>6 DEF Min
<1>8. \A x \in S : q[n] >= x
  BY <1>6
<1>9. Max(S) \in S /\ \A x \in S : Max(S) >= x
  BY <1>5, <1>8 DEF Max
<1>10. \A x \in S : x <= Max(S)
  <2> DEFINE m == Max(S)
  <2>1. m \in Int /\ \A x \in S : m >= x
    BY <1>9
  <2> HIDE DEF m
  <2>2. \A x \in S : x <= m
    BY <2>1
  <2> QED
    BY <2>2 DEF m
<1> QED
  BY <1>7, <1>9, <1>10

-----------------------------------------------------------------------------
(* Owners: the links of addr_origin end. *)

\* Every link ends within three, at an address that owns itself.
End(origin, x) == Link(origin, Link(origin, Link(origin, x)))
EndSoon(origin) ==
  \A x \in DOMAIN origin : /\ End(origin, x) \in DOMAIN origin
                           /\ origin[End(origin, x)] = End(origin, x)

LEMMA OwnerIsEnd ==
  ASSUME NEW origin, EndSoon(origin), NEW a
  PROVE  GetCanonicalOrigin(a, origin) = End(origin, a)
<1> DEFINE L(x) == Link(origin, x)
           e == L(L(L(a)))
           Value(f, n) == IF n = 0 THEN a ELSE L(f[n - 1])
           P(f) == f = [n \in 0 .. MaxHops |-> Value(f, n)]
           After(n) == IF n = 0 THEN a ELSE IF n = 1 THEN L(a) ELSE IF n = 2 THEN L(L(a)) ELSE e
           g == [n \in 0 .. MaxHops |-> After(n)]
           after == CHOOSE f : P(f)
<1>1. MaxHops \in Nat /\ MaxHops >= 3
  BY DiscoveryAssumption
<1>2. L(e) = e
  BY DEF EndSoon, End, Link
<1>3. e = End(origin, a)
  BY DEF End
<1>4. GetCanonicalOrigin(a, origin) = after[MaxHops]
  BY DEF GetCanonicalOrigin
<1> HIDE DEF L, e
<1>5. e = L(L(L(a)))
  BY DEF e
<1>6. P(g)
  <2>1. \A n \in 0 .. MaxHops : n # 0 => g[n - 1] = After(n - 1)
    <3> HIDE DEF After
    <3> QED
      BY <1>1
  <2>2. \A n \in 0 .. MaxHops : Value(g, n) = After(n)
    <3> TAKE n \in 0 .. MaxHops
    <3>1. CASE n = 0
      BY <3>1
    <3>2. CASE n # 0
      <4>1. Value(g, n) = L(After(n - 1))
        <5> HIDE DEF After, g
        <5> QED
          BY <2>1, <3>2
      <4>2. L(After(n - 1)) = After(n)
        BY <1>1, <1>2, <1>5, <3>2
      <4> QED
        BY <4>1, <4>2
    <3> QED
      BY <3>1, <3>2
  <2> HIDE DEF Value, After
  <2>3. [n \in 0 .. MaxHops |-> Value(g, n)] = [n \in 0 .. MaxHops |-> After(n)]
    BY <2>2
  <2> QED
    BY <2>3
<1>7. P(after)
  <2> HIDE DEF P, g
  <2> QED
    BY <1>6
<1>8. \A n \in 0 .. MaxHops : after[n] = Value(after, n)
  <2> HIDE DEF after, Value
  <2> QED
    BY <1>7
<1> HIDE DEF after
<1>9. /\ after[0] = a
      /\ \A n \in 0 .. MaxHops : n # 0 => after[n] = L(after[n - 1])
  BY <1>1, <1>8
<1> DEFINE Wrong == {n \in Nat : 3 <= n /\ n <= MaxHops /\ after[n] # e}
<1>10. after[3] = e
  <2>1. after[1] = L(a)
    BY <1>1, <1>9
  <2>2. after[2] = L(L(a))
    BY <1>1, <1>9, <2>1
  <2> QED
    BY <1>1, <1>5, <1>9, <2>2
<1>11. Wrong = {}
  <2> SUFFICES ASSUME Wrong # {} PROVE FALSE
    OBVIOUS
  <2>1. PICK n \in Wrong : \A m \in Wrong : n <= m
    <3>1. Wrong \in SUBSET Nat
      OBVIOUS
    <3> HIDE DEF Wrong
    <3> QED
      BY <3>1, LeastNumber
  <2>2. n # 3 /\ n \in 0 .. MaxHops /\ n - 1 \in Nat /\ 3 <= n - 1 /\ n - 1 <= MaxHops
    BY <1>1, <1>10, <2>1
  <2>3. after[n - 1] = e
    BY <2>1, <2>2
  <2> QED
    BY <1>2, <1>9, <2>1, <2>2, <2>3
<1> QED
  BY <1>1, <1>3, <1>4, <1>11

-----------------------------------------------------------------------------
(* Owners and bodies while instructions are walked. *)

\* During the walk every link ends at once; what does not own itself is owned by
\* what was visited; and what is to be walked has an owner.
OriginOK(w) ==
  /\ \A x \in DOMAIN w.origin :
       /\ w.origin[x] \in DOMAIN w.origin /\ w.origin[w.origin[x]] = w.origin[x]
       /\ w.origin[x] = x \/ w.origin[x] \in w.visited
  /\ w.active \union w.visited \subseteq DOMAIN w.origin

\* What is remembered as an owner was visited.
RootsOK(w) ==
  /\ 0 \notin w.visited
  /\ \A t \in DOMAIN w.thunkRoots : w.thunkRoots[t] \in w.visited
  /\ \A x \in DOMAIN w.continuations : w.continuations[x] \in w.visited
  /\ \A e \in w.edges : e[2] \in w.visited

\* The owner's body covers an instruction, unless the instruction is called or a
\* thunk's target.
Taken(w) == Targets(w.calls \union w.thunkJumps)
BodiesOK(w) ==
  /\ IsFiniteSet(DOMAIN w.bodies) /\ IsFiniteSet(w.extents)
  /\ \A b \in DOMAIN w.bodies : w.bodies[b] \in Int
  /\ \A e \in w.extents : e[1] \in w.visited /\ e[1] \in Int /\ e[2] \in Int
  /\ \A e \in w.extents : e[1] \notin Taken(w) =>
       /\ w.origin[e[1]] \in DOMAIN w.bodies
       /\ e[1] + e[2] <= w.bodies[w.origin[e[1]]]

Owned(w) == WalkOK(w) /\ OriginOK(w) /\ RootsOK(w) /\ BodiesOK(w)

LEMMA OwnerIsLink ==
  ASSUME NEW w, OriginOK(w), NEW a
  PROVE  Owner(w, a) = Link(w.origin, a)
<1>1. \A x : Link(w.origin, Link(w.origin, x)) = Link(w.origin, x)
  BY DEF OriginOK, Link
<1>2. \A x \in DOMAIN w.origin : Link(w.origin, x) \in DOMAIN w.origin
                                 /\ w.origin[Link(w.origin, x)] = Link(w.origin, x)
  BY DEF OriginOK, Link
<1>3. \A x : End(w.origin, x) = Link(w.origin, x)
  BY <1>1 DEF End
<1>4. EndSoon(w.origin)
  BY <1>2, <1>3 DEF EndSoon
<1> QED
  BY <1>3, <1>4, OwnerIsEnd DEF Owner

\* An owner in the walk has been visited and owns itself.
Owns(w, o) == o \in w.visited /\ w.origin[o] = o

LEMMA VisitedIsOwned ==
  ASSUME NEW w, OriginOK(w), NEW a \in w.visited
  PROVE  Owner(w, a) = w.origin[a] /\ Owns(w, Owner(w, a))
<1>1. a \in DOMAIN w.origin /\ Owner(w, a) = Link(w.origin, a)
  BY OwnerIsLink DEF OriginOK
<1> QED
  BY <1>1 DEF OriginOK, Owns, Link

LEMMA MaxOfTwo ==
  ASSUME NEW x \in Int, NEW y \in Int, NEW S \in SUBSET {x, y}, S # {}
  PROVE  Max(S) \in S /\ \A z \in S : z <= Max(S)
<1>1. IsFiniteSet({x, y})
  <2>1. IsFiniteSet({x} \union {y})
    BY FS_Singleton, FS_AddElement
  <2>2. {x} \union {y} = {x, y}
    OBVIOUS
  <2> QED
    BY <2>1, <2>2
<1>2. IsFiniteSet(S) /\ S \in SUBSET Int
  BY <1>1, FS_Subset
<1> QED
  BY <1>2, EndsOfSet

\* A body only grows, and reaches the new end.
LEMMA ExtendDoes ==
  ASSUME NEW bodies, \A b \in DOMAIN bodies : bodies[b] \in Int, NEW o, NEW end \in Int
  PROVE  /\ DOMAIN Extend(bodies, o, end) = DOMAIN bodies \union {o}
         /\ \A b \in DOMAIN Extend(bodies, o, end) : Extend(bodies, o, end)[b] \in Int
         /\ \A b \in DOMAIN bodies : bodies[b] <= Extend(bodies, o, end)[b]
         /\ end <= Extend(bodies, o, end)[o]
<1> DEFINE top == IF o \in DOMAIN bodies THEN Max({bodies[o], end}) ELSE end
<1>1. /\ top \in Int /\ end <= top
      /\ o \in DOMAIN bodies => bodies[o] <= top
  <2>1. CASE o \in DOMAIN bodies
    <3>1. bodies[o] \in Int
      BY <2>1
    <3>2. {bodies[o], end} \in SUBSET {bodies[o], end} /\ {bodies[o], end} # {}
      OBVIOUS
    <3>3. /\ Max({bodies[o], end}) \in {bodies[o], end}
          /\ \A z \in {bodies[o], end} : z <= Max({bodies[o], end})
      BY <3>1, <3>2, MaxOfTwo
    <3> QED
      BY <2>1, <3>1, <3>3
  <2>2. CASE o \notin DOMAIN bodies
    BY <2>2
  <2> QED
    BY <2>1, <2>2
<1>2. Extend(bodies, o, end) = [x \in DOMAIN bodies \union {o} |-> IF x = o THEN top ELSE bodies[x]]
  BY DEF Extend, Insert
<1> HIDE DEF top
<1> QED
  BY <1>1, <1>2

\* What a merge into `into` of t and its owner `from` does to owners and bodies.
MergedInto(w, v, t, from, into) ==
  /\ from # into
  /\ DOMAIN v.origin = DOMAIN w.origin \union {t, from}
  /\ \A x \in DOMAIN v.origin :
       v.origin[x] = IF x \in {t, from} \/ w.origin[x] \in {t, from} THEN into ELSE w.origin[x]
  /\ DOMAIN v.bodies \subseteq DOMAIN w.bodies \union {into}
  /\ \A b \in DOMAIN v.bodies : v.bodies[b] \in Int
  /\ \A b \in DOMAIN w.bodies :
       LET c == IF b \in {t, from} THEN into ELSE b
       IN  c \in DOMAIN v.bodies /\ w.bodies[b] <= v.bodies[c]

LEMMA MergeDoes ==
  ASSUME NEW w, Owned(w), NEW t, NEW o \in w.visited, NEW m
  PROVE  \/ MergeReached(w, t, o, m) = w
         \/ MergedInto(w, MergeReached(w, t, o, m), t, Link(w.origin, t), w.origin[o])
<1> DEFINE into == Owner(w, o)
           from == Owner(w, t)
           moved == {t, from}
           linked == Insert(Insert(w.origin, from, into), t, into)
           ends == {w.bodies[x] : x \in moved \intersect DOMAIN w.bodies}
           rest == Restrict(w.bodies, DOMAIN w.bodies \ moved)
           bodies == IF ends = {} THEN rest ELSE Extend(rest, into, Max(ends))
           origin == [a \in DOMAIN linked |-> IF linked[a] \in moved THEN into ELSE linked[a]]
           v == [w EXCEPT !.origin = origin, !.bodies = bodies]
<1>1. from = Link(w.origin, t) /\ into = w.origin[o]
  BY OwnerIsLink, VisitedIsOwned DEF Owned
<1>2. MergeReached(w, t, o, m) = w \/ (from # into /\ MergeReached(w, t, o, m) = v)
  BY DEF MergeReached
<1> HIDE DEF into, from
<1>3. ASSUME from # into PROVE MergedInto(w, v, t, from, into)
  <2>1. v.origin = origin /\ v.bodies = bodies
    <3> HIDE DEF origin, bodies
    <3> QED
      BY DEF Owned, WalkOK
  <2>2. DOMAIN linked = DOMAIN w.origin \union moved
        /\ \A x \in DOMAIN linked : linked[x] = IF x \in moved THEN into ELSE w.origin[x]
    BY DEF Insert
  <2> HIDE DEF linked
  <2>3. DOMAIN origin = DOMAIN w.origin \union moved
        /\ \A x \in DOMAIN origin :
             origin[x] = IF x \in moved \/ w.origin[x] \in moved THEN into ELSE w.origin[x]
    BY <2>2
  <2>4. /\ DOMAIN rest = DOMAIN w.bodies \ moved
        /\ \A b \in DOMAIN rest : rest[b] = w.bodies[b] /\ rest[b] \in Int
    BY DEF Restrict, Owned, BodiesOK
  <2> HIDE DEF rest, origin
  <2>5. /\ DOMAIN bodies \subseteq DOMAIN w.bodies \union {into}
        /\ \A b \in DOMAIN bodies : bodies[b] \in Int
        /\ \A b \in DOMAIN w.bodies \ moved : b \in DOMAIN bodies /\ w.bodies[b] <= bodies[b]
        /\ \A b \in DOMAIN w.bodies \intersect moved :
             into \in DOMAIN bodies /\ w.bodies[b] <= bodies[into]
    <3>1. \A b \in DOMAIN w.bodies : w.bodies[b] \in Int
      BY DEF Owned, BodiesOK
    <3>2. CASE ends = {}
      <4>1. bodies = rest /\ DOMAIN w.bodies \intersect moved = {}
        BY <3>2
      <4> HIDE DEF bodies
      <4> QED
        BY <2>4, <3>1, <4>1
    <3>3. CASE ends # {}
      <4>1. Max(ends) \in Int /\ \A z \in ends : z <= Max(ends)
        <5>1. PICK x \in Int, y \in Int : ends \in SUBSET {x, y}
          <6>1. CASE t \in DOMAIN w.bodies /\ from \in DOMAIN w.bodies
            BY <3>1, <6>1
          <6>2. CASE t \notin DOMAIN w.bodies
            <7>1. ends \in SUBSET {w.bodies[from]} /\ w.bodies[from] \in Int
              BY <3>1, <3>3, <6>2
            <7> QED
              BY <7>1
          <6>3. CASE from \notin DOMAIN w.bodies
            <7>1. ends \in SUBSET {w.bodies[t]} /\ w.bodies[t] \in Int
              BY <3>1, <3>3, <6>3
            <7> QED
              BY <7>1
          <6> QED
            BY <6>1, <6>2, <6>3
        <5>2. Max(ends) \in ends /\ \A z \in ends : z <= Max(ends)
          <6> HIDE DEF ends
          <6> QED
            BY <3>3, <5>1, MaxOfTwo
        <5> QED
          BY <3>1, <5>2
      <4> DEFINE top == Max(ends)
      <4>2. \A b \in DOMAIN w.bodies \intersect moved : w.bodies[b] <= top
        BY <4>1
      <4>3. bodies = Extend(rest, into, top) /\ top \in Int
        BY <3>3, <4>1
      <4> HIDE DEF bodies, top
      <4>4. /\ DOMAIN bodies = DOMAIN rest \union {into}
            /\ \A b \in DOMAIN bodies : bodies[b] \in Int
            /\ \A b \in DOMAIN rest : rest[b] <= bodies[b]
            /\ top <= bodies[into]
        BY <2>4, <4>3, ExtendDoes
      <4>5. \A b \in DOMAIN w.bodies \intersect moved :
              into \in DOMAIN bodies /\ w.bodies[b] <= bodies[into]
        BY <3>1, <4>2, <4>3, <4>4
      <4> QED
        BY <2>4, <4>4, <4>5
    <3> QED
      BY <3>2, <3>3
  <2> HIDE DEF bodies, v
  <2> QED
    BY <1>3, <2>1, <2>3, <2>5 DEF MergedInto
<1> HIDE DEF v
<1> QED
  BY <1>1, <1>2, <1>3

\* A merge into what was visited keeps the owners and the bodies, and the owner
\* that it merges into.
LEMMA MergeOwns ==
  ASSUME NEW w, Owned(w), NEW t, NEW o \in w.visited, NEW m
  PROVE  /\ Owned(MergeReached(w, t, o, m))
         /\ Owns(w, o) => Owns(MergeReached(w, t, o, m), o)
<1> DEFINE v == MergeReached(w, t, o, m)
           from == Link(w.origin, t)
           into == w.origin[o]
<1>1. Kept(w, v)
  BY MergeKeeps DEF Owned
<1>2. /\ v.continuations = w.continuations /\ v.edges = w.edges
  BY DEF MergeReached, Owned, WalkOK
<1>3. RootsOK(v) /\ WalkOK(v)
  BY <1>1, <1>2 DEF Kept, RootsOK, Owned
<1>4. v = w \/ MergedInto(w, v, t, from, into)
  BY MergeDoes
<1>5. /\ into \in DOMAIN w.origin /\ w.origin[into] = into /\ into \in w.visited
      /\ o \in DOMAIN w.origin
  BY DEF Owned, OriginOK
<1>6. from # into => into \notin {t, from}
  BY <1>5 DEF Link
<1>7. t \in DOMAIN w.origin => w.origin[t] = from
  BY DEF Link
<1>8. from \in DOMAIN w.origin => w.origin[from] = from
  BY DEF Link, Owned, OriginOK
<1> HIDE DEF v, from, into
<1>9. CASE v = w
  BY <1>9 DEF v
<1>10. CASE MergedInto(w, v, t, from, into)
  <2>1. /\ from # into /\ into \notin {t, from}
        /\ DOMAIN v.origin = DOMAIN w.origin \union {t, from}
        /\ \A x \in DOMAIN v.origin :
             v.origin[x] = IF x \in {t, from} \/ w.origin[x] \in {t, from}
                           THEN into ELSE w.origin[x]
    BY <1>6, <1>10 DEF MergedInto
  <2>2. v.origin[into] = into /\ into \in DOMAIN v.origin
    BY <1>5, <2>1
  <2>3. OriginOK(v)
    <3>1. ASSUME NEW x \in DOMAIN v.origin
          PROVE  /\ v.origin[x] \in DOMAIN v.origin /\ v.origin[v.origin[x]] = v.origin[x]
                 /\ v.origin[x] = x \/ v.origin[x] \in v.visited
      <4>1. CASE v.origin[x] = into
        BY <1>1, <1>5, <2>2, <4>1 DEF Kept
      <4>2. CASE v.origin[x] # into
        <5>1. x \notin {t, from} /\ x \in DOMAIN w.origin /\ w.origin[x] \notin {t, from}
              /\ v.origin[x] = w.origin[x]
          BY <2>1, <4>2
        <5>2. /\ w.origin[x] \in DOMAIN w.origin /\ w.origin[w.origin[x]] = w.origin[x]
              /\ w.origin[x] = x \/ w.origin[x] \in w.visited
          BY <5>1 DEF Owned, OriginOK
        <5>3. v.origin[w.origin[x]] = w.origin[x]
          BY <2>1, <5>1, <5>2
        <5> QED
          BY <1>1, <2>1, <5>1, <5>2, <5>3 DEF Kept
      <4> QED
        BY <4>1, <4>2
    <3>2. v.active \union v.visited \subseteq DOMAIN v.origin
      BY <1>1, <2>1 DEF Kept, Owned, OriginOK
    <3> QED
      BY <3>1, <3>2 DEF OriginOK
  <2>4. BodiesOK(v)
    <3>1. /\ \A b \in DOMAIN v.bodies : v.bodies[b] \in Int
          /\ \A b \in DOMAIN w.bodies :
               LET c == IF b \in {t, from} THEN into ELSE b
               IN  c \in DOMAIN v.bodies /\ w.bodies[b] <= v.bodies[c]
      BY <1>10 DEF MergedInto
    <3>2. Taken(v) = Taken(w)
      BY <1>1 DEF Kept, Taken
    <3>3. ASSUME NEW e \in v.extents, e[1] \notin Taken(v)
          PROVE  /\ v.origin[e[1]] \in DOMAIN v.bodies
                 /\ e[1] + e[2] <= v.bodies[v.origin[e[1]]]
      <4> DEFINE b == w.origin[e[1]]
                 c == IF b \in {t, from} THEN into ELSE b
      <4>1. /\ e \in w.extents /\ e[1] \in w.visited /\ e[1] \in DOMAIN w.origin
            /\ b \in DOMAIN w.bodies /\ e[1] + e[2] <= w.bodies[b]
            /\ e[1] \in Int /\ e[2] \in Int /\ w.bodies[b] \in Int
        BY <1>1, <3>2, <3>3 DEF Kept, Owned, OriginOK, BodiesOK
      <4>2. c \in DOMAIN v.bodies /\ w.bodies[b] <= v.bodies[c] /\ v.bodies[c] \in Int
        BY <3>1, <4>1
      <4>3. v.origin[e[1]] = c
        <5>1. e[1] \in {t, from} => b \in {t, from}
          BY <1>7, <1>8, <4>1
        <5> QED
          BY <2>1, <4>1, <5>1
      <4> HIDE DEF b, c
      <4> QED
        BY <4>1, <4>2, <4>3
    <3>4. \A e \in v.extents : e[1] \in v.visited /\ e[1] \in Int /\ e[2] \in Int
      BY <1>1 DEF Kept, Owned, BodiesOK
    <3>5. IsFiniteSet(DOMAIN v.bodies) /\ IsFiniteSet(v.extents)
      <4>1. IsFiniteSet(DOMAIN w.bodies) /\ v.extents = w.extents /\ IsFiniteSet(w.extents)
        BY <1>1 DEF Kept, Owned, BodiesOK
      <4>2. IsFiniteSet(DOMAIN w.bodies \union {into})
        BY <4>1, FS_AddElement
      <4>3. DOMAIN v.bodies \in SUBSET (DOMAIN w.bodies \union {into})
        BY <1>10 DEF MergedInto
      <4> QED
        BY <4>1, <4>2, <4>3, FS_Subset
    <3> QED
      BY <3>1, <3>3, <3>4, <3>5 DEF BodiesOK
  <2>5. Owns(w, o) => Owns(v, o)
    BY <1>1, <2>2 DEF Owns, into, Kept
  <2> QED
    BY <1>3, <2>3, <2>4, <2>5 DEF Owned, v
<1> QED
  BY <1>4, <1>9, <1>10

\* The merges of a chain keep them too.
LEMMA MergesOwn ==
  ASSUME NEW w, Owned(w), NEW S, IsFiniteSet(S), NEW root \in w.visited, NEW m
  PROVE  Owned(Merges(w, S, root, m))
<1>1. PICK iter, pick : MergeTurns(iter, pick, w, S, root, m)
  BY MergesFold
<1>2. /\ \A s \in SUBSET S : s # {} => pick[s] \in s
      /\ \A s \in SUBSET S :
           iter[s] = IF s = {} THEN w
                     ELSE MergeReached(iter[s \ {pick[s]}], pick[s], root, m)
      /\ Merges(w, S, root, m) = iter[S]
  BY <1>1 DEF MergeTurns
<1> DEFINE Good(s) == Owned(iter[s]) /\ root \in iter[s].visited
           Wrong == {s \in SUBSET S : ~ Good(s)}
<1>3. SUFFICES ASSUME ~ Good(S) PROVE FALSE
  BY <1>2
<1>4. PICK s \in Wrong : \A t \in Wrong : t \subseteq s => t = s
  <2>1. Wrong \in SUBSET SUBSET S /\ Wrong # {}
    BY <1>3
  <2> HIDE DEF Wrong
  <2> QED
    BY <2>1, SmallestSubset
<1>5. s # {}
  BY <1>2, <1>4
<1>6. Good(s \ {pick[s]})
  <2>1. s \ {pick[s]} \in SUBSET S /\ s \ {pick[s]} \subseteq s /\ s \ {pick[s]} # s
    BY <1>2, <1>4, <1>5
  <2> QED
    BY <1>4, <2>1
<1>7. Good(s)
  <2> DEFINE u == iter[s \ {pick[s]}]
  <2>1. iter[s] = MergeReached(u, pick[s], root, m)
    BY <1>2, <1>4, <1>5
  <2>2. Owned(u) /\ root \in u.visited
    BY <1>6
  <2> HIDE DEF u
  <2>3. Kept(u, MergeReached(u, pick[s], root, m))
    BY <2>2, MergeKeeps DEF Owned
  <2>4. Owned(MergeReached(u, pick[s], root, m))
    BY <2>2, MergeOwns
  <2> QED
    BY <2>1, <2>2, <2>3, <2>4 DEF Kept
<1> QED
  BY <1>4, <1>7

LEMMA LandingOwns ==
  ASSUME NEW w, Owned(w), NEW a
  PROVE  Owned(Landing(w, a))
<1> DEFINE v == Landing(w, a)
<1>1. Kept(w, v) /\ v.origin = w.origin /\ v.bodies = w.bodies /\ v.edges = w.edges
      /\ v.continuations = w.continuations
  <2>1. Kept(w, v)
    BY LandingKeeps DEF Owned
  <2>2. v.origin = w.origin /\ v.bodies = w.bodies /\ v.edges = w.edges
        /\ v.continuations = w.continuations
    BY DEF Landing, Owned, WalkOK
  <2> QED
    BY <2>1, <2>2
<1> HIDE DEF v
<1>2. Owned(v)
  BY <1>1 DEF Kept, Owned, OriginOK, RootsOK, BodiesOK, Taken
<1> QED
  BY <1>2 DEF v

LEMMA DemoteOwns ==
  ASSUME NEW w, Owned(w), IsFiniteSet(DOMAIN w.thunkRoots), NEW a
  PROVE  Owned(Demote(w, a))
<1> DEFINE root == w.continuations[a]
           chain == {t \in DOMAIN w.thunkRoots : w.thunkRoots[t] = root}
           merged == Merges(w, chain, root, w.thunkCandidates)
<1>1. IsFiniteSet(chain)
  <2>1. chain \in SUBSET DOMAIN w.thunkRoots
    OBVIOUS
  <2> QED
    BY <2>1, FS_Subset
<1>2. a \in DOMAIN w.continuations => root \in w.visited
  BY DEF Owned, RootsOK
<1>3. Demote(w, a) = w \/ (a \in DOMAIN w.continuations /\ Demote(w, a) = merged)
  BY DEF Demote, Merges
<1> HIDE DEF root, chain
<1>4. a \in DOMAIN w.continuations => Owned(merged)
  BY <1>1, <1>2, MergesOwn
<1> QED
  BY <1>3, <1>4

\* What is recorded of an instruction is in its owner's body.
LEMMA RecordOwns ==
  ASSUME NEW w, Owned(w), NEW a \in w.visited, a \in Int, Flow(a).length \in Int
  PROVE  Owned(Record(w, a)) /\ Record(w, a).origin = w.origin
<1> DEFINE v == Record(w, a)
           end == a + Flow(a).length
<1>1. Recorded(w, v, a)
  BY RecordDoes DEF Owned
<1>2. v.origin = w.origin /\ v.continuations = w.continuations
      /\ v.bodies = Extend(w.bodies, Owner(w, a), end)
  BY DEF Owned, WalkOK, Record
<1>3. \A e \in v.edges : e \in w.edges \/ e[2] = a
  BY DEF Owned, WalkOK, Record
<1>4. Owner(w, a) = w.origin[a]
  BY VisitedIsOwned DEF Owned
<1>5. /\ DOMAIN v.bodies = DOMAIN w.bodies \union {w.origin[a]}
      /\ \A b \in DOMAIN v.bodies : v.bodies[b] \in Int
      /\ \A b \in DOMAIN w.bodies : w.bodies[b] <= v.bodies[b]
      /\ end <= v.bodies[w.origin[a]]
  <2>1. end \in Int /\ \A b \in DOMAIN w.bodies : w.bodies[b] \in Int
    BY DEF Owned, BodiesOK
  <2> DEFINE grown == Extend(w.bodies, w.origin[a], end)
  <2>2. v.bodies = grown
    BY <1>2, <1>4
  <2> HIDE DEF v, end
  <2>3. /\ DOMAIN grown = DOMAIN w.bodies \union {w.origin[a]}
        /\ \A b \in DOMAIN grown : grown[b] \in Int
        /\ \A b \in DOMAIN w.bodies : w.bodies[b] <= grown[b]
        /\ end <= grown[w.origin[a]]
    BY <2>1, ExtendDoes
  <2> HIDE DEF grown
  <2> QED
    BY <2>2, <2>3
<1>6. \A e \in v.extents : e \in w.extents \/ e = <<a, Flow(a).length>>
  BY <1>1 DEF Recorded
<1>10. IsFiniteSet(DOMAIN v.bodies) /\ IsFiniteSet(v.extents)
  <2>1. IsFiniteSet(DOMAIN w.bodies) /\ IsFiniteSet(w.extents)
    BY DEF Owned, BodiesOK
  <2>2. /\ IsFiniteSet(DOMAIN w.bodies \union {w.origin[a]})
        /\ IsFiniteSet(w.extents \union {<<a, Flow(a).length>>})
    BY <2>1, FS_AddElement
  <2>3. v.extents \in SUBSET (w.extents \union {<<a, Flow(a).length>>})
    BY <1>6
  <2> HIDE DEF v
  <2> QED
    BY <1>5, <2>2, <2>3, FS_Subset
<1> HIDE DEF v
<1>7. WalkOK(v) /\ OriginOK(v) /\ RootsOK(v)
  BY <1>1, <1>2, <1>3 DEF Recorded, Owned, OriginOK, RootsOK
<1>8. BodiesOK(v)
  <2>1. Taken(v) = Taken(w)
    BY <1>1 DEF Recorded, Taken
  <2>2. ASSUME NEW e \in v.extents
        PROVE  /\ e[1] \in v.visited /\ e[1] \in Int /\ e[2] \in Int
               /\ e[1] \notin Taken(v) =>
                    /\ v.origin[e[1]] \in DOMAIN v.bodies
                    /\ e[1] + e[2] <= v.bodies[v.origin[e[1]]]
    <3>1. CASE e = <<a, Flow(a).length>>
      BY <1>1, <1>2, <1>5, <3>1 DEF Recorded
    <3>2. CASE e \in w.extents
      <4>1. e[1] \in w.visited /\ e[1] \in Int /\ e[2] \in Int
        BY <3>2 DEF Owned, BodiesOK
      <4>2. e[1] \notin Taken(w) =>
              /\ w.origin[e[1]] \in DOMAIN w.bodies /\ w.bodies[w.origin[e[1]]] \in Int
              /\ e[1] + e[2] <= w.bodies[w.origin[e[1]]]
        BY <3>2 DEF Owned, BodiesOK
      <4> QED
        BY <1>1, <1>2, <1>5, <2>1, <4>1, <4>2 DEF Recorded
    <3> QED
      BY <1>6, <3>1, <3>2
  <2> QED
    BY <1>5, <1>10, <2>2 DEF BodiesOK
<1>9. Owned(v) /\ v.origin = w.origin
  BY <1>2, <1>7, <1>8 DEF Owned
<1> QED
  BY <1>9 DEF v

\* What is called owns itself; only its own instruction may lose its body.
LEMMA CallsOwn ==
  ASSUME NEW w, Owned(w), NEW a
  PROVE  /\ Owned(Calls(w, a))
         /\ \A o : Owns(w, o) => Owns(Calls(w, a), o)
<1> DEFINE found == {t \in Flow(a).targets : InCode(t) /\ t \notin w.entries}
           all == {<<a, t>> : t \in Flow(a).targets \ {0}}
           new == [t \in found |-> t]
           v == [w EXCEPT !.entries = @ \union found, !.origin = InsertAll(@, new),
                          !.active = @ \union found, !.calls = @ \union all]
<1>1. Calls(w, a) = w \/ Calls(w, a) = v
  BY DEF Calls
<1>2. /\ DOMAIN new = found /\ \A t \in found : new[t] = t
      /\ \A t \in found : t # 0 => t \in Targets(all)
  <2>1. ASSUME NEW t \in found, t # 0 PROVE t \in Targets(all)
    <3>1. <<a, t>> \in all
      BY <2>1
    <3> HIDE DEF all
    <3> QED
      BY <3>1 DEF Targets
  <2> QED
    BY <2>1
<1> HIDE DEF found, all, new
<1>3. /\ WalkOK(v) /\ v.visited = w.visited /\ v.active = w.active \union found
      /\ v.bodies = w.bodies /\ v.extents = w.extents /\ v.edges = w.edges
      /\ v.thunkRoots = w.thunkRoots /\ v.continuations = w.continuations
      /\ v.calls = w.calls \union all /\ v.thunkJumps = w.thunkJumps
      /\ v.origin = InsertAll(w.origin, new)
  BY DEF Owned, WalkOK
<1> HIDE DEF v
<1>4. /\ DOMAIN v.origin = DOMAIN w.origin \union found
      /\ \A x \in DOMAIN v.origin : v.origin[x] = IF x \in found THEN x ELSE w.origin[x]
  BY <1>2, <1>3 DEF InsertAll
<1>5. OriginOK(v)
  <2>1. ASSUME NEW x \in DOMAIN v.origin
        PROVE  /\ v.origin[x] \in DOMAIN v.origin /\ v.origin[v.origin[x]] = v.origin[x]
               /\ v.origin[x] = x \/ v.origin[x] \in v.visited
    <3>1. CASE x \in found
      BY <1>4, <3>1
    <3>2. CASE x \notin found
      <4>1. x \in DOMAIN w.origin /\ v.origin[x] = w.origin[x]
        BY <1>4, <3>2
      <4>2. /\ w.origin[x] \in DOMAIN w.origin /\ w.origin[w.origin[x]] = w.origin[x]
            /\ w.origin[x] = x \/ w.origin[x] \in w.visited
        BY <4>1 DEF Owned, OriginOK
      <4> QED
        BY <1>3, <1>4, <4>1, <4>2
    <3> QED
      BY <3>1, <3>2
  <2>2. v.active \union v.visited \subseteq DOMAIN v.origin
    BY <1>3, <1>4 DEF Owned, OriginOK
  <2> QED
    BY <2>1, <2>2 DEF OriginOK
<1>6. RootsOK(v)
  BY <1>3 DEF Owned, RootsOK
<1>7. BodiesOK(v)
  <2>1. Taken(w) \subseteq Taken(v) /\ \A t \in found : t # 0 => t \in Taken(v)
    BY <1>2, <1>3 DEF Taken, Targets
  <2>2. ASSUME NEW e \in v.extents, e[1] \notin Taken(v)
        PROVE  /\ v.origin[e[1]] \in DOMAIN v.bodies
               /\ e[1] + e[2] <= v.bodies[v.origin[e[1]]]
    <3>1. e \in w.extents /\ e[1] \notin Taken(w) /\ e[1] \in w.visited /\ e[1] # 0
      BY <1>3, <2>1, <2>2 DEF Owned, BodiesOK, RootsOK
    <3>2. e[1] \notin found /\ v.origin[e[1]] = w.origin[e[1]]
      BY <1>4, <2>1, <2>2, <3>1 DEF Owned, OriginOK
    <3> QED
      BY <1>3, <3>1, <3>2 DEF Owned, BodiesOK
  <2> QED
    BY <1>3, <2>2 DEF Owned, BodiesOK
<1>8. \A o : Owns(w, o) => Owns(v, o)
  <2>1. w.visited \subseteq DOMAIN w.origin
    BY DEF Owned, OriginOK
  <2> QED
    BY <1>3, <1>4, <2>1 DEF Owns
<1>9. Owned(v)
  BY <1>3, <1>5, <1>6, <1>7 DEF Owned
<1> QED
  BY <1>1, <1>8, <1>9

\* What is to be walked for an owner is no owner of anything yet.
LEMMA OwnNew ==
  ASSUME NEW w, Owned(w), NEW o, Owns(w, o), NEW t, t \notin w.visited,
         NEW v, v = [Own(w, t, o) EXCEPT !.active = @ \union {t}]
  PROVE  Owned(v) /\ Owns(v, o)
<1>1. /\ WalkOK(v) /\ v.visited = w.visited /\ v.active = w.active \union {t}
      /\ v.bodies = w.bodies /\ v.extents = w.extents /\ v.edges = w.edges
      /\ v.thunkRoots = w.thunkRoots /\ v.continuations = w.continuations
      /\ v.calls = w.calls /\ v.thunkJumps = w.thunkJumps
      /\ v.origin = Insert(w.origin, t, o)
  BY DEF Owned, WalkOK, Own
<1>2. /\ DOMAIN v.origin = DOMAIN w.origin \union {t}
      /\ \A x \in DOMAIN v.origin : v.origin[x] = IF x = t THEN o ELSE w.origin[x]
  BY <1>1 DEF Insert
<1>3. o \in w.visited /\ o \in DOMAIN w.origin /\ w.origin[o] = o /\ o # t
  BY DEF Owns, Owned, OriginOK
<1>4. OriginOK(v)
  <2>1. ASSUME NEW x \in DOMAIN v.origin
        PROVE  /\ v.origin[x] \in DOMAIN v.origin /\ v.origin[v.origin[x]] = v.origin[x]
               /\ v.origin[x] = x \/ v.origin[x] \in v.visited
    <3>1. CASE x = t
      BY <1>1, <1>2, <1>3, <3>1
    <3>2. CASE x # t
      <4>1. x \in DOMAIN w.origin /\ v.origin[x] = w.origin[x]
        BY <1>2, <3>2
      <4>2. /\ w.origin[x] \in DOMAIN w.origin /\ w.origin[w.origin[x]] = w.origin[x]
            /\ w.origin[x] = x \/ w.origin[x] \in w.visited
        BY <4>1 DEF Owned, OriginOK
      <4> QED
        BY <1>1, <1>2, <3>2, <4>1, <4>2
    <3> QED
      BY <3>1, <3>2
  <2>2. v.active \union v.visited \subseteq DOMAIN v.origin
    BY <1>1, <1>2 DEF Owned, OriginOK
  <2> QED
    BY <2>1, <2>2 DEF OriginOK
<1>5. RootsOK(v)
  BY <1>1 DEF Owned, RootsOK
<1>6. BodiesOK(v)
  <2>1. Taken(v) = Taken(w)
    BY <1>1 DEF Taken
  <2>2. \A e \in w.extents : e[1] # t /\ v.origin[e[1]] = w.origin[e[1]]
    BY <1>2 DEF Owned, BodiesOK, OriginOK
  <2> QED
    BY <1>1, <2>1, <2>2 DEF Owned, BodiesOK
<1> QED
  BY <1>1, <1>2, <1>3, <1>4, <1>5, <1>6 DEF Owned, Owns

LEMMA ReachOwns ==
  ASSUME NEW w, Owned(w), NEW o, Owns(w, o), NEW t
  PROVE  Owned(Reach(w, t, o)) /\ Owns(Reach(w, t, o), o)
<1> DEFINE m == MergeReached(w, t, o, w.mergeable)
           n == [Own(m, t, o) EXCEPT !.active = @ \union {t}]
<1>1. Reach(w, t, o) = m \/ (t \notin w.visited /\ Reach(w, t, o) = n)
  BY DEF Reach
<1>2. Owned(m) /\ Owns(m, o)
  BY MergeOwns DEF Owns
<1>3. m.visited = w.visited
  BY MergeKeeps DEF Kept, Owned
<1> HIDE DEF m
<1>4. t \notin w.visited => Owned(n) /\ Owns(n, o)
  BY <1>2, <1>3, OwnNew
<1> HIDE DEF n
<1> QED
  BY <1>1, <1>2, <1>4

LEMMA ReachAnyOwns ==
  ASSUME NEW w, Owned(w), NEW o, Owns(w, o), NEW to
  PROVE  Owned(ReachAny(w, to, o)) /\ Owns(ReachAny(w, to, o), o)
BY ReachOwns DEF ReachAny

\* A thunk's target owns itself; only its own instruction may lose its body.
LEMMA ThunkOwns ==
  ASSUME NEW w, Owned(w), NEW a \in w.visited, NEW t
  PROVE  Owned(Thunk(w, a, t))
<1> DEFINE owner == Owner(w, a)
           root == IF owner \in DOMAIN w.thunkRoots THEN w.thunkRoots[owner] ELSE owner
           jumped == [Own(w, t, t) EXCEPT
                        !.thunkJumps = @ \union {<<a, t>>},
                        !.active = IF t \in w.visited THEN @ ELSE @ \union {t}]
           entered == [jumped EXCEPT
                        !.entries = @ \union {t},
                        !.thunkCandidates = @ \union {t},
                        !.mergeable = @ \union {t},
                        !.thunkRoots = Insert(@, t, root),
                        !.continuations = Insert(@, a + Flow(a).length, root)]
<1>1. Thunk(w, a, t) = jumped \/ Thunk(w, a, t) = entered
  BY DEF Thunk
<1>2. root \in w.visited
  BY VisitedIsOwned DEF Owned, Owns, RootsOK
<1> HIDE DEF root
<1>3. /\ WalkOK(jumped) /\ jumped.visited = w.visited
      /\ jumped.active \subseteq w.active \union {t}
      /\ jumped.bodies = w.bodies /\ jumped.extents = w.extents /\ jumped.edges = w.edges
      /\ jumped.thunkRoots = w.thunkRoots /\ jumped.continuations = w.continuations
      /\ jumped.calls = w.calls /\ jumped.thunkJumps = w.thunkJumps \union {<<a, t>>}
      /\ jumped.origin = Insert(w.origin, t, t)
  BY DEF Owned, WalkOK, Own
<1> HIDE DEF jumped
<1>4. /\ DOMAIN jumped.origin = DOMAIN w.origin \union {t}
      /\ \A x \in DOMAIN jumped.origin :
           jumped.origin[x] = IF x = t THEN t ELSE w.origin[x]
  BY <1>3 DEF Insert
<1>5. OriginOK(jumped)
  <2>1. ASSUME NEW x \in DOMAIN jumped.origin
        PROVE  /\ jumped.origin[x] \in DOMAIN jumped.origin
               /\ jumped.origin[jumped.origin[x]] = jumped.origin[x]
               /\ jumped.origin[x] = x \/ jumped.origin[x] \in jumped.visited
    <3>1. CASE x = t
      BY <1>4, <3>1
    <3>2. CASE x # t
      <4>1. x \in DOMAIN w.origin /\ jumped.origin[x] = w.origin[x]
        BY <1>4, <3>2
      <4>2. /\ w.origin[x] \in DOMAIN w.origin /\ w.origin[w.origin[x]] = w.origin[x]
            /\ w.origin[x] = x \/ w.origin[x] \in w.visited
        BY <4>1 DEF Owned, OriginOK
      <4> QED
        BY <1>3, <1>4, <4>1, <4>2
    <3> QED
      BY <3>1, <3>2
  <2>2. jumped.active \union jumped.visited \subseteq DOMAIN jumped.origin
    BY <1>3, <1>4 DEF Owned, OriginOK
  <2> QED
    BY <2>1, <2>2 DEF OriginOK
<1>6. RootsOK(jumped)
  BY <1>3 DEF Owned, RootsOK
<1>7. BodiesOK(jumped)
  <2>1. Taken(w) \subseteq Taken(jumped) /\ t \in Taken(jumped)
    BY <1>3 DEF Taken, Targets
  <2>2. \A e \in w.extents : e[1] \in DOMAIN w.origin
    BY DEF Owned, BodiesOK, OriginOK
  <2>3. \A e \in w.extents : e[1] \notin Taken(jumped) => jumped.origin[e[1]] = w.origin[e[1]]
    BY <1>4, <2>1, <2>2
  <2> QED
    BY <1>3, <2>1, <2>3 DEF Owned, BodiesOK
<1>8. Owned(jumped)
  BY <1>3, <1>5, <1>6, <1>7 DEF Owned
<1>9. Owned(entered)
  <2>1. /\ WalkOK(entered) /\ entered.visited = jumped.visited
        /\ entered.active = jumped.active /\ entered.origin = jumped.origin
        /\ entered.bodies = jumped.bodies /\ entered.extents = jumped.extents
        /\ entered.edges = jumped.edges /\ entered.calls = jumped.calls
        /\ entered.thunkJumps = jumped.thunkJumps
        /\ entered.thunkRoots = Insert(w.thunkRoots, t, root)
        /\ entered.continuations = Insert(w.continuations, a + Flow(a).length, root)
    BY <1>3 DEF WalkOK
  <2> HIDE DEF entered
  <2>2. RootsOK(entered)
    <3>1. \A x \in DOMAIN entered.thunkRoots : entered.thunkRoots[x] \in w.visited
      BY <1>2, <2>1 DEF Insert, Owned, RootsOK
    <3>2. \A x \in DOMAIN entered.continuations : entered.continuations[x] \in w.visited
      BY <1>2, <2>1 DEF Insert, Owned, RootsOK
    <3> QED
      BY <1>3, <1>6, <2>1, <3>1, <3>2 DEF RootsOK
  <2> QED
    BY <1>5, <1>7, <2>1, <2>2 DEF Owned, OriginOK, BodiesOK, Taken
<1> HIDE DEF jumped, entered
<1> QED
  BY <1>1, <1>8, <1>9

\* An instruction that was visited is walked so.
LEMMA InstructionOwns ==
  ASSUME NEW w, Owned(w), IsFiniteSet(DOMAIN w.thunkRoots),
         NEW a \in w.visited, a \in Int, Flow(a).length \in Int
  PROVE  Owned(Instruction(w, a))
<1> DEFINE landed == Landing(w, a)
           demoted == Demote(landed, a)
           here == Record(demoted, a)
           owner == Owner(here, a)
           called == Calls(here, a)
           jumps == Flow(a).kind \in {"branch", "cbranch"}
           followed == IF jumps THEN ReachAny(called, Flow(a).first, owner) ELSE called
           fallen == ReachAny(followed, Flow(a).fall, owner)
<1>1. \/ Instruction(w, a) = Thunk(called, a, thunks[a])
      \/ Instruction(w, a) = followed
      \/ Instruction(w, a) = fallen
  BY DEF Instruction
<1>2. Owned(landed) /\ Kept(w, landed)
  BY LandingOwns, LandingKeeps DEF Owned
<1> HIDE DEF landed
<1>3. Owned(demoted) /\ a \in demoted.visited
  <2>1. IsFiniteSet(DOMAIN landed.thunkRoots) /\ WalkOK(landed)
    BY <1>2 DEF Kept
  <2>2. Kept(landed, demoted)
    BY <2>1, DemoteKeeps
  <2>3. Owned(demoted)
    BY <1>2, <2>1, DemoteOwns
  <2> HIDE DEF demoted
  <2> QED
    BY <1>2, <2>2, <2>3 DEF Kept
<1> HIDE DEF demoted
<1>4. Owned(here) /\ a \in here.visited
  <2>1. Recorded(demoted, here, a)
    BY <1>3, RecordDoes DEF Owned
  <2>2. Owned(here)
    BY <1>3, RecordOwns
  <2> QED
    BY <1>3, <2>1, <2>2 DEF Recorded
<1> HIDE DEF here
<1>5. Owns(here, owner)
  BY <1>4, VisitedIsOwned DEF Owned
<1> HIDE DEF owner
<1>6. Owned(called) /\ Owns(called, owner) /\ a \in called.visited
  <2>1. WalkOK(here)
    BY <1>4 DEF Owned
  <2>2. called.visited = here.visited
    BY <2>1, CallsDo
  <2>3. Owned(called) /\ Owns(called, owner)
    BY <1>4, <1>5, CallsOwn
  <2> QED
    BY <1>4, <2>2, <2>3
<1> HIDE DEF called
<1>7. Owned(followed) /\ Owns(followed, owner)
  BY <1>6, ReachAnyOwns
<1> HIDE DEF followed
<1>8. Owned(fallen)
  BY <1>7, ReachAnyOwns
<1>9. Owned(Thunk(called, a, thunks[a]))
  BY <1>6, ThunkOwns
<1> HIDE DEF fallen
<1> QED
  BY <1>1, <1>7, <1>8, <1>9

\* A rejection keeps owners and bodies.
LEMMA RejectOwns ==
  ASSUME NEW r, Owned(r.walk), r.walk.visited \in SUBSET Int, IsFiniteSet(r.walk.visited),
         NEW c, NEW established
  PROVE  Owned(Reject(c, r, established).walk)
<1> DEFINE w == r.walk
           owners == {o \in {Owner(w, e[2]) : e \in {d \in w.edges : d[1] = c}} :
                        o # c /\ o \notin r.rejected}
           owner == IF owners \intersect established # {}
                    THEN Min(owners \intersect established) ELSE Min(owners)
           out == r.rejected \union {c}
           merged == MergeReached(w, c, owner, out)
<1>1. owners \subseteq w.visited
  BY VisitedIsOwned DEF Owned, RootsOK, Owns
<1>2. \/ Reject(c, r, established) = r
      \/ Reject(c, r, established) = [rejected |-> out, walk |-> w]
      \/ owners # {} /\ Reject(c, r, established) = [rejected |-> out, walk |-> merged]
  BY DEF Reject
<1> HIDE DEF owners
<1>3. owners # {} => owner \in w.visited
  <2>1. \A S \in SUBSET owners : S # {} => Min(S) \in w.visited
    <3> SUFFICES ASSUME NEW S \in SUBSET owners, S # {} PROVE Min(S) \in w.visited
      OBVIOUS
    <3>1. S \in SUBSET w.visited /\ S \in SUBSET Int
      BY <1>1
    <3>2. IsFiniteSet(S)
      BY <3>1, FS_Subset
    <3> QED
      BY <3>1, <3>2, EndsOfSet
  <2> QED
    BY <2>1
<1> HIDE DEF owner
<1>4. owners # {} => Owned(merged)
  BY <1>3, MergeOwns
<1> HIDE DEF merged
<1> QED
  BY <1>2, <1>4

\* So does a pass of them.
LEMMA PassOwns ==
  ASSUME NEW n \in Nat, NEW q, DOMAIN q = 1 .. n, NEW base, PassOK(base), Owned(base.walk),
         base.walk.visited \in SUBSET Int, IsFiniteSet(base.walk.visited), NEW established
  PROVE  Owned(Rejects(established, base, q).walk)
<1>0. PICK g : RejectTurns(g, established, base, q, n)
  BY RejectsFold
<1>1. /\ g[1 .. 0] = base
      /\ \A k \in 1 .. n : g[1 .. k] = Reject(q[k], g[1 .. (k - 1)], established)
      /\ g[1 .. n] = Rejects(established, base, q)
  BY <1>0 DEF RejectTurns
<1> DEFINE Good(k) == /\ Owned(g[1 .. k].walk) /\ PassOK(g[1 .. k])
                      /\ g[1 .. k].walk.visited = base.walk.visited
           Bad == {k \in 0 .. n : ~ Good(k)}
<1>2. Good(0)
  BY <1>1
<1>3. ASSUME NEW k \in 1 .. n, Good(k - 1) PROVE Good(k)
  <2> DEFINE r == g[1 .. (k - 1)]
             u == g[1 .. k]
  <2>1. Owned(r.walk) /\ PassOK(r) /\ r.walk.visited = base.walk.visited
    BY <1>3
  <2>2. u = Reject(q[k], r, established)
    BY <1>1
  <2> HIDE DEF r, u
  <2>3. Rejected(r, u, {q[k]})
    BY <2>1, <2>2, RejectDoes
  <2>4. Owned(u.walk)
    BY <2>1, <2>2, RejectOwns
  <2>5. PassOK(u) /\ u.walk.visited = base.walk.visited
    BY <2>1, <2>3 DEF Rejected, Kept
  <2> QED
    BY <2>4, <2>5 DEF u
<1>4. Bad = {}
  <2> HIDE DEF Good
  <2> SUFFICES ASSUME Bad # {} PROVE FALSE
    OBVIOUS
  <2>1. PICK k \in Bad : \A m \in Bad : k <= m
    <3>1. Bad \in SUBSET Nat
      OBVIOUS
    <3> HIDE DEF Bad
    <3> QED
      BY <3>1, LeastNumber
  <2>2. k \in 1 .. n /\ k - 1 \in 0 .. n /\ ~ (k <= k - 1)
    BY <1>2, <2>1
  <2>3. Good(k - 1)
    BY <2>1, <2>2
  <2> QED
    BY <1>3, <2>1, <2>2, <2>3
<1>5. Good(n)
  <2> HIDE DEF Good
  <2> QED
    BY <1>4
<1> QED
  BY <1>1, <1>5

-----------------------------------------------------------------------------
(* Owners once linkage stubs are promoted. *)

\* A promotion lets what it names own itself, and leaves the rest as it was; those of
\* a list in ascending order take nothing from each other.
Lifted(o, v, P) ==
  /\ DOMAIN o \subseteq DOMAIN v /\ P \subseteq DOMAIN v
  /\ \A p \in P : v[p] = p
  /\ \A x \in DOMAIN v : v[x] \in P \/ (x \in DOMAIN o /\ v[x] = o[x])

\* Within one link, and within two, every address ends at one that owns itself.
EndsAtOnce(o) == \A x \in DOMAIN o : o[x] \in DOMAIN o /\ o[o[x]] = o[x]
EndsInTwo(o) == \A x \in DOMAIN o : o[x] \in DOMAIN o /\ o[o[x]] \in DOMAIN o
                                    /\ o[o[o[x]]] = o[o[x]]

\* An address is owned by an address.
OwnedByInts(o) == \A x \in DOMAIN o : x \in Int => o[x] \in Int

LEMMA LiftedInts ==
  ASSUME NEW o, OwnedByInts(o), NEW v, NEW P \in SUBSET Int, Lifted(o, v, P)
  PROVE  OwnedByInts(v)
BY DEF OwnedByInts, Lifted

LEMMA EndsAtOnceEnds ==
  ASSUME NEW o, EndsAtOnce(o)
  PROVE  EndSoon(o) /\ \A x \in DOMAIN o : End(o, x) = o[x]
<1>1. \A x \in DOMAIN o : End(o, x) = o[x]
  BY DEF EndsAtOnce, End, Link
<1> QED
  BY <1>1 DEF EndSoon, EndsAtOnce

LEMMA LiftedFromOne ==
  ASSUME NEW o, EndsAtOnce(o), NEW v, NEW P, Lifted(o, v, P)
  PROVE  EndsInTwo(v)
<1> SUFFICES ASSUME NEW x \in DOMAIN v
             PROVE  v[x] \in DOMAIN v /\ v[v[x]] \in DOMAIN v /\ v[v[v[x]]] = v[v[x]]
  BY DEF EndsInTwo
<1>1. CASE v[x] \in P
  BY <1>1 DEF Lifted
<1>2. CASE v[x] \notin P
  <2>1. x \in DOMAIN o /\ v[x] = o[x] /\ o[x] \in DOMAIN o /\ o[o[x]] = o[x] /\ o[x] \in DOMAIN v
    BY <1>2 DEF Lifted, EndsAtOnce
  <2>2. v[o[x]] \in P \/ v[o[x]] = o[x]
    BY <2>1 DEF Lifted
  <2> QED
    BY <2>1, <2>2 DEF Lifted
<1> QED
  BY <1>1, <1>2

LEMMA LiftedFromTwo ==
  ASSUME NEW o, EndsInTwo(o), NEW v, NEW P, Lifted(o, v, P)
  PROVE  EndSoon(v)
<1> SUFFICES ASSUME NEW x \in DOMAIN v
             PROVE  End(v, x) \in DOMAIN v /\ v[End(v, x)] = End(v, x)
  BY DEF EndSoon
<1>0. \A y \in DOMAIN v : y \in P => Link(v, y) = y
  BY DEF Lifted, Link
<1>1. CASE v[x] \in P
  <2>1. End(v, x) = v[x]
    BY <1>0, <1>1 DEF End, Link, Lifted
  <2> QED
    BY <1>1, <2>1 DEF Lifted
<1>2. CASE v[x] \notin P
  <2> DEFINE y == o[x]
             z == o[y]
  <2>1. x \in DOMAIN o /\ v[x] = y /\ y \in DOMAIN o /\ z \in DOMAIN o /\ o[z] = z
        /\ y \in DOMAIN v /\ z \in DOMAIN v
    BY <1>2 DEF Lifted, EndsInTwo
  <2> HIDE DEF y
  <2>2. Link(v, x) = y /\ Link(v, y) = v[y]
    BY <2>1 DEF Link
  <2>3. v[y] \in P \/ v[y] = z
    BY <2>1 DEF Lifted
  <2>4. CASE v[y] \in P
    <3>1. End(v, x) = v[y]
      BY <1>0, <2>2, <2>4 DEF End, Lifted
    <3> QED
      BY <2>4, <3>1 DEF Lifted
  <2>5. CASE v[y] = z
    <3>1. End(v, x) = v[z]
      BY <2>1, <2>2, <2>5 DEF End, Link
    <3>2. v[z] \in P \/ v[z] = z
      BY <2>1 DEF Lifted
    <3> QED
      BY <2>1, <3>1, <3>2 DEF Lifted
  <2> QED
    BY <2>3, <2>4, <2>5
<1> QED
  BY <1>1, <1>2

\* A promotion at an address above those promoted before.
AllBelow(P, t) == P \subseteq Int /\ \A x \in P : x < t
LiftedUpTo(o, v, P, t) == \E Q \in SUBSET (P \union {t}) : Lifted(o, v, Q)

LEMMA PromoteLifts ==
  ASSUME NEW p, PromotingOK(p), NEW t \in Int, NEW slot, NEW o, NEW P,
         Lifted(o, p.walk.origin, P), AllBelow(P, t)
  PROVE  LiftedUpTo(o, PromoteLinkage(p, t, slot).walk.origin, P, t)
<1> DEFINE length == program.linkages[t].length
           own == {k[1] : k \in {l \in p.walk.extents : t <= l[1] /\ l[1] - t < length}}
           to == [a \in own \union {t} |-> t]
           walked == [p.walk EXCEPT !.entries = @ \union {t}, !.origin = InsertAll(@, to)]
           new == [functions |-> Insert(p.functions, t, length), walk |-> walked,
                   changed |-> TRUE]
           v == p.walk.origin
           u == InsertAll(v, to)
<1>1. PromoteLinkage(p, t, slot) = p \/ PromoteLinkage(p, t, slot) = new
  BY DEF PromoteLinkage
<1>2. \A a \in own : t <= a
  OBVIOUS
<1> HIDE DEF own, length
<1>3. DOMAIN to = own \union {t} /\ \A a \in own \union {t} : to[a] = t
  OBVIOUS
<1> HIDE DEF to
<1>4. DOMAIN u = DOMAIN v \union own \union {t}
      /\ \A x \in DOMAIN u : u[x] = IF x \in own \union {t} THEN t ELSE v[x]
  BY <1>3 DEF InsertAll
<1>5. new.walk.origin = u
  BY DEF PromotingOK, WalkOK
<1> HIDE DEF u, v, new
<1>6. \A x \in P : x \notin own \union {t}
  <2> SUFFICES ASSUME NEW x \in P, x \in own \union {t} PROVE FALSE
    OBVIOUS
  <2>1. x \in Int /\ x < t
    BY DEF AllBelow
  <2>2. t <= x
    BY <1>2, <2>1
  <2> QED
    BY <2>1, <2>2
<1>7. Lifted(o, v, P)
  BY DEF v
<1>8. Lifted(o, u, P \union {t})
  <2>1. DOMAIN o \subseteq DOMAIN u /\ P \union {t} \subseteq DOMAIN u
    BY <1>4, <1>7 DEF Lifted
  <2>2. \A x \in P \union {t} : u[x] = x
    BY <1>4, <1>6, <1>7, <2>1 DEF Lifted
  <2>3. \A x \in DOMAIN u : u[x] \in P \union {t} \/ (x \in DOMAIN o /\ u[x] = o[x])
    BY <1>4, <1>7 DEF Lifted
  <2> QED
    BY <2>1, <2>2, <2>3 DEF Lifted
<1> QED
  BY <1>1, <1>5, <1>7, <1>8 DEF v, LiftedUpTo

LEMMA TurnLifts ==
  ASSUME NEW p, PromotingOK(p), NEW t \in Int, NEW o, NEW P,
         Lifted(o, p.walk.origin, P), AllBelow(P, t), NEW f, f.of \in {"promote", "context"}
  PROVE  LiftedUpTo(o, Turn(f, t, p).walk.origin, P, t)
<1>1. CASE f.of = "promote"
  <2>1. Turn(f, t, p) = PromoteLinkage(p, t, program.linkages[t].slot)
    BY <1>1 DEF Turn
  <2> QED
    BY <2>1, PromoteLifts
<1>2. CASE f.of = "context"
  <2> DEFINE slot == CHOOSE s \in ContextSlot(p.walk, t) : TRUE
  <2>1. Turn(f, t, p) = p \/ Turn(f, t, p) = PromoteLinkage(p, t, slot)
    BY <1>2 DEF Turn
  <2>2. LiftedUpTo(o, PromoteLinkage(p, t, slot).walk.origin, P, t)
    <3> HIDE DEF slot
    <3> QED
      BY PromoteLifts
  <2>3. LiftedUpTo(o, p.walk.origin, P, t)
    BY DEF LiftedUpTo
  <2> HIDE DEF slot
  <2> QED
    BY <2>1, <2>2, <2>3
<1> QED
  BY <1>1, <1>2

LEMMA LiftedByNone == ASSUME NEW o PROVE Lifted(o, o, {})
BY DEF Lifted

\* So over a list in ascending order what was promoted stays its own.
LEMMA TurnsLift ==
  ASSUME NEW n \in Nat, NEW q, \A k \in 1 .. n : q[k] \in Int,
         \A i, j \in 1 .. n : i < j => q[i] < q[j], NEW base, PromotingOK(base),
         NEW f, f.of \in {"promote", "context"}, NEW g, InTurns(g, f, base, q, n)
  PROVE  \E P \in SUBSET Int : Lifted(base.walk.origin, g[1 .. n].walk.origin, P)
<1> DEFINE o == base.walk.origin
           T(k) == {q[i] : i \in 1 .. k}
           Good(k) == /\ PromotingOK(g[1 .. k])
                      /\ \E P \in SUBSET T(k) : Lifted(o, g[1 .. k].walk.origin, P)
           Bad == {k \in 0 .. n : ~ Good(k)}
<1>1. Good(0)
  <2>1. g[1 .. 0] = base
    BY DEF InTurns
  <2> HIDE DEF T
  <2>2. {} \in SUBSET T(0)
    OBVIOUS
  <2> QED
    BY <2>1, <2>2, LiftedByNone
<1>2. ASSUME NEW k \in 1 .. n, Good(k - 1) PROVE Good(k)
  <2> DEFINE r == g[1 .. (k - 1)]
             u == g[1 .. k]
  <2>1. PICK P \in SUBSET T(k - 1) : Lifted(o, r.walk.origin, P)
    BY <1>2
  <2>2. PromotingOK(r)
    BY <1>2
  <2>3. u = Turn(f, q[k], r) /\ q[k] \in Int
    BY DEF InTurns
  <2>4. AllBelow(P, q[k])
    <3>1. \A i \in 1 .. (k - 1) : i \in 1 .. n /\ i < k
      OBVIOUS
    <3>2. \A x \in P : \E i \in 1 .. (k - 1) : x = q[i]
      OBVIOUS
    <3> QED
      BY <3>1, <3>2 DEF AllBelow
  <2>5. T(k) = T(k - 1) \union {q[k]}
    <3>1. \A i : i \in 1 .. k <=> i \in 1 .. (k - 1) \/ i = k
      OBVIOUS
    <3> QED
      BY <3>1
  <2> HIDE DEF r, u, T, o
  <2>6. LiftedUpTo(o, u.walk.origin, P, q[k])
    <3>1. LiftedUpTo(o, Turn(f, q[k], r).walk.origin, P, q[k])
      <4>1. q[k] \in Int /\ PromotingOK(r) /\ AllBelow(P, q[k]) /\ Lifted(o, r.walk.origin, P)
        BY <2>1, <2>2, <2>3, <2>4
      <4>2. f.of \in {"promote", "context"}
        OBVIOUS
      <4> HIDE DEF Good, Bad
      <4>3. \A X : Lifted(o, r.walk.origin, X) /\ AllBelow(X, q[k])
                     => LiftedUpTo(o, Turn(f, q[k], r).walk.origin, X, q[k])
        BY <4>1, <4>2, TurnLifts
      <4> QED
        BY <4>1, <4>3
    <3> QED
      BY <2>3, <3>1
  <2>7. PromotingOK(u)
    <3>1. PromotedBy(f, r, u, {q[k]})
      BY <2>2, <2>3, TurnPromotes
    <3> QED
      BY <3>1 DEF PromotedBy, Promoted
  <2>8. \E Q \in SUBSET T(k) : Lifted(o, u.walk.origin, Q)
    BY <2>5, <2>6 DEF LiftedUpTo
  <2> QED
    BY <2>7, <2>8 DEF u
<1>3. Bad = {}
  <2> HIDE DEF Good
  <2> SUFFICES ASSUME Bad # {} PROVE FALSE
    OBVIOUS
  <2>1. PICK k \in Bad : \A m \in Bad : k <= m
    <3>1. Bad \in SUBSET Nat
      OBVIOUS
    <3> HIDE DEF Bad
    <3> QED
      BY <3>1, LeastNumber
  <2>2. k \in 1 .. n /\ k - 1 \in 0 .. n /\ ~ (k <= k - 1)
    BY <1>1, <2>1
  <2>3. Good(k - 1)
    BY <2>1, <2>2
  <2> QED
    BY <1>2, <2>1, <2>2, <2>3
<1>4. Good(n)
  <2> HIDE DEF Good
  <2> QED
    BY <1>3
<1>5. T(n) \in SUBSET Int
  OBVIOUS
<1> QED
  BY <1>4, <1>5

LEMMA BothLift ==
  ASSUME NEW S \in SUBSET Int, IsFiniteSet(S), NEW base, PromotingOK(base)
  PROVE  /\ \E P \in SUBSET Int :
              Lifted(base.walk.origin, Promotions(base, InOrder(S)).walk.origin, P)
         /\ \E P \in SUBSET Int :
              Lifted(base.walk.origin, ContextPromotions(base, InOrder(S)).walk.origin, P)
<1> DEFINE n == Cardinality(S)
           q == InOrder(S)
<1>1. /\ n \in Nat /\ DOMAIN q = 1 .. n /\ \A k \in 1 .. n : q[k] \in Int
      /\ \A i, j \in 1 .. n : i < j => q[i] < q[j]
  <2>1. n \in Nat /\ q \in [1 .. n -> S]
    BY InOrderLists
  <2>2. \A i, j \in 1 .. n : i < j => q[i] < q[j]
    BY InOrderAscends
  <2> HIDE DEF n, q
  <2> QED
    BY <2>1, <2>2
<1> HIDE DEF n, q
<1>2. PICK g : InTurns(g, [of |-> "promote"], base, q, n) /\ g[1 .. n] = Promotions(base, q)
  BY <1>1, PromotionsFold
<1>3. PICK h : /\ InTurns(h, [of |-> "context"], base, q, n)
               /\ h[1 .. n] = ContextPromotions(base, q)
  BY <1>1, ContextPromotionsFold
<1>4. \E P \in SUBSET Int : Lifted(base.walk.origin, g[1 .. n].walk.origin, P)
  <2> DEFINE f == [of |-> "promote"]
  <2>1. f.of \in {"promote", "context"} /\ InTurns(g, f, base, q, n)
    BY <1>2
  <2> HIDE DEF f
  <2> QED
    BY <1>1, <2>1, TurnsLift
<1>5. \E P \in SUBSET Int : Lifted(base.walk.origin, h[1 .. n].walk.origin, P)
  <2> DEFINE f == [of |-> "context"]
  <2>1. f.of \in {"promote", "context"} /\ InTurns(h, f, base, q, n)
    BY <1>3
  <2> HIDE DEF f
  <2> QED
    BY <1>1, <2>1, TurnsLift
<1> QED
  BY <1>2, <1>3, <1>4, <1>5 DEF q

-----------------------------------------------------------------------------
(* Owners and bodies, from step to step. *)

\* Every call's target in code is an entry.
CallsOK(w) == \A p \in w.calls : InCode(p[2]) => p[2] \in w.entries

\* In the end the body of an address's owner covers its instruction.
CoveredOK(w) ==
  /\ IsFiniteSet(DOMAIN w.bodies) /\ \A b \in DOMAIN w.bodies : w.bodies[b] \in Int
  /\ \A e \in w.extents : e[1] \in Int /\ e[2] \in Int /\ Owner(w, e[1]) \in Int
  /\ \A e \in w.extents : e[1] \notin Taken(w) =>
       /\ Owner(w, e[1]) \in DOMAIN w.bodies
       /\ e[1] + e[2] <= w.bodies[Owner(w, e[1])]

\* What is rejected is no call's target, since nothing is walked any more.
RejectedOK ==
  /\ starts.rejected \intersect Targets(walk.calls) = {}
  /\ \/ starts.rejected = {}
     \/ phase \in {"linkages", "finish", "done", "error"}
     \/ phase = "patterns" /\ Walked

OwnersInv ==
  /\ phase \in {"sweep", "start"} => walk = [NoWalk EXCEPT !.candidates = walk.candidates]
  /\ phase \in {"seeds", "relocs", "patterns", "linkages"} => Owned(walk)
  /\ phase \notin {"done", "error"} => CallsOK(walk)
  /\ phase = "finish" => CoveredOK(walk)
  /\ EndSoon(walk.origin)
  /\ RejectedOK
  /\ BodiesCover

LEMMA OwnedEnds == ASSUME NEW w, Owned(w) PROVE EndSoon(w.origin)
<1>1. EndsAtOnce(w.origin)
  BY DEF Owned, OriginOK, EndsAtOnce
<1> QED
  BY <1>1, EndsAtOnceEnds

\* What does not touch owners and bodies.
SameOwners(w, v) ==
  /\ WalkOK(v)
  /\ v.origin = w.origin /\ v.bodies = w.bodies /\ v.visited = w.visited
  /\ v.active = w.active /\ v.extents = w.extents /\ v.calls = w.calls
  /\ v.thunkJumps = w.thunkJumps /\ v.thunkRoots = w.thunkRoots
  /\ v.continuations = w.continuations /\ v.edges = w.edges

LEMMA SameOwns ==
  ASSUME NEW w, Owned(w), NEW v, SameOwners(w, v)
  PROVE  Owned(v)
BY DEF SameOwners, Owned, OriginOK, RootsOK, BodiesOK, Taken

LEMMA NothingEnds == EndSoon(<<>>)
BY DEF EndSoon

LEMMA OwnersInit == ASSUME Init PROVE OwnersInv
<1>1. /\ walk = NoWalk /\ phase \in {"sweep", "start"} /\ starts.rejected = {}
  BY DEF Init
<1>2. walk = [NoWalk EXCEPT !.candidates = walk.candidates]
  BY <1>1 DEF NoWalk
<1>3. walk.calls = {} /\ walk.origin = <<>>
  BY <1>1 DEF NoWalk
<1> QED
  BY <1>1, <1>2, <1>3, NothingEnds DEF OwnersInv, CallsOK, RejectedOK, BodiesCover

LEMMA OwnersSweep == ASSUME OwnersInv, Sweep PROVE OwnersInv'
<1>1. /\ phase = "sweep" /\ phase' = "start" /\ starts' = starts
  BY DEF Sweep
<1>2. \E s : walk' = [walk EXCEPT !.candidates = s]
  BY Zenon DEF Sweep
<1>3. walk = [NoWalk EXCEPT !.candidates = walk.candidates] /\ RejectedOK
  BY <1>1 DEF OwnersInv
<1>4. walk' = [NoWalk EXCEPT !.candidates = walk'.candidates]
  BY <1>2, <1>3 DEF NoWalk
<1>5. walk'.calls = {} /\ walk'.origin = <<>> /\ starts'.rejected = {}
  BY <1>1, <1>3, <1>4 DEF NoWalk, RejectedOK
<1> QED
  BY <1>1, <1>4, <1>5, NothingEnds DEF OwnersInv, CallsOK, RejectedOK, BodiesCover

\* The first entries own themselves.
LEMMA OwnersStart == ASSUME ShapeInv, OwnersInv, Start PROVE OwnersInv'
<1>1. phase = "start" /\ phase' = "seeds" /\ starts' = starts
  BY DEF Start
<1>2. PICK seeds : walk' = [walk EXCEPT !.entries = seeds, !.active = seeds,
                                        !.origin = [f \in seeds |-> f]]
  BY Zenon DEF Start
<1>3. walk = [NoWalk EXCEPT !.candidates = walk.candidates] /\ RejectedOK
  BY <1>1 DEF OwnersInv
<1>4. /\ WalkOK(walk') /\ walk'.origin = [f \in seeds |-> f] /\ walk'.active = seeds
      /\ walk'.visited = {} /\ walk'.bodies = <<>> /\ walk'.extents = {} /\ walk'.calls = {}
      /\ walk'.thunkRoots = <<>> /\ walk'.continuations = <<>> /\ walk'.edges = {}
  BY <1>2, <1>3 DEF NoWalk, WalkOK
<1>5. IsFiniteSet({}) /\ DOMAIN <<>> = {}
  BY FS_EmptySet
<1>6. OriginOK(walk')
  BY <1>4 DEF OriginOK
<1>7. RootsOK(walk')
  BY <1>4, <1>5 DEF RootsOK
<1>8. BodiesOK(walk')
  BY <1>4, <1>5 DEF BodiesOK
<1>9. Owned(walk')
  BY <1>4, <1>6, <1>7, <1>8 DEF Owned
<1>10. starts'.rejected = {}
  BY <1>1, <1>3 DEF RejectedOK
<1> QED
  BY <1>1, <1>4, <1>9, <1>10, OwnedEnds DEF OwnersInv, CallsOK, RejectedOK, BodiesCover

\* A round visits what had an owner.
LEMMA OwnersRound == ASSUME ShapeInv, OwnersInv, Round PROVE OwnersInv'
<1>1. /\ Walking /\ phase' = phase /\ starts' = starts /\ program' = program
      /\ ToQuery(walk) # {}
  BY DEF Round
<1>2. Owned(walk) /\ CallsOK(walk) /\ RejectedOK
  BY <1>1 DEF OwnersInv, Walking
<1>3. walk' = [walk EXCEPT !.visited = @ \union ToQuery(walk), !.active = {}]
  BY DEF Round
<1>4. /\ WalkOK(walk') /\ walk'.origin = walk.origin /\ walk'.bodies = walk.bodies
      /\ walk'.visited = walk.visited \union ToQuery(walk) /\ walk'.active = {}
      /\ walk'.extents = walk.extents /\ walk'.calls = walk.calls
      /\ walk'.entries = walk.entries
      /\ walk'.thunkJumps = walk.thunkJumps /\ walk'.thunkRoots = walk.thunkRoots
      /\ walk'.continuations = walk.continuations /\ walk'.edges = walk.edges
  BY <1>3 DEF ShapeInv, WalkOK
<1>5. ToQuery(walk) \subseteq walk.active /\ 0 \notin ToQuery(walk)
  BY DEF ToQuery
<1>6. OriginOK(walk')
  BY <1>2, <1>4, <1>5 DEF Owned, OriginOK
<1>7. RootsOK(walk')
  BY <1>2, <1>4, <1>5 DEF Owned, RootsOK
<1>8. BodiesOK(walk')
  <2>1. Taken(walk') = Taken(walk)
    BY <1>4 DEF Taken
  <2> QED
    BY <1>2, <1>4, <2>1 DEF Owned, BodiesOK
<1>9. Owned(walk')
  BY <1>4, <1>6, <1>7, <1>8 DEF Owned
<1>10. starts.rejected = {}
  BY <1>1, <1>2 DEF RejectedOK, Walked, Walking
<1>11. CallsOK(walk)'
  BY <1>1, <1>2, <1>4 DEF CallsOK, InCode
<1> QED
  BY <1>1, <1>9, <1>10, <1>11, OwnedEnds DEF OwnersInv, RejectedOK, BodiesCover, Walking

LEMMA OwnersQuery == ASSUME ShapeInv, OwnersInv, QueryChunk PROVE OwnersInv'
<1>1. /\ Walking /\ phase' = phase /\ starts' = starts /\ program' = program
      /\ queue # <<>>
  BY DEF QueryChunk
<1>2. Owned(walk) /\ CallsOK(walk) /\ RejectedOK
  BY <1>1 DEF OwnersInv, Walking
<1>3. \E s : walk' = [walk EXCEPT !.linkage = s] \/ walk' = walk
  BY Zenon DEF QueryChunk
<1>4. SameOwners(walk, walk') /\ walk'.entries = walk.entries
  BY <1>3 DEF ShapeInv, WalkOK, SameOwners
<1>5. Owned(walk')
  BY <1>2, <1>4, SameOwns
<1>6. starts.rejected = {}
  BY <1>1, <1>2 DEF RejectedOK, Walked, Walking
<1>7. CallsOK(walk)'
  BY <1>1, <1>2, <1>4 DEF CallsOK, InCode, SameOwners
<1> QED
  BY <1>1, <1>5, <1>6, <1>7, OwnedEnds DEF OwnersInv, RejectedOK, BodiesCover, Walking

\* An instruction that is walked was visited.
LEMMA OwnersWalk == ASSUME ShapeInv, ReachInv, OwnersInv, WalkInstruction PROVE OwnersInv'
<1> DEFINE a == Head(chunk)
<1>1. /\ Walking /\ phase' = phase /\ starts' = starts /\ program' = program
      /\ chunk # <<>> /\ walk' = Instruction(walk, a)
  BY DEF WalkInstruction
<1>2. Owned(walk) /\ CallsOK(walk) /\ RejectedOK
  BY <1>1 DEF OwnersInv, Walking
<1>3. a \in Code(program) /\ a \in ToSet(chunk) /\ Steps(walk, walk', a)
  BY WalkDoes
<1> HIDE DEF a
<1>4. a \in walk.visited
  BY <1>3 DEF ReachInv, VisitsAreWalked
<1>5. a \in Int /\ Flow(a).length \in Int
  <2>1. a \in Int /\ a \in DOMAIN program.flow
    BY <1>3, CodeIsFinite DEF ShapeInv, Code
  <2>2. program.flow[a].length \in Nat
    BY <2>1 DEF ShapeInv, Sound
  <2> QED
    BY <2>1, <2>2 DEF Flow
<1>6. Owned(walk')
  BY <1>1, <1>2, <1>4, <1>5, InstructionOwns DEF ShapeInv
<1>7. starts.rejected = {}
  BY <1>1, <1>2 DEF RejectedOK, Walked, Walking
<1>8. CallsOK(walk)'
  <2> SUFFICES ASSUME NEW p \in walk'.calls, InCode(p[2]) PROVE p[2] \in walk'.entries
    BY <1>1 DEF CallsOK, InCode
  <2>1. CASE p \in walk.calls
    BY <1>2, <1>3, <2>1 DEF CallsOK, Steps
  <2>2. CASE p \in CallsOf(a)
    <3>1. Flow(a).kind = "call" /\ p[2] \in Flow(a).targets
      BY <2>2 DEF CallsOf
    <3> QED
      BY <1>3, <3>1 DEF Steps
  <2> QED
    BY <1>3, <2>1, <2>2 DEF Steps
<1> QED
  BY <1>1, <1>6, <1>7, <1>8, OwnedEnds DEF OwnersInv, RejectedOK, BodiesCover, Walking

\* The confirmed candidates own themselves.
LEMMA OwnersEnter ==
  ASSUME ShapeInv, OwnersInv, ConfirmCandidates \/ ConfirmPatterns
  PROVE  OwnersInv'
<1>1. /\ phase \in {"seeds", "relocs"} /\ phase' \in {"relocs", "patterns"}
      /\ program' = program /\ starts.rejected = {} /\ starts'.rejected = {}
  <2>1. phase \in {"seeds", "relocs"} /\ phase' \in {"relocs", "patterns"}
        /\ program' = program
    BY DEF ConfirmCandidates, ConfirmPatterns
  <2>2. starts.rejected = {}
    BY <2>1 DEF OwnersInv, RejectedOK
  <2>3. starts' = starts \/ starts'.rejected = {}
    BY PatternsDo DEF ConfirmCandidates
  <2> QED
    BY <2>1, <2>2, <2>3
<1>2. Owned(walk) /\ CallsOK(walk)
  BY <1>1 DEF OwnersInv
<1>3. PICK found, m : walk' = Enter(walk, found, m) /\ found \intersect walk.visited = {}
  BY FoundAreNew
<1>4. /\ WalkOK(walk') /\ walk'.bodies = walk.bodies
      /\ walk'.visited = walk.visited /\ walk'.active = found
      /\ walk'.extents = walk.extents /\ walk'.calls = walk.calls
      /\ walk'.entries = walk.entries \union found
      /\ walk'.thunkJumps = walk.thunkJumps /\ walk'.thunkRoots = walk.thunkRoots
      /\ walk'.continuations = walk.continuations /\ walk'.edges = walk.edges
      /\ walk'.origin = InsertAll(walk.origin, [c \in found |-> c])
  BY <1>3 DEF ShapeInv, WalkOK, Enter
<1>5. /\ DOMAIN walk'.origin = DOMAIN walk.origin \union found
      /\ \A x \in DOMAIN walk'.origin :
           walk'.origin[x] = IF x \in found THEN x ELSE walk.origin[x]
  BY <1>4 DEF InsertAll
<1>6. OriginOK(walk')
  <2>1. ASSUME NEW x \in DOMAIN walk'.origin
        PROVE  /\ walk'.origin[x] \in DOMAIN walk'.origin
               /\ walk'.origin[walk'.origin[x]] = walk'.origin[x]
               /\ walk'.origin[x] = x \/ walk'.origin[x] \in walk'.visited
    <3>1. CASE x \in found
      BY <1>5, <3>1
    <3>2. CASE x \notin found
      <4>1. x \in DOMAIN walk.origin /\ walk'.origin[x] = walk.origin[x]
        BY <1>5, <3>2
      <4>2. /\ walk.origin[x] \in DOMAIN walk.origin
            /\ walk.origin[walk.origin[x]] = walk.origin[x]
            /\ walk.origin[x] = x \/ walk.origin[x] \in walk.visited
        BY <1>2, <4>1 DEF Owned, OriginOK
      <4> QED
        BY <1>4, <1>5, <4>1, <4>2
    <3> QED
      BY <3>1, <3>2
  <2>2. walk'.active \union walk'.visited \subseteq DOMAIN walk'.origin
    BY <1>2, <1>4, <1>5 DEF Owned, OriginOK
  <2> QED
    BY <2>1, <2>2 DEF OriginOK
<1>7. RootsOK(walk')
  BY <1>2, <1>4 DEF Owned, RootsOK
<1>8. BodiesOK(walk')
  <2>1. Taken(walk') = Taken(walk)
    BY <1>4 DEF Taken
  <2>2. \A e \in walk.extents : e[1] \in DOMAIN walk.origin /\ e[1] \notin found
    BY <1>2, <1>3 DEF Owned, BodiesOK, OriginOK
  <2>3. \A e \in walk.extents : walk'.origin[e[1]] = walk.origin[e[1]]
    BY <1>5, <2>2
  <2> QED
    BY <1>2, <1>4, <2>1, <2>3 DEF Owned, BodiesOK
<1>9. Owned(walk')
  BY <1>4, <1>6, <1>7, <1>8 DEF Owned
<1>10. CallsOK(walk)'
  BY <1>1, <1>2, <1>4 DEF CallsOK, InCode
<1> QED
  BY <1>1, <1>9, <1>10, OwnedEnds DEF OwnersInv, RejectedOK, BodiesCover

\* A body that is gathered reaches every end under its owner.
CoversEnds(bodies, owner, end) ==
  /\ DOMAIN bodies = {owner[x] : x \in DOMAIN owner} /\ IsFiniteSet(DOMAIN bodies)
  /\ \A o \in DOMAIN bodies : bodies[o] \in Int
  /\ \A x \in DOMAIN owner : end[x] <= bodies[owner[x]]

LEMMA GatherDoes ==
  ASSUME NEW owner, IsFiniteSet(DOMAIN owner), owner = [x \in DOMAIN owner |-> owner[x]],
         NEW end, \A x \in DOMAIN owner : end[x] \in Int
  PROVE  CoversEnds(Gathered(owner, end), owner, end)
<1> DEFINE S == DOMAIN owner
           owners == {owner[x] : x \in S}
           Of(o) == {x \in S : owner[x] = o}
           EndsOf(o) == {end[x] : x \in Of(o)}
           g == Gathered(owner, end)
<1>1. g = [o \in owners |-> Max(EndsOf(o))]
  BY DEF Gathered, Range
<1>2. IsFiniteSet(owners)
  <2>1. owner \in Surjection(S, owners)
    BY DEF Surjection
  <2> HIDE DEF owners
  <2> QED
    BY <2>1, FS_Surjection
<1>3. ASSUME NEW o \in owners
      PROVE  Max(EndsOf(o)) \in Int /\ \A x \in Of(o) : end[x] <= Max(EndsOf(o))
  <2>1. Of(o) \in SUBSET S /\ Of(o) # {}
    OBVIOUS
  <2>2. IsFiniteSet(Of(o))
    <3> HIDE DEF Of
    <3> QED
      BY <2>1, FS_Subset
  <2> DEFINE E == EndsOf(o)
             f == [x \in Of(o) |-> end[x]]
  <2>3. f \in Surjection(Of(o), E)
    BY DEF Surjection
  <2>4. E \in SUBSET Int /\ E # {}
    BY <2>1
  <2>5. \A x \in Of(o) : end[x] \in E
    OBVIOUS
  <2>6. IsFiniteSet(E)
    <3> HIDE DEF E, f, Of
    <3> QED
      BY <2>2, <2>3, FS_Surjection
  <2> HIDE DEF E
  <2>7. Max(E) \in E /\ \A z \in E : z <= Max(E)
    BY <2>4, <2>6, EndsOfSet
  <2>8. Max(E) \in Int /\ \A x \in Of(o) : end[x] <= Max(E)
    BY <2>4, <2>5, <2>7
  <2> QED
    BY <2>8 DEF E
<1>4. \A x \in S : owner[x] \in owners /\ x \in Of(owner[x])
  OBVIOUS
<1> HIDE DEF g, owners, Of, EndsOf
<1>5. DOMAIN g = owners /\ \A o \in owners : g[o] = Max(EndsOf(o))
  BY <1>1
<1>6. \A o \in owners : g[o] \in Int
  BY <1>3, <1>5
<1>7. \A x \in S : end[x] <= g[owner[x]]
  BY <1>3, <1>4, <1>5
<1> QED
  BY <1>2, <1>5, <1>6, <1>7 DEF CoversEnds, g, owners

\* So do the bodies that are rebuilt, and those under their final owners.
LEMMA RebuiltCovers ==
  ASSUME NEW w, IsFiniteSet(w.extents), \A e \in w.extents : e[1] \in Int /\ e[2] \in Int
  PROVE  LET bodies == RebuiltBodies(w)
         IN  /\ IsFiniteSet(DOMAIN bodies) /\ \A b \in DOMAIN bodies : bodies[b] \in Int
             /\ \A e \in w.extents : /\ Owner(w, e[1]) \in DOMAIN bodies
                                     /\ e[1] + e[2] <= bodies[Owner(w, e[1])]
<1> DEFINE owner == [k \in w.extents |-> Owner(w, k[1])]
           end == [k \in w.extents |-> k[1] + k[2]]
           bodies == RebuiltBodies(w)
<1>1. bodies = Gathered(owner, end)
  BY DEF RebuiltBodies
<1>2. /\ DOMAIN owner = w.extents /\ owner = [x \in DOMAIN owner |-> owner[x]]
      /\ \A x \in DOMAIN owner : end[x] \in Int
      /\ \A e \in w.extents : owner[e] = Owner(w, e[1]) /\ end[e] = e[1] + e[2]
  OBVIOUS
<1> HIDE DEF owner, end, bodies
<1>3. CoversEnds(bodies, owner, end)
  BY <1>1, <1>2, GatherDoes
<1>4. /\ IsFiniteSet(DOMAIN bodies) /\ \A b \in DOMAIN bodies : bodies[b] \in Int
      /\ \A e \in w.extents : owner[e] \in DOMAIN bodies /\ end[e] <= bodies[owner[e]]
  BY <1>2, <1>3 DEF CoversEnds
<1> QED
  BY <1>2, <1>4 DEF bodies

LEMMA CanonicalCovers ==
  ASSUME NEW w, IsFiniteSet(DOMAIN w.bodies), \A b \in DOMAIN w.bodies : w.bodies[b] \in Int
  PROVE  LET bodies == CanonicalBodies(w)
         IN  \A b \in DOMAIN w.bodies : /\ Owner(w, b) \in DOMAIN bodies
                                        /\ bodies[Owner(w, b)] \in Int
                                        /\ w.bodies[b] <= bodies[Owner(w, b)]
<1> DEFINE owner == [f \in DOMAIN w.bodies |-> Owner(w, f)]
           bodies == CanonicalBodies(w)
<1>1. bodies = Gathered(owner, w.bodies)
  BY DEF CanonicalBodies
<1>2. /\ DOMAIN owner = DOMAIN w.bodies /\ owner = [x \in DOMAIN owner |-> owner[x]]
      /\ \A b \in DOMAIN w.bodies : owner[b] = Owner(w, b)
  OBVIOUS
<1> HIDE DEF owner, bodies
<1>3. CoversEnds(bodies, owner, w.bodies)
  BY <1>1, <1>2, GatherDoes
<1> QED
  BY <1>2, <1>3 DEF CoversEnds, bodies

\* A rejection keeps owners and bodies, and rejects nothing that is called.
LEMMA OwnersReject == ASSUME ShapeInv, OwnersInv, RejectPatterns PROVE OwnersInv'
<1> DEFINE called == {p[2] : p \in walk.calls}
           possible == {c.address : c \in {d \in starts.candidates : d.possible}} \ called
           definite == {c.address : c \in {d \in starts.candidates : ~d.possible}}
           established == starts.before \union called \union definite
           base == [walk |-> walk, rejected |-> starts.rejected]
           pass == Rejects(established, base, InOrder(possible))
           n == Cardinality(possible)
<1>1. /\ phase = "patterns" /\ Walked /\ program' = program
      /\ queue' = queue /\ chunk' = chunk
      /\ walk' = IF pass.rejected = starts.rejected
                 THEN [walk EXCEPT !.entries = @ \ starts.rejected] ELSE pass.walk
  BY DEF RejectPatterns, Rejects
<1>2. Owned(walk) /\ CallsOK(walk) /\ RejectedOK
  BY <1>1 DEF OwnersInv
<1>3. possible \in SUBSET Places(program)
  BY DEF ShapeInv
<1> HIDE DEF possible, established
<1>4. n \in Nat /\ DOMAIN InOrder(possible) = 1 .. n
  <2>1. possible \in SUBSET Int /\ IsFiniteSet(possible)
    BY <1>3, PlacesAreFinite, FS_Subset DEF ShapeInv
  <2>2. n \in Nat /\ InOrder(possible) \in [1 .. n -> possible]
    BY <2>1, InOrderLists
  <2> HIDE DEF n
  <2> QED
    BY <2>2
<1> HIDE DEF n
<1>5. PassOK(base) /\ base.walk = walk
  BY DEF PassOK, ShapeInv
<1> HIDE DEF base
<1>6. walk.visited \in SUBSET Int /\ IsFiniteSet(walk.visited)
  <2>1. IsFiniteSet(Code(program)) /\ Code(program) \subseteq Int
    BY CodeIsFinite DEF ShapeInv, Code
  <2> QED
    BY <2>1, FS_Subset DEF ShapeInv
<1>7. Owned(pass.walk)
  BY <1>2, <1>4, <1>5, <1>6, PassOwns
<1> HIDE DEF pass
<1>8. Owned(walk')
  <2>1. CASE pass.rejected = starts.rejected
    <3>1. SameOwners(walk, walk')
      BY <1>1, <2>1 DEF ShapeInv, WalkOK, SameOwners
    <3> QED
      BY <1>2, <3>1, SameOwns
  <2>2. CASE pass.rejected # starts.rejected
    BY <1>1, <1>7, <2>2
  <2> QED
    BY <2>1, <2>2
<1>9. /\ phase' \in {"patterns", "linkages"}
      /\ walk'.calls = walk.calls /\ walk'.active = walk.active
      /\ walk'.visited = walk.visited
      /\ \A c \in starts'.rejected \ starts.rejected : c \notin Targets(walk.calls)
      /\ walk'.entries = IF phase' = "patterns" THEN walk.entries
                         ELSE walk.entries \ starts.rejected
  BY RejectPatternsDo
<1>10. CallsOK(walk)'
  <2>1. \A p \in walk.calls : p[2] \in Targets(walk.calls)
    BY DEF Targets
  <2> QED
    BY <1>1, <1>2, <1>9, <2>1 DEF CallsOK, RejectedOK, InCode
<1>11. RejectedOK'
  <2>1. Walked'
    BY <1>1, <1>9 DEF Walked, ToQuery, InCode
  <2>2. starts'.rejected \intersect Targets(walk'.calls) = {}
    BY <1>2, <1>9 DEF RejectedOK
  <2> QED
    BY <1>9, <2>1, <2>2 DEF RejectedOK
<1> QED
  BY <1>8, <1>9, <1>10, <1>11, OwnedEnds DEF OwnersInv, BodiesCover

\* Promotions leave chains of three owners at most, and the bodies are rebuilt.
LEMMA OwnersPromote == ASSUME ShapeInv, OwnersInv, PromoteLinkages PROVE OwnersInv'
<1>19. phase = "linkages" /\ phase' = "finish"
  BY StubsArePicked
<1> DEFINE shaped == {t \in walk.linkage : LinkageShape(walk, t)}
<1>20. PICK plain \in SUBSET shaped, asking \in SUBSET shaped :
         LET all == PromotedAll(plain, asking)
         IN  /\ functions' = all.functions
             /\ walk' = IF all.changed
                        THEN [all.walk EXCEPT !.bodies = RebuiltBodies(all.walk)] ELSE walk
             /\ \A t \in plain : PlainStub(t)
  BY StubsArePicked
<1> DEFINE base == [functions |-> functions, walk |-> walk, changed |-> FALSE]
           direct == Promotions(base, InOrder(plain))
           all == ContextPromotions(direct, InOrder(asking \ direct.walk.entries))
<1>1. /\ phase = "linkages" /\ phase' = "finish" /\ program' = program /\ starts' = starts
      /\ walk' = IF all.changed THEN [all.walk EXCEPT !.bodies = RebuiltBodies(all.walk)]
                 ELSE walk
  <2>1. program' = program /\ starts' = starts
    BY DEF PromoteLinkages
  <2> QED
    BY <1>19, <1>20, <2>1 DEF PromotedAll, PromotedPlain, Unpromoted
<1>2. Owned(walk) /\ CallsOK(walk) /\ RejectedOK
  BY <1>1 DEF OwnersInv
<1>3. shaped \in SUBSET Int /\ IsFiniteSet(shaped)
  <2>1. shaped \in SUBSET Code(program) /\ Code(program) \subseteq Int
    BY DEF ShapeInv, Code
  <2> HIDE DEF shaped
  <2> QED
    BY <2>1, CodeIsFinite, FS_Subset DEF ShapeInv
<1> HIDE DEF shaped
<1>4. /\ plain \in SUBSET Int /\ IsFiniteSet(plain)
      /\ asking \ direct.walk.entries \in SUBSET Int
      /\ IsFiniteSet(asking \ direct.walk.entries)
  <2>1. plain \in SUBSET shaped
        /\ asking \ direct.walk.entries \in SUBSET shaped
    OBVIOUS
  <2> HIDE DEF direct
  <2> QED
    BY <1>3, <2>1, FS_Subset
<1>5. PromotingOK(base) /\ base.walk = walk
  BY DEF PromotingOK, ShapeInv
<1> HIDE DEF base
<1>6. /\ PromotingOK(direct) /\ direct.walk.extents = walk.extents
      /\ direct.walk.calls = walk.calls /\ direct.walk.thunkJumps = walk.thunkJumps
      /\ walk.entries \subseteq direct.walk.entries
      /\ \E P \in SUBSET Int : Lifted(walk.origin, direct.walk.origin, P)
  <2>1. Promoted(base, direct, plain)
    BY <1>4, <1>5, BothPromote
  <2>2. \E P \in SUBSET Int : Lifted(base.walk.origin, direct.walk.origin, P)
    BY <1>4, <1>5, BothLift
  <2> HIDE DEF direct
  <2> QED
    BY <1>5, <2>1, <2>2 DEF Promoted
<1>7. /\ PromotingOK(all) /\ all.walk.extents = walk.extents
      /\ all.walk.calls = walk.calls /\ all.walk.thunkJumps = walk.thunkJumps
      /\ walk.entries \subseteq all.walk.entries
      /\ \E P \in SUBSET Int : Lifted(direct.walk.origin, all.walk.origin, P)
  <2> DEFINE S == asking \ direct.walk.entries
  <2>1. S \in SUBSET Int /\ IsFiniteSet(S)
    BY <1>4
  <2> HIDE DEF direct, S
  <2> DEFINE last == ContextPromotions(direct, InOrder(S))
  <2>2. /\ Promoted(direct, last, S)
        /\ \E P \in SUBSET Int : Lifted(direct.walk.origin, last.walk.origin, P)
    BY <1>6, <2>1, BothPromote, BothLift
  <2>3. last = all
    BY DEF S
  <2> HIDE DEF last, all
  <2> QED
    BY <1>6, <2>2, <2>3 DEF Promoted
<1> HIDE DEF direct, all
<1>13. OwnedByInts(walk.origin)
  <2>1. walk.visited \subseteq Int
    BY DEF ShapeInv, Code
  <2> QED
    BY <1>2, <2>1 DEF Owned, OriginOK, OwnedByInts
<1>14. OwnedByInts(all.walk.origin)
  <2>1. OwnedByInts(direct.walk.origin)
    BY <1>6, <1>13, LiftedInts
  <2> QED
    BY <1>7, <2>1, LiftedInts
<1>8. EndSoon(all.walk.origin)
  <2>1. EndsAtOnce(walk.origin)
    BY <1>2 DEF Owned, OriginOK, EndsAtOnce
  <2>2. EndsInTwo(direct.walk.origin)
    BY <1>6, <2>1, LiftedFromOne
  <2> QED
    BY <1>7, <2>2, LiftedFromTwo
<1>9. /\ IsFiniteSet(walk.extents)
      /\ \A e \in walk.extents : e[1] \in Int /\ e[2] \in Int
  BY <1>2 DEF Owned, BodiesOK
<1>10. CASE all.changed
  <2> DEFINE w == all.walk
             bodies == RebuiltBodies(w)
  <2>1. /\ walk'.origin = w.origin /\ walk'.bodies = bodies
        /\ walk'.extents = walk.extents /\ walk'.calls = walk.calls
        /\ walk.entries \subseteq walk'.entries
    <3>1. walk' = [w EXCEPT !.bodies = bodies] /\ WalkOK(w)
      BY <1>1, <1>7, <1>10 DEF PromotingOK
    <3> HIDE DEF bodies, w
    <3>2. /\ walk'.origin = w.origin /\ walk'.bodies = bodies
          /\ walk'.extents = w.extents /\ walk'.calls = w.calls
          /\ walk'.entries = w.entries
      BY <3>1 DEF WalkOK
    <3> QED
      BY <1>7, <3>2 DEF w
  <2>2. /\ IsFiniteSet(DOMAIN bodies) /\ \A b \in DOMAIN bodies : bodies[b] \in Int
        /\ \A e \in walk.extents : /\ Owner(w, e[1]) \in DOMAIN bodies
                                   /\ e[1] + e[2] <= bodies[Owner(w, e[1])]
    <3> HIDE DEF w
    <3> QED
      BY <1>7, <1>9, RebuiltCovers DEF w
  <2> HIDE DEF bodies
  <2>3. \A a : Owner(walk', a) = Owner(w, a)
    BY <2>1 DEF Owner
  <2>8. \A e \in walk.extents : Owner(w, e[1]) \in Int
    <3>1. \A a : Owner(w, a) = End(w.origin, a)
      BY <1>8, OwnerIsEnd DEF Owner
    <3>2. \A x \in Int : Link(w.origin, x) \in Int
      BY <1>14 DEF OwnedByInts, Link
    <3> HIDE DEF w
    <3> QED
      BY <1>9, <3>1, <3>2 DEF End
  <2> HIDE DEF w
  <2>4. CoveredOK(walk')
    BY <1>9, <2>1, <2>2, <2>3, <2>8 DEF CoveredOK
  <2>5. CallsOK(walk)'
    BY <1>1, <1>2, <2>1 DEF CallsOK, InCode
  <2>6. EndSoon(walk'.origin)
    BY <1>8, <2>1 DEF w
  <2>7. RejectedOK'
    BY <1>1, <1>2, <2>1 DEF RejectedOK
  <2> QED
    BY <1>1, <2>4, <2>5, <2>6, <2>7 DEF OwnersInv, BodiesCover
<1>11. CASE ~ all.changed
  <2>1. walk' = walk
    BY <1>1, <1>11
  <2>2. \A e \in walk.extents : Owner(walk, e[1]) = walk.origin[e[1]]
    BY <1>2, VisitedIsOwned DEF Owned, BodiesOK
  <2>6. \A e \in walk.extents : walk.origin[e[1]] \in Int
    BY <1>2, <1>9, <1>13 DEF Owned, OriginOK, BodiesOK, OwnedByInts
  <2>3. CoveredOK(walk)
    BY <1>2, <2>2, <2>6 DEF CoveredOK, Owned, BodiesOK
  <2>4. EndSoon(walk.origin)
    BY <1>2, OwnedEnds
  <2>5. CallsOK(walk)' /\ RejectedOK'
    BY <1>1, <1>2, <2>1 DEF CallsOK, RejectedOK, InCode
  <2> QED
    BY <1>1, <2>1, <2>3, <2>4, <2>5 DEF OwnersInv, BodiesCover
<1> QED
  BY <1>10, <1>11

\* A function that owns an instruction has its body's size.
LEMMA OwnersFinish == ASSUME ReachInv, OwnersInv, Finish PROVE OwnersInv'
<1> DEFINE kept == {e \in walk.entries : Owner(walk, e) = e}
           bodies == CanonicalBodies(walk)
           known == InsertAll([e \in kept |-> 1], functions)
           Size(f) == IF f \in DOMAIN bodies THEN Max({bodies[f] - f, 1}) ELSE known[f]
           sized == [f \in DOMAIN known |-> Size(f)]
<1>1. /\ phase = "finish" /\ phase' \in {"done", "error"} /\ walk' = walk
      /\ starts' = starts /\ program' = program
      /\ xrefs' = xrefs \union walk.calls /\ functions' = CloseCallTargets(sized, xrefs')
  BY DEF Finish
<1>2. EndSoon(walk.origin) /\ CallsOK(walk) /\ CoveredOK(walk) /\ RejectedOK
  BY <1>1 DEF OwnersInv
<1>3. DOMAIN known = DOMAIN functions \union kept
  <2> HIDE DEF kept
  <2> QED
    BY DEF InsertAll
<1>4. \A b \in DOMAIN walk.bodies : /\ Owner(walk, b) \in DOMAIN bodies
                                    /\ bodies[Owner(walk, b)] \in Int
                                    /\ walk.bodies[b] <= bodies[Owner(walk, b)]
  BY <1>2, CanonicalCovers DEF CoveredOK
<1>5. \A e \in walk.entries : Owner(walk, e) = e => e \in kept
  OBVIOUS
<1> HIDE DEF kept, known, bodies
<1>6. DOMAIN sized = DOMAIN known /\ \A f \in DOMAIN known : sized[f] = Size(f)
  <2> HIDE DEF Size
  <2> QED
    OBVIOUS
<1> HIDE DEF sized
<1>7. /\ DOMAIN functions' = DOMAIN sized \union {p[2] : p \in {q \in xrefs' : InCode(q[2])}}
      /\ \A f \in DOMAIN sized : functions'[f] = sized[f]
  BY <1>1 DEF CloseCallTargets, InsertAll
<1>8. ASSUME NEW e \in walk.extents, e[1] \notin Taken(walk),
             Owner(walk, e[1]) \in DOMAIN functions'
      PROVE  e[1] + e[2] <= Owner(walk, e[1]) + functions'[Owner(walk, e[1])]
  <2> DEFINE f == Owner(walk, e[1])
  <2>1. /\ f \in Int /\ e[1] \in Int /\ e[2] \in Int
        /\ f \in DOMAIN walk.bodies /\ walk.bodies[f] \in Int
        /\ e[1] + e[2] <= walk.bodies[f]
    BY <1>2, <1>8 DEF CoveredOK
  <2>2. Owner(walk, f) = f
    <3>1. \A a : Owner(walk, a) = End(walk.origin, a)
      BY <1>2, OwnerIsEnd DEF Owner
    <3>2. CASE e[1] \in DOMAIN walk.origin
      <4>1. f \in DOMAIN walk.origin /\ walk.origin[f] = f
        BY <1>2, <3>1, <3>2 DEF EndSoon
      <4> HIDE DEF f
      <4> QED
        BY <3>1, <4>1 DEF End, Link
    <3>3. CASE e[1] \notin DOMAIN walk.origin
      <4>1. f = e[1]
        BY <3>1, <3>3 DEF End, Link
      <4> QED
        BY <4>1
    <3> QED
      BY <3>2, <3>3
  <2> HIDE DEF f
  <2>3. f \in DOMAIN bodies /\ bodies[f] \in Int /\ e[1] + e[2] <= bodies[f]
    BY <1>4, <2>1, <2>2
  <2>4. f \in DOMAIN known
    <3>1. CASE f \in DOMAIN sized
      BY <1>6, <3>1
    <3>2. CASE f \notin DOMAIN sized
      <4>1. PICK p \in xrefs' : InCode(p[2]) /\ p[2] = f
        BY <1>7, <1>8, <3>2 DEF f
      <4>2. p \in xrefs => f \in DOMAIN functions
        BY <4>1 DEF ReachInv, CallsAreKnown
      <4>3. p \in walk.calls => f \in kept
        BY <1>2, <1>5, <2>2, <4>1 DEF CallsOK
      <4> QED
        BY <1>1, <1>3, <4>1, <4>2, <4>3
    <3> QED
      BY <3>1, <3>2
  <2>5. functions'[f] = Max({bodies[f] - f, 1})
    BY <1>6, <1>7, <2>3, <2>4
  <2>6. Max({bodies[f] - f, 1}) \in Int /\ bodies[f] - f <= Max({bodies[f] - f, 1})
    <3> DEFINE x == bodies[f] - f
    <3>1. x \in Int /\ 1 \in Int
      BY <2>1, <2>3
    <3> HIDE DEF x
    <3>2. Max({x, 1}) \in {x, 1} /\ \A z \in {x, 1} : z <= Max({x, 1})
      BY <3>1, MaxOfTwo
    <3> QED
      BY <3>1, <3>2 DEF x
  <2>7. e[1] + e[2] <= f + functions'[f]
    BY <2>1, <2>3, <2>5, <2>6
  <2> QED
    BY <2>7 DEF f
<1>9. BodiesCover'
  BY <1>1, <1>8 DEF BodiesCover, Taken, Targets, Owner
<1>10. RejectedOK'
  BY <1>1, <1>2 DEF RejectedOK
<1> QED
  BY <1>1, <1>2, <1>9, <1>10 DEF OwnersInv

LEMMA OwnersGiveUp == ASSUME OwnersInv, GiveUp PROVE OwnersInv'
BY GiveUpDoes DEF OwnersInv, RejectedOK, BodiesCover

LEMMA OwnersRest == ASSUME OwnersInv, UNCHANGED vars PROVE OwnersInv'
BY DEF vars, OwnersInv, CallsOK, CoveredOK, RejectedOK, BodiesCover, Walked, ToQuery, InCode

\* Owners and bodies are sound in every state (OwnersInv).  While instructions are
\* walked an address's link ends at once, at what owns itself, though merges and calls
\* change owners (merge_reached_candidate), and the owner's body covers every
\* instruction but those that are called or thunks' targets; the promotions of
\* linkage stubs leave chains of three links at most.
THEOREM OwnersAreInvariant == Spec => []OwnersInv
<1>1. Init => OwnersInv
  BY OwnersInit
<1>2. OwnersInv /\ UNCHANGED vars => OwnersInv'
  BY OwnersRest
<1>3. ShapeInv /\ ReachInv /\ OwnersInv /\ [Next]_vars => OwnersInv'
  BY <1>2, OwnersSweep, OwnersStart, OwnersRound, OwnersQuery, OwnersWalk, OwnersEnter,
     OwnersReject, OwnersPromote, OwnersFinish, OwnersGiveUp DEF Next, Stop
<1> QED
  BY <1>1, <1>3, ShapeIsInvariant, ReachIsInvariant, PTL DEF Spec

\* The links of addr_origin never close a cycle, whatever was merged, demoted and
\* promoted: get_canonical_origin ends at an address that owns itself, within three
\* links and never by its limit of hops.
THEOREM LinksEnd == Spec => []OwnersEnd
<1>1. OwnersInv => OwnersEnd
  <2> SUFFICES ASSUME OwnersInv PROVE OwnersEnd
    OBVIOUS
  <2>1. EndSoon(walk.origin)
    BY DEF OwnersInv
  <2>2. \A a : Owner(walk, a) = End(walk.origin, a)
    BY <2>1, OwnerIsEnd DEF Owner
  <2> QED
    BY <2>1, <2>2 DEF OwnersEnd, EndSoon
<1> QED
  BY <1>1, OwnersAreInvariant, PTL

\* A function's size covers the instructions it owns, and those of the bodies merged
\* into it, but for the ones that are called or a thunk's target (proven_bodies).
THEOREM BodiesDoCover == Spec => []BodiesCover
<1>1. OwnersInv => BodiesCover
  BY DEF OwnersInv
<1> QED
  BY <1>1, OwnersAreInvariant, PTL

-----------------------------------------------------------------------------
(* What no step leaves is reached as a whole. *)

\* So nothing more is reachable along edges between addresses.
LEMMA ReachableIsClosed ==
  ASSUME IsFiniteSet(Addresses), NEW from \in SUBSET Addresses, from # {},
         NEW edges, \A d \in edges : d[2] \in Addresses,
         NEW d \in edges, d[1] \in Reachable(from, edges)
  PROVE  d[2] \in Reachable(from, edges)
<1> DEFINE g == EndsAt(from, edges)
           N == Cardinality(Addresses)
<1>1. N \in Nat /\ Reachable(from, edges) = g[N]
  BY FS_CardinalityType, ReachableIsEndsAt
<1> DEFINE V == Addresses
<1>2. g[0] = from
  BY PathsBegin
<1>3. \A n \in Nat : g[n + 1] = Step(g[n], edges)
  BY EndsAtGoOn
<1>4. IsFiniteSet(V) /\ N = Cardinality(V) /\ from \subseteq V /\ \A e \in edges : e[2] \in V
  OBVIOUS
<1> HIDE DEF g, N, V
<1>5. SUFFICES g[N + 1] = g[N]
  BY <1>1, <1>3 DEF Step
<1> DEFINE Bad == {n \in Nat : ~ (g[n] \subseteq V)}
<1>6. Bad = {}
  <2> SUFFICES ASSUME Bad # {} PROVE FALSE
    OBVIOUS
  <2>1. PICK n \in Bad : \A m \in Bad : n <= m
    <3>1. Bad \in SUBSET Nat
      OBVIOUS
    <3> HIDE DEF Bad
    <3> QED
      BY <3>1, LeastNumber
  <2>2. n # 0
    BY <1>2, <1>4, <2>1
  <2>3. n - 1 \in Nat /\ n - 1 \notin Bad /\ (n - 1) + 1 = n
    BY <2>1, <2>2
  <2>4. g[n] = Step(g[n - 1], edges)
    BY <1>3, <2>3
  <2> QED
    BY <1>4, <2>1, <2>3, <2>4 DEF Step
<1>7. \A n \in Nat : IsFiniteSet(g[n]) /\ g[n] \subseteq g[n + 1] /\ Cardinality(g[n]) \in Nat
  <2> TAKE n \in Nat
  <2>1. g[n] \in SUBSET V
    BY <1>6
  <2>2. IsFiniteSet(g[n])
    BY <1>4, <2>1, FS_Subset
  <2> QED
    BY <1>3, <2>2, FS_CardinalityType DEF Step
\* Once a step reaches nothing new, none does.
<1>8. ASSUME NEW n \in 0 .. N, g[n] = g[n + 1] PROVE g[N + 1] = g[N]
  <2> DEFINE Late == {m \in Nat : n <= m /\ g[m] # g[m + 1]}
  <2>1. Late = {}
    <3> SUFFICES ASSUME Late # {} PROVE FALSE
      OBVIOUS
    <3>1. PICK m \in Late : \A k \in Late : m <= k
      <4>1. Late \in SUBSET Nat
        OBVIOUS
      <4> HIDE DEF Late
      <4> QED
        BY <4>1, LeastNumber
    <3>2. m # n /\ m - 1 \in Nat /\ n <= m - 1 /\ m - 1 \notin Late /\ (m - 1) + 1 = m
      BY <1>1, <1>8, <3>1
    <3>3. g[m - 1] = g[m]
      BY <3>2
    <3>4. g[m] = Step(g[m - 1], edges) /\ g[m + 1] = Step(g[m], edges)
      BY <1>3, <3>1, <3>2
    <3> QED
      BY <3>1, <3>3, <3>4
  <2> QED
    BY <1>1, <2>1
<1>9. SUFFICES ASSUME \A n \in 0 .. N : g[n] # g[n + 1] PROVE FALSE
  BY <1>8
<1> DEFINE Small == {n \in Nat : n <= N + 1 /\ Cardinality(g[n]) < n}
<1>10. Small = {}
  <2> SUFFICES ASSUME Small # {} PROVE FALSE
    OBVIOUS
  <2>1. PICK n \in Small : \A m \in Small : n <= m
    <3>1. Small \in SUBSET Nat
      OBVIOUS
    <3> HIDE DEF Small
    <3> QED
      BY <3>1, LeastNumber
  <2>2. n # 0
    BY <1>7, <2>1
  <2>3. n - 1 \in 0 .. N /\ n - 1 \notin Small /\ (n - 1) + 1 = n /\ n - 1 \in Nat
    BY <1>1, <2>1, <2>2
  <2>4. Cardinality(g[n - 1]) >= n - 1
    BY <1>1, <1>7, <2>3
  <2>5. g[n - 1] \in SUBSET g[n] /\ g[n - 1] # g[n] /\ IsFiniteSet(g[n])
    BY <1>7, <1>9, <2>3
  <2>6. Cardinality(g[n - 1]) <= Cardinality(g[n]) /\ Cardinality(g[n]) # Cardinality(g[n - 1])
    BY <2>5, FS_Subset
  <2> QED
    BY <1>7, <2>1, <2>3, <2>4, <2>6
<1>11. Cardinality(g[N + 1]) >= N + 1
  BY <1>1, <1>7, <1>10
<1>12. Cardinality(g[N + 1]) <= N
  <2>1. g[N + 1] \in SUBSET V
    BY <1>1, <1>6
  <2> QED
    BY <1>4, <2>1, FS_Subset
<1>13. Cardinality(g[N + 1]) \in Nat
  BY <1>1, <1>7
<1> QED
  BY <1>1, <1>11, <1>12, <1>13

\* More edges reach no less.
LEMMA ReachableGrows ==
  ASSUME IsFiniteSet(Addresses), NEW from, NEW more, NEW edges \in SUBSET more
  PROVE  Reachable(from, edges) \subseteq Reachable(from, more)
<1> DEFINE N == Cardinality(Addresses)
<1>1. /\ N \in Nat
      /\ Reachable(from, edges) = EndsAt(from, edges)[N]
      /\ Reachable(from, more) = EndsAt(from, more)[N]
  BY FS_CardinalityType, ReachableIsEndsAt
<1> HIDE DEF N
<1>2. Ends(from, edges) \subseteq Ends(from, more)
  BY DEF Ends
<1>3. Paths(from, edges, N) \subseteq Paths(from, more, N)
  <2> SUFFICES ASSUME NEW p \in Paths(from, edges, N) PROVE p \in Paths(from, more, N)
    OBVIOUS
  <2>1. p \in [0 .. N -> Ends(from, edges)]
    BY DEF Paths
  <2>2. p \in [0 .. N -> Ends(from, more)]
    BY <1>2, <2>1
  <2> QED
    BY <2>2 DEF Paths
<1>4. EndsAt(from, edges)[N] \subseteq EndsAt(from, more)[N]
  BY <1>1, <1>3 DEF EndsAt
<1> QED
  BY <1>1, <1>4

\* A path may rest where it begins.
LEMMA ReachableHasStart ==
  ASSUME IsFiniteSet(Addresses), NEW from, NEW edges, NEW x \in from
  PROVE  x \in Reachable(from, edges)
<1> DEFINE N == Cardinality(Addresses)
           p == [i \in 0 .. N |-> x]
<1>1. N \in Nat /\ Reachable(from, edges) = EndsAt(from, edges)[N]
  BY FS_CardinalityType, ReachableIsEndsAt
<1> HIDE DEF N
<1>2. p \in Paths(from, edges, N)
  BY <1>1 DEF Paths, Ends
<1>3. p[N] = x
  BY <1>1
<1> HIDE DEF p
<1>4. x \in EndsAt(from, edges)[N]
  BY <1>1, <1>2, <1>3 DEF EndsAt
<1> QED
  BY <1>1, <1>4

-----------------------------------------------------------------------------
(* Addresses that the flow of control joins. *)

\* The edges of OwnersAreJoined in a walk, those between addresses.
FlowsOf(w) == UNION {{<<e[1], t>> : t \in Flows(Flow(e[1]))} : e \in w.extents}
SharedBytesOf(w) ==
  {<<p[1][1], p[2][1]>> : p \in {q \in w.extents \X w.extents :
     Flow(q[1][1]).kind = "branchInd" /\ Inside(q[2][1], {q[1]})}}
Joins(w) == {d \in FlowsOf(w) \union SharedBytesOf(w) : d[1] \in Addresses /\ d[2] \in Addresses}

\* Two addresses are joined if no set of addresses that the edges stay within, in
\* both directions, parts them.
IsUndivided(w, S) == \A d \in Joins(w) : d[1] \in S <=> d[2] \in S
Joined(w, x, y) == \A S : IsUndivided(w, S) => (x \in S <=> y \in S)

LEMMA JoinedIsEquivalence ==
  ASSUME NEW w
  PROVE  /\ \A x : Joined(w, x, x)
         /\ \A x, y : Joined(w, x, y) => Joined(w, y, x)
         /\ \A x, y, z : Joined(w, x, y) /\ Joined(w, y, z) => Joined(w, x, z)
BY DEF Joined

LEMMA EdgesJoin ==
  ASSUME NEW w, NEW d \in Joins(w)
  PROVE  Joined(w, d[1], d[2])
BY DEF Joined, IsUndivided

\* More instructions join no less.
LEMMA JoinedStays ==
  ASSUME NEW w, NEW v, w.extents \subseteq v.extents, NEW x, NEW y, Joined(w, x, y)
  PROVE  Joined(v, x, y)
<1>1. FlowsOf(w) \subseteq FlowsOf(v)
  BY DEF FlowsOf
<1>2. SharedBytesOf(w) \subseteq SharedBytesOf(v)
  <2>1. w.extents \X w.extents \subseteq v.extents \X v.extents
    OBVIOUS
  <2> QED
    BY <2>1 DEF SharedBytesOf
<1>3. Joins(w) \subseteq Joins(v)
  BY <1>1, <1>2 DEF Joins
<1>4. \A S : IsUndivided(v, S) => IsUndivided(w, S)
  BY <1>3 DEF IsUndivided
<1> QED
  BY <1>4 DEF Joined

\* Where a recorded instruction leads to is joined to it.
LEMMA FlowJoins ==
  ASSUME NEW w, NEW e \in w.extents, e[1] \in Addresses,
         NEW t \in Flows(Flow(e[1])), t \in Addresses
  PROVE  Joined(w, t, e[1]) /\ Joined(w, e[1], t)
<1> DEFINE d == <<e[1], t>>
<1>1. d \in FlowsOf(w)
  BY DEF FlowsOf
<1>2. d \in Joins(w) /\ d[1] = e[1] /\ d[2] = t
  BY <1>1 DEF Joins
<1> HIDE DEF d
<1>3. Joined(w, e[1], t)
  BY <1>2, EdgesJoin
<1> QED
  BY <1>3, JoinedIsEquivalence

\* An address that owns an instruction in the end is joined to it if every link is.
LinksJoin(w) ==
  \A x \in DOMAIN w.origin : x \in Addresses /\ Joined(w, x, w.origin[x])

LEMMA LinkJoins ==
  ASSUME NEW w, LinksJoin(w), NEW x
  PROVE  Joined(w, x, Link(w.origin, x))
BY JoinedIsEquivalence DEF LinksJoin, Link

LEMMA EndJoins ==
  ASSUME NEW w, LinksJoin(w), NEW x
  PROVE  Joined(w, x, End(w.origin, x))
<1> DEFINE y == Link(w.origin, x)
           z == Link(w.origin, y)
<1>1. Joined(w, x, y) /\ Joined(w, y, z) /\ Joined(w, z, Link(w.origin, z))
  BY LinkJoins
<1>2. End(w.origin, x) = Link(w.origin, z)
  BY DEF End
<1> HIDE DEF y, z
<1>3. Joined(w, x, z)
  BY <1>1, JoinedIsEquivalence
<1> QED
  BY <1>1, <1>2, <1>3, JoinedIsEquivalence

\* A chain's entries are joined to the function it began at, and what may be merged
\* is an address.
ChainsJoin(w) ==
  /\ \A t \in DOMAIN w.thunkRoots : t \in Addresses /\ Joined(w, t, w.thunkRoots[t])
  /\ w.mergeable \union w.thunkCandidates \subseteq Addresses

\* What is recorded of instructions agrees with them: where they lead to, how long
\* they are, and which of them end a straight line.
FlowIsRecorded(w) ==
  /\ w.visited \subseteq Addresses
  /\ \A d \in w.edges : \E e \in w.extents : e[1] = d[2] /\ d[1] \in Flows(Flow(d[2]))
  /\ \A e \in w.extents : e[1] \in w.visited /\ e = <<e[1], Flow(e[1]).length>>
  /\ \A n \in w.endings : n[1] \in w.visited /\ n[2] = (Flow(n[1]).kind = "branchInd")
  /\ HasSlots => \A e \in w.extents :
                   Flow(e[1]).kind # "fall" => \E n \in w.endings : n[1] = e[1]

JoinOK(w) == LinksJoin(w) /\ ChainsJoin(w) /\ FlowIsRecorded(w)

\* What is recorded stays as it was.
SameRecords(w, v) ==
  /\ v.visited = w.visited /\ v.extents = w.extents /\ v.edges = w.edges
  /\ v.endings = w.endings /\ v.mergeable = w.mergeable
  /\ v.thunkCandidates = w.thunkCandidates /\ v.thunkRoots = w.thunkRoots

LEMMA SameJoined ==
  ASSUME NEW w, NEW v, v.extents = w.extents
  PROVE  \A x, y : Joined(v, x, y) <=> Joined(w, x, y)
<1>1. w.extents \subseteq v.extents /\ v.extents \subseteq w.extents
  OBVIOUS
<1> QED
  BY <1>1, JoinedStays

LEMMA SameRecordsJoin ==
  ASSUME NEW w, JoinOK(w), NEW v, SameRecords(w, v), LinksJoin(v)
  PROVE  JoinOK(v)
<1>1. \A x, y : Joined(v, x, y) <=> Joined(w, x, y)
  BY SameJoined DEF SameRecords
<1>2. ChainsJoin(v)
  BY <1>1 DEF JoinOK, ChainsJoin, SameRecords
<1>3. FlowIsRecorded(v)
  BY DEF JoinOK, FlowIsRecorded, SameRecords
<1> QED
  BY <1>2, <1>3 DEF JoinOK

\* A merge of what is joined to the body it is merged into keeps what is joined.
LEMMA MergeJoins ==
  ASSUME NEW w, Owned(w), JoinOK(w), NEW t, NEW o \in w.visited, NEW m,
         t \in m => t \in Addresses /\ Joined(w, t, o)
  PROVE  JoinOK(MergeReached(w, t, o, m)) /\ SameRecords(w, MergeReached(w, t, o, m))
<1> DEFINE v == MergeReached(w, t, o, m)
           from == Link(w.origin, t)
           into == w.origin[o]
<1>1. SameRecords(w, v)
  BY DEF MergeReached, Owned, WalkOK, SameRecords
<1>2. v = w \/ (t \in m /\ MergedInto(w, v, t, from, into))
  <2>1. v = w \/ t \in m
    BY DEF MergeReached
  <2>2. v = w \/ MergedInto(w, v, t, from, into)
    BY MergeDoes
  <2> HIDE DEF v
  <2> QED
    BY <2>1, <2>2
<1>3. o \in DOMAIN w.origin /\ into \in DOMAIN w.origin
  BY DEF Owned, OriginOK
<1>4. into \in Addresses /\ Joined(w, o, into)
  BY <1>3 DEF JoinOK, LinksJoin
<1>5. Joined(w, t, from)
  BY LinkJoins DEF JoinOK
<1>6. t \in Addresses => from \in Addresses
  BY DEF JoinOK, LinksJoin, Link, Owned, OriginOK
<1> HIDE DEF v, from, into
<1>7. CASE v = w
  BY <1>1, <1>7 DEF v
<1>8. CASE t \in m /\ MergedInto(w, v, t, from, into)
  <2>1. t \in Addresses /\ from \in Addresses /\ Joined(w, t, o)
    BY <1>6, <1>8
  <2>2. Joined(w, t, into) /\ Joined(w, from, into)
    <3>1. Joined(w, t, into)
      BY <1>4, <2>1, JoinedIsEquivalence
    <3>2. Joined(w, from, t)
      BY <1>5, JoinedIsEquivalence
    <3> QED
      BY <3>1, <3>2, JoinedIsEquivalence
  <2>3. ASSUME NEW x \in DOMAIN v.origin
        PROVE  x \in Addresses /\ Joined(w, x, v.origin[x])
    <3>1. /\ x \in DOMAIN w.origin \union {t, from}
          /\ v.origin[x] = IF x \in {t, from} \/ w.origin[x] \in {t, from}
                           THEN into ELSE w.origin[x]
      BY <1>8 DEF MergedInto
    <3>2. CASE x \in {t, from}
      BY <2>1, <2>2, <3>1, <3>2
    <3>3. CASE x \notin {t, from}
      <4>1. x \in Addresses /\ Joined(w, x, w.origin[x])
        BY <3>1, <3>3 DEF JoinOK, LinksJoin
      <4>2. w.origin[x] \in {t, from} => Joined(w, x, into)
        BY <2>2, <4>1, JoinedIsEquivalence
      <4> QED
        BY <3>1, <3>3, <4>1, <4>2
    <3> QED
      BY <3>2, <3>3
  <2>4. LinksJoin(v)
    BY <1>1, <2>3, SameJoined DEF LinksJoin, SameRecords
  <2>5. JoinOK(v)
    BY <1>1, <2>4, SameRecordsJoin
  <2> QED
    BY <1>1, <2>5 DEF v
<1> QED
  BY <1>2, <1>7, <1>8

LEMMA SameRecordsIsTransitive ==
  ASSUME NEW u, NEW v, NEW w, SameRecords(u, v), SameRecords(v, w)
  PROVE  SameRecords(u, w)
BY DEF SameRecords

\* So do the merges of a chain that began where it is merged into.
LEMMA MergesJoin ==
  ASSUME NEW w, Owned(w), JoinOK(w), NEW S, IsFiniteSet(S), NEW root \in w.visited, NEW m,
         \A t \in S : t \in Addresses /\ Joined(w, t, root)
  PROVE  JoinOK(Merges(w, S, root, m))
<1>1. PICK iter, pick : MergeTurns(iter, pick, w, S, root, m)
  BY MergesFold
<1>2. /\ \A s \in SUBSET S : s # {} => pick[s] \in s
      /\ \A s \in SUBSET S :
           iter[s] = IF s = {} THEN w
                     ELSE MergeReached(iter[s \ {pick[s]}], pick[s], root, m)
      /\ Merges(w, S, root, m) = iter[S]
  BY <1>1 DEF MergeTurns
<1> DEFINE Good(s) == Owned(iter[s]) /\ JoinOK(iter[s]) /\ SameRecords(w, iter[s])
           Wrong == {s \in SUBSET S : ~ Good(s)}
<1>3. SUFFICES ASSUME ~ Good(S) PROVE FALSE
  BY <1>2
<1>4. PICK s \in Wrong : \A t \in Wrong : t \subseteq s => t = s
  <2>1. Wrong \in SUBSET SUBSET S /\ Wrong # {}
    BY <1>3
  <2> HIDE DEF Wrong
  <2> QED
    BY <2>1, SmallestSubset
<1>5. s # {}
  <2>1. SameRecords(w, w)
    BY DEF SameRecords
  <2> QED
    BY <1>2, <1>4, <2>1
<1>6. Good(s \ {pick[s]})
  <2>1. s \ {pick[s]} \in SUBSET S /\ s \ {pick[s]} \subseteq s /\ s \ {pick[s]} # s
    BY <1>2, <1>4, <1>5
  <2> QED
    BY <1>4, <2>1
<1>7. Good(s)
  <2> DEFINE u == iter[s \ {pick[s]}]
             t == pick[s]
  <2>1. iter[s] = MergeReached(u, t, root, m)
    BY <1>2, <1>4, <1>5
  <2>2. Owned(u) /\ JoinOK(u) /\ SameRecords(w, u)
    BY <1>6
  <2>3. t \in S
    BY <1>2, <1>4, <1>5
  <2> HIDE DEF u, t
  <2>4. root \in u.visited /\ t \in Addresses /\ Joined(u, t, root)
    BY <2>2, <2>3, SameJoined DEF SameRecords
  <2>5. Owned(MergeReached(u, t, root, m))
    BY <2>2, <2>4, MergeOwns
  <2>6. JoinOK(MergeReached(u, t, root, m)) /\ SameRecords(u, MergeReached(u, t, root, m))
    BY <2>2, <2>4, MergeJoins
  <2> QED
    BY <2>1, <2>2, <2>5, <2>6, SameRecordsIsTransitive
<1> QED
  BY <1>4, <1>7

LEMMA LandingJoins ==
  ASSUME NEW w, Owned(w), JoinOK(w), NEW a
  PROVE  JoinOK(Landing(w, a))
<1> DEFINE v == Landing(w, a)
<1>1. SameRecords(w, v) /\ v.origin = w.origin
  BY DEF Landing, Owned, WalkOK, SameRecords
<1> HIDE DEF v
<1>2. LinksJoin(v)
  BY <1>1, SameJoined DEF SameRecords, JoinOK, LinksJoin
<1>3. JoinOK(v)
  BY <1>1, <1>2, SameRecordsJoin
<1> QED
  BY <1>3 DEF v

LEMMA DemoteJoins ==
  ASSUME NEW w, Owned(w), JoinOK(w), IsFiniteSet(DOMAIN w.thunkRoots), NEW a
  PROVE  JoinOK(Demote(w, a))
<1> DEFINE root == w.continuations[a]
           chain == {t \in DOMAIN w.thunkRoots : w.thunkRoots[t] = root}
           merged == Merges(w, chain, root, w.thunkCandidates)
<1>1. IsFiniteSet(chain)
  <2>1. chain \in SUBSET DOMAIN w.thunkRoots
    OBVIOUS
  <2> QED
    BY <2>1, FS_Subset
<1>2. a \in DOMAIN w.continuations => root \in w.visited
  BY DEF Owned, RootsOK
<1>3. Demote(w, a) = w \/ (a \in DOMAIN w.continuations /\ Demote(w, a) = merged)
  BY DEF Demote, Merges
<1>4. \A t \in chain : t \in Addresses /\ Joined(w, t, root)
  BY DEF JoinOK, ChainsJoin
<1> HIDE DEF root, chain
<1>5. a \in DOMAIN w.continuations => JoinOK(merged)
  BY <1>1, <1>2, <1>4, MergesJoin
<1> QED
  BY <1>3, <1>5

\* What is recorded of an instruction agrees with it.
LEMMA RecordJoins ==
  ASSUME NEW w, Owned(w), JoinOK(w), NEW a \in w.visited
  PROVE  JoinOK(Record(w, a))
<1> DEFINE v == Record(w, a)
           i == Flow(a)
           bad == i.kind \in {"bad", "unimpl"}
           jumps == i.kind \in {"branch", "cbranch", "branchInd"}
           starting == {c.address : c \in starts.candidates}
           into == {<<t, a>> : t \in starting \intersect
                                 (i.fall \union (IF jumps THEN i.targets ELSE {}))}
<1>1. /\ v.origin = w.origin /\ v.visited = w.visited /\ v.mergeable = w.mergeable
      /\ v.thunkCandidates = w.thunkCandidates /\ v.thunkRoots = w.thunkRoots
      /\ v.extents = IF bad THEN w.extents ELSE w.extents \union {<<a, i.length>>}
      /\ v.endings = IF HasSlots /\ i.kind # "fall"
                     THEN w.endings \union {<<a, i.kind = "branchInd">>} ELSE w.endings
      /\ v.edges = IF phase # "patterns" \/ bad THEN w.edges ELSE w.edges \union into
  <2> HIDE DEF into
  <2> QED
    BY DEF Owned, WalkOK, Record, into
<1>2. \A d \in into : d[2] = a /\ d[1] \in Flows(i)
  BY DEF Flows, IsJump
<1> HIDE DEF v, into
<1>3. w.extents \subseteq v.extents
  BY <1>1
<1>4. LinksJoin(v) /\ ChainsJoin(v)
  <2>1. \A x, y : Joined(w, x, y) => Joined(v, x, y)
    BY <1>3, JoinedStays
  <2> QED
    BY <1>1, <2>1 DEF JoinOK, LinksJoin, ChainsJoin
<1>5. FlowIsRecorded(v)
  <2>1. ASSUME NEW d \in v.edges
        PROVE  \E e \in v.extents : e[1] = d[2] /\ d[1] \in Flows(Flow(d[2]))
    <3>1. CASE d \in w.edges
      BY <1>3, <3>1 DEF JoinOK, FlowIsRecorded
    <3>2. CASE d \notin w.edges
      <4>1. ~bad /\ d \in into
        BY <1>1, <3>2
      <4>2. <<a, i.length>> \in v.extents
        BY <1>1, <4>1
      <4> QED
        BY <1>2, <4>1, <4>2
    <3> QED
      BY <3>1, <3>2
  <2>2. \A e \in v.extents : e[1] \in v.visited /\ e = <<e[1], Flow(e[1]).length>>
    BY <1>1 DEF JoinOK, FlowIsRecorded
  <2>3. \A n \in v.endings : n[1] \in v.visited /\ n[2] = (Flow(n[1]).kind = "branchInd")
    <3> SUFFICES ASSUME NEW n \in v.endings
                 PROVE  n[1] \in v.visited /\ n[2] = (Flow(n[1]).kind = "branchInd")
      OBVIOUS
    <3>1. CASE n \in w.endings
      BY <1>1, <3>1, Zenon DEF JoinOK, FlowIsRecorded
    <3>2. CASE n \notin w.endings
      <4>1. n = <<a, i.kind = "branchInd">>
        BY <1>1, <3>2
      <4>2. n[1] = a /\ n[2] = (i.kind = "branchInd")
        BY <4>1
      <4> QED
        BY <1>1, <4>2, Zenon
    <3> QED
      BY <3>1, <3>2
  <2>4. ASSUME HasSlots, NEW e \in v.extents, Flow(e[1]).kind # "fall"
        PROVE  \E n \in v.endings : n[1] = e[1]
    <3>1. CASE e \in w.extents
      BY <1>1, <2>4, <3>1 DEF JoinOK, FlowIsRecorded
    <3>2. CASE e \notin w.extents
      <4>1. e[1] = a
        BY <1>1, <3>2
      <4>2. <<a, i.kind = "branchInd">> \in v.endings
        BY <1>1, <2>4, <4>1
      <4> QED
        BY <4>1, <4>2
    <3> QED
      BY <3>1, <3>2
  <2>5. v.visited \subseteq Addresses
    BY <1>1 DEF JoinOK, FlowIsRecorded
  <2> QED
    BY <2>1, <2>2, <2>3, <2>4, <2>5 DEF FlowIsRecorded
<1>6. JoinOK(v)
  BY <1>4, <1>5 DEF JoinOK
<1> QED
  BY <1>6 DEF v

\* New links that are joined keep what is joined.
LEMMA NewLinksJoin ==
  ASSUME NEW w, JoinOK(w), NEW v, v.extents = w.extents, NEW new,
         \A x \in DOMAIN new : x \in Addresses /\ Joined(w, x, new[x]),
         v.origin = InsertAll(w.origin, new)
  PROVE  LinksJoin(v)
<1>1. /\ DOMAIN v.origin = DOMAIN w.origin \union DOMAIN new
      /\ \A x \in DOMAIN v.origin :
           v.origin[x] = IF x \in DOMAIN new THEN new[x] ELSE w.origin[x]
  BY DEF InsertAll
<1>2. \A x \in DOMAIN v.origin : x \in Addresses /\ Joined(w, x, v.origin[x])
  BY <1>1 DEF JoinOK, LinksJoin
<1> QED
  BY <1>2, SameJoined DEF LinksJoin

LEMMA NewLinkJoins ==
  ASSUME NEW w, JoinOK(w), NEW v, v.extents = w.extents, NEW t \in Addresses, NEW o,
         Joined(w, t, o), v.origin = Insert(w.origin, t, o)
  PROVE  LinksJoin(v)
<1>1. \A x \in DOMAIN v.origin : x \in Addresses /\ Joined(w, x, v.origin[x])
  BY DEF Insert, JoinOK, LinksJoin
<1> QED
  BY <1>1, SameJoined DEF LinksJoin

\* What is called owns itself.
LEMMA CallsJoin ==
  ASSUME NEW w, Owned(w), JoinOK(w), NEW a, \A t : InCode(t) => t \in Addresses
  PROVE  JoinOK(Calls(w, a)) /\ SameRecords(w, Calls(w, a))
<1> DEFINE found == {t \in Flow(a).targets : InCode(t) /\ t \notin w.entries}
           all == {<<a, t>> : t \in Flow(a).targets \ {0}}
           new == [t \in found |-> t]
           v == [w EXCEPT !.entries = @ \union found, !.origin = InsertAll(@, new),
                          !.active = @ \union found, !.calls = @ \union all]
<1>1. Calls(w, a) = w \/ Calls(w, a) = v
  BY DEF Calls
<1>2. \A x \in DOMAIN new : x \in Addresses /\ Joined(w, x, new[x])
  BY JoinedIsEquivalence
<1> HIDE DEF found, all, new
<1>3. SameRecords(w, v) /\ v.origin = InsertAll(w.origin, new)
  BY DEF Owned, WalkOK, SameRecords
<1> HIDE DEF v
<1>4. LinksJoin(v)
  BY <1>2, <1>3, NewLinksJoin DEF SameRecords
<1>5. JoinOK(v)
  BY <1>3, <1>4, SameRecordsJoin
<1>6. SameRecords(w, w)
  BY DEF SameRecords
<1> QED
  BY <1>1, <1>3, <1>5, <1>6

\* What is reached from an instruction is joined to the instruction's owner.
LEMMA ReachJoins ==
  ASSUME NEW w, Owned(w), JoinOK(w), NEW o \in w.visited, NEW t,
         t \in Addresses => Joined(w, t, o), \A x : InCode(x) => x \in Addresses
  PROVE  JoinOK(Reach(w, t, o)) /\ SameRecords(w, Reach(w, t, o))
<1> DEFINE m == MergeReached(w, t, o, w.mergeable)
           n == [Own(m, t, o) EXCEPT !.active = @ \union {t}]
<1>1. Reach(w, t, o) = m \/ (InCode(t) /\ Reach(w, t, o) = n)
  BY DEF Reach
<1>2. JoinOK(m) /\ SameRecords(w, m)
  <2>1. t \in w.mergeable => t \in Addresses
    BY DEF JoinOK, ChainsJoin
  <2> QED
    BY <2>1, MergeJoins
<1>3. WalkOK(m)
  BY MergeKeeps DEF Kept, Owned
<1> HIDE DEF m
<1>4. SameRecords(m, n) /\ n.origin = Insert(m.origin, t, o)
  BY <1>3 DEF WalkOK, SameRecords, Own
<1> HIDE DEF n
<1>5. ASSUME InCode(t) PROVE JoinOK(n)
  <2>1. t \in Addresses /\ Joined(m, t, o)
    BY <1>2, <1>5, SameJoined DEF SameRecords
  <2>2. LinksJoin(n)
    BY <1>2, <1>4, <2>1, NewLinkJoins DEF SameRecords
  <2> QED
    BY <1>2, <1>4, <2>2, SameRecordsJoin
<1>6. SameRecords(w, n)
  BY <1>2, <1>4, SameRecordsIsTransitive
<1> QED
  BY <1>1, <1>2, <1>5, <1>6

LEMMA ReachAnyJoins ==
  ASSUME NEW w, Owned(w), JoinOK(w), NEW o \in w.visited, NEW to,
         \A t \in to : t \in Addresses => Joined(w, t, o), \A x : InCode(x) => x \in Addresses
  PROVE  JoinOK(ReachAny(w, to, o)) /\ SameRecords(w, ReachAny(w, to, o))
<1>1. CASE to = {}
  BY <1>1 DEF ReachAny, SameRecords
<1>2. CASE to # {}
  <2> DEFINE u == CHOOSE t \in to : TRUE
  <2>1. u \in to /\ ReachAny(w, to, o) = Reach(w, u, o)
    BY <1>2 DEF ReachAny
  <2> HIDE DEF u
  <2> QED
    BY <2>1, ReachJoins
<1> QED
  BY <1>1, <1>2

\* A thunk's target is joined to the function its chain of jumps began at.
LEMMA ThunkJoins ==
  ASSUME NEW w, Owned(w), JoinOK(w), NEW a \in w.visited, NEW t \in Addresses, Joined(w, t, a)
  PROVE  JoinOK(Thunk(w, a, t))
<1> DEFINE owner == Owner(w, a)
           root == IF owner \in DOMAIN w.thunkRoots THEN w.thunkRoots[owner] ELSE owner
           jumped == [Own(w, t, t) EXCEPT
                        !.thunkJumps = @ \union {<<a, t>>},
                        !.active = IF t \in w.visited THEN @ ELSE @ \union {t}]
           entered == [jumped EXCEPT
                        !.entries = @ \union {t},
                        !.thunkCandidates = @ \union {t},
                        !.mergeable = @ \union {t},
                        !.thunkRoots = Insert(@, t, root),
                        !.continuations = Insert(@, a + Flow(a).length, root)]
<1>1. Thunk(w, a, t) = jumped \/ Thunk(w, a, t) = entered
  BY DEF Thunk
<1>2. Joined(w, t, root)
  <2>1. owner = w.origin[a] /\ a \in DOMAIN w.origin
    BY VisitedIsOwned DEF Owned, OriginOK
  <2>2. Joined(w, a, owner)
    BY <2>1 DEF JoinOK, LinksJoin
  <2>3. Joined(w, owner, root)
    BY JoinedIsEquivalence DEF JoinOK, ChainsJoin
  <2> HIDE DEF owner, root
  <2> QED
    BY <2>2, <2>3, JoinedIsEquivalence
<1> HIDE DEF root
<1>3. SameRecords(w, jumped) /\ jumped.origin = Insert(w.origin, t, t) /\ WalkOK(jumped)
  BY DEF Owned, WalkOK, Own, SameRecords
<1> HIDE DEF jumped
<1>4. JoinOK(jumped)
  <2>1. LinksJoin(jumped)
    BY <1>3, NewLinkJoins, JoinedIsEquivalence DEF SameRecords
  <2> QED
    BY <1>3, <2>1, SameRecordsJoin
<1>5. JoinOK(entered)
  <2>1. /\ entered.origin = jumped.origin /\ entered.extents = jumped.extents
        /\ entered.visited = jumped.visited /\ entered.edges = jumped.edges
        /\ entered.endings = jumped.endings
        /\ entered.mergeable = jumped.mergeable \union {t}
        /\ entered.thunkCandidates = jumped.thunkCandidates \union {t}
        /\ entered.thunkRoots = Insert(jumped.thunkRoots, t, root)
    BY <1>3 DEF WalkOK
  <2> HIDE DEF entered
  <2>2. \A x, y : Joined(entered, x, y) <=> Joined(jumped, x, y)
    BY <2>1, SameJoined
  <2>3. Joined(jumped, t, root)
    BY <1>2, <1>3, SameJoined DEF SameRecords
  <2>4. LinksJoin(entered)
    BY <1>4, <2>1, <2>2 DEF JoinOK, LinksJoin
  <2>5. ChainsJoin(entered)
    BY <1>4, <2>1, <2>2, <2>3 DEF JoinOK, ChainsJoin, Insert
  <2>6. FlowIsRecorded(entered)
    BY <1>4, <2>1 DEF JoinOK, FlowIsRecorded
  <2> QED
    BY <2>4, <2>5, <2>6 DEF JoinOK
<1> HIDE DEF entered
<1> QED
  BY <1>1, <1>4, <1>5

\* An instruction that was visited is walked so.
LEMMA InstructionJoins ==
  ASSUME NEW w, Owned(w), JoinOK(w), IsFiniteSet(DOMAIN w.thunkRoots),
         NEW a \in w.visited, a \in Int, Flow(a).length \in Int, Plain(a),
         \A x : InCode(x) => x \in Addresses,
         a \in DOMAIN thunks => Jump(a, thunks[a]) /\ thunks[a] \in Addresses
  PROVE  JoinOK(Instruction(w, a))
<1> DEFINE landed == Landing(w, a)
           demoted == Demote(landed, a)
           here == Record(demoted, a)
           owner == Owner(here, a)
           called == Calls(here, a)
           jumps == Flow(a).kind \in {"branch", "cbranch"}
           followed == IF jumps THEN ReachAny(called, Flow(a).first, owner) ELSE called
           fallen == ReachAny(followed, Flow(a).fall, owner)
<1>1. Instruction(w, a) = IF a \in DOMAIN thunks THEN Thunk(called, a, thunks[a])
                          ELSE IF IsBad(a) THEN followed ELSE fallen
  BY DEF Instruction, IsBad
<1>2. Owned(landed) /\ Kept(w, landed) /\ JoinOK(landed)
  BY LandingOwns, LandingKeeps, LandingJoins DEF Owned
<1> HIDE DEF landed
<1>3. Owned(demoted) /\ a \in demoted.visited /\ JoinOK(demoted)
  <2>1. IsFiniteSet(DOMAIN landed.thunkRoots) /\ WalkOK(landed)
    BY <1>2 DEF Kept
  <2>2. Kept(landed, demoted)
    BY <2>1, DemoteKeeps
  <2>3. Owned(demoted)
    BY <1>2, <2>1, DemoteOwns
  <2>4. JoinOK(demoted)
    BY <1>2, <2>1, DemoteJoins
  <2> HIDE DEF demoted
  <2> QED
    BY <1>2, <2>2, <2>3, <2>4 DEF Kept
<1> HIDE DEF demoted
<1>4. /\ Owned(here) /\ a \in here.visited /\ JoinOK(here)
      /\ ~IsBad(a) => <<a, Flow(a).length>> \in here.extents
  <2>1. Recorded(demoted, here, a)
    BY <1>3, RecordDoes DEF Owned
  <2>2. Owned(here)
    BY <1>3, RecordOwns
  <2>3. JoinOK(here)
    BY <1>3, RecordJoins
  <2> HIDE DEF here
  <2> QED
    BY <1>3, <2>1, <2>2, <2>3 DEF Recorded, IsBad
<1> HIDE DEF here
<1>5. Owns(here, owner) /\ owner = here.origin[a]
  BY <1>4, VisitedIsOwned DEF Owned
<1>6. a \in Addresses /\ Joined(here, a, owner)
  <2>1. a \in DOMAIN here.origin
    BY <1>4 DEF Owned, OriginOK
  <2> HIDE DEF owner
  <2> QED
    BY <1>4, <1>5, <2>1 DEF JoinOK, LinksJoin
<1> HIDE DEF owner
<1>7. ~IsBad(a) => \A t \in Flows(Flow(a)) : t \in Addresses =>
                     Joined(here, t, a) /\ Joined(here, t, owner)
  <2> SUFFICES ASSUME ~IsBad(a), NEW t \in Flows(Flow(a)), t \in Addresses
               PROVE  Joined(here, t, a) /\ Joined(here, t, owner)
    OBVIOUS
  <2> DEFINE e == <<a, Flow(a).length>>
  <2>1. e \in here.extents /\ e[1] = a
    BY <1>4
  <2> HIDE DEF e
  <2>2. Joined(here, t, a)
    BY <1>6, <2>1, FlowJoins
  <2> QED
    BY <1>6, <2>2, JoinedIsEquivalence
<1>8. /\ Owned(called) /\ Owns(called, owner) /\ a \in called.visited
      /\ JoinOK(called) /\ SameRecords(here, called)
  <2>1. Owned(called) /\ Owns(called, owner)
    BY <1>4, <1>5, CallsOwn
  <2>2. JoinOK(called) /\ SameRecords(here, called)
    BY <1>4, CallsJoin
  <2> HIDE DEF called
  <2> QED
    BY <1>4, <2>1, <2>2 DEF SameRecords
<1> HIDE DEF called
<1>9. \A x, y : Joined(called, x, y) <=> Joined(here, x, y)
  BY <1>8, SameJoined DEF SameRecords
<1>10. jumps => ~IsBad(a) /\ Flow(a).first \subseteq Flows(Flow(a))
  BY DEF IsBad, Flows, IsJump, Plain
<1>11. /\ Owned(followed) /\ Owns(followed, owner) /\ JoinOK(followed)
       /\ SameRecords(called, followed)
  <2>1. CASE jumps
    <3> DEFINE reached == ReachAny(called, Flow(a).first, owner)
    <3>1. Owned(reached) /\ Owns(reached, owner)
      BY <1>8, ReachAnyOwns
    <3>2. owner \in called.visited
      BY <1>8 DEF Owns
    <3>3. \A t \in Flow(a).first : t \in Addresses => Joined(called, t, owner)
      BY <1>7, <1>9, <1>10, <2>1
    <3>4. JoinOK(reached) /\ SameRecords(called, reached)
      BY <1>8, <3>2, <3>3, ReachAnyJoins
    <3>5. followed = reached
      BY <2>1
    <3> HIDE DEF reached, followed
    <3> QED
      BY <3>1, <3>4, <3>5
  <2>2. CASE ~ jumps
    BY <1>8, <2>2 DEF SameRecords
  <2> QED
    BY <2>1, <2>2
<1> HIDE DEF followed
<1>12. CASE a \in DOMAIN thunks
  <2> DEFINE t == thunks[a]
  <2>1. t \in Addresses /\ t \in Flows(Flow(a)) /\ ~IsBad(a)
    BY <1>12 DEF Jump, Flows, IsJump, IsBad
  <2>2. Instruction(w, a) = Thunk(called, a, t)
    BY <1>1, <1>12
  <2> HIDE DEF t
  <2>3. Joined(called, t, a)
    BY <1>7, <1>9, <2>1
  <2> QED
    BY <1>8, <2>1, <2>2, <2>3, ThunkJoins
<1>13. CASE a \notin DOMAIN thunks /\ IsBad(a)
  <2>1. Instruction(w, a) = followed
    BY <1>1, <1>13
  <2> QED
    BY <1>11, <2>1
<1>14. CASE a \notin DOMAIN thunks /\ ~IsBad(a)
  <2>1. Instruction(w, a) = fallen
    BY <1>1, <1>14
  <2>2. \A x, y : Joined(followed, x, y) <=> Joined(called, x, y)
    BY <1>11, SameJoined DEF SameRecords
  <2>3. \A t \in Flow(a).fall : t \in Addresses => Joined(followed, t, owner)
    BY <1>7, <1>9, <1>14, <2>2 DEF Flows
  <2>4. owner \in followed.visited
    BY <1>11 DEF Owns
  <2>5. JoinOK(fallen)
    BY <1>11, <2>3, <2>4, ReachAnyJoins
  <2> HIDE DEF fallen
  <2> QED
    BY <2>1, <2>5
<1> QED
  BY <1>12, <1>13, <1>14

\* A possible start is joined to the function that runs into it and takes it.
LEMMA RejectJoins ==
  ASSUME NEW r, Owned(r.walk), JoinOK(r.walk), r.walk.visited \in SUBSET Int,
         IsFiniteSet(r.walk.visited), NEW c \in Addresses, NEW established
  PROVE  JoinOK(Reject(c, r, established).walk)
<1> DEFINE w == r.walk
           owners == {o \in {Owner(w, e[2]) : e \in {d \in w.edges : d[1] = c}} :
                        o # c /\ o \notin r.rejected}
           owner == IF owners \intersect established # {}
                    THEN Min(owners \intersect established) ELSE Min(owners)
           out == r.rejected \union {c}
           merged == MergeReached(w, c, owner, out)
<1>1. \A o \in owners : o \in w.visited /\ Joined(w, c, o)
  <2> SUFFICES ASSUME NEW o \in owners PROVE o \in w.visited /\ Joined(w, c, o)
    OBVIOUS
  <2>1. PICK d \in w.edges : d[1] = c /\ o = Owner(w, d[2])
    OBVIOUS
  <2>2. PICK e \in w.extents : e[1] = d[2] /\ c \in Flows(Flow(d[2]))
    BY <2>1 DEF JoinOK, FlowIsRecorded
  <2>3. d[2] \in w.visited /\ d[2] \in Addresses
    BY <2>2 DEF JoinOK, FlowIsRecorded
  <2>4. Joined(w, c, d[2])
    BY <2>2, <2>3, FlowJoins
  <2>5. o \in w.visited /\ o = w.origin[d[2]] /\ d[2] \in DOMAIN w.origin
    BY <2>1, <2>3, VisitedIsOwned DEF Owned, Owns, OriginOK
  <2>6. Joined(w, d[2], o)
    BY <2>5 DEF JoinOK, LinksJoin
  <2> QED
    BY <2>4, <2>5, <2>6, JoinedIsEquivalence
<1>2. \/ Reject(c, r, established) = r
      \/ Reject(c, r, established) = [rejected |-> out, walk |-> w]
      \/ owners # {} /\ Reject(c, r, established) = [rejected |-> out, walk |-> merged]
  BY DEF Reject
<1> HIDE DEF owners
<1>3. owners # {} => owner \in owners
  <2>1. \A S \in SUBSET owners : S # {} => Min(S) \in owners
    <3> SUFFICES ASSUME NEW S \in SUBSET owners, S # {} PROVE Min(S) \in owners
      OBVIOUS
    <3>1. S \in SUBSET w.visited /\ S \in SUBSET Int
      BY <1>1
    <3>2. IsFiniteSet(S)
      BY <3>1, FS_Subset
    <3> QED
      BY <3>1, <3>2, EndsOfSet
  <2> QED
    BY <2>1
<1> HIDE DEF owner
<1>4. owners # {} => JoinOK(merged)
  BY <1>1, <1>3, MergeJoins
<1> HIDE DEF merged
<1> QED
  BY <1>2, <1>4

LEMMA PassJoins ==
  ASSUME NEW n \in Nat, NEW q, DOMAIN q = 1 .. n, \A k \in 1 .. n : q[k] \in Addresses,
         NEW base, PassOK(base), Owned(base.walk), JoinOK(base.walk),
         base.walk.visited \in SUBSET Int, IsFiniteSet(base.walk.visited), NEW established
  PROVE  JoinOK(Rejects(established, base, q).walk)
<1>0. PICK g : RejectTurns(g, established, base, q, n)
  BY RejectsFold
<1>1. /\ g[1 .. 0] = base
      /\ \A k \in 1 .. n : g[1 .. k] = Reject(q[k], g[1 .. (k - 1)], established)
      /\ g[1 .. n] = Rejects(established, base, q)
  BY <1>0 DEF RejectTurns
<1> DEFINE Good(k) == /\ Owned(g[1 .. k].walk) /\ JoinOK(g[1 .. k].walk) /\ PassOK(g[1 .. k])
                      /\ g[1 .. k].walk.visited = base.walk.visited
           Bad == {k \in 0 .. n : ~ Good(k)}
<1>2. Good(0)
  BY <1>1
<1>3. ASSUME NEW k \in 1 .. n, Good(k - 1) PROVE Good(k)
  <2> DEFINE r == g[1 .. (k - 1)]
             u == g[1 .. k]
  <2>1. /\ Owned(r.walk) /\ JoinOK(r.walk) /\ PassOK(r)
        /\ r.walk.visited = base.walk.visited
    BY <1>3
  <2>2. u = Reject(q[k], r, established) /\ q[k] \in Addresses
    BY <1>1
  <2> HIDE DEF r, u
  <2>3. Rejected(r, u, {q[k]})
    BY <2>1, <2>2, RejectDoes
  <2>4. Owned(u.walk)
    BY <2>1, <2>2, RejectOwns
  <2>5. JoinOK(u.walk)
    BY <2>1, <2>2, RejectJoins
  <2>6. PassOK(u) /\ u.walk.visited = base.walk.visited
    BY <2>1, <2>3 DEF Rejected, Kept
  <2> QED
    BY <2>4, <2>5, <2>6 DEF u
<1>4. Bad = {}
  <2> HIDE DEF Good
  <2> SUFFICES ASSUME Bad # {} PROVE FALSE
    OBVIOUS
  <2>1. PICK k \in Bad : \A m \in Bad : k <= m
    <3>1. Bad \in SUBSET Nat
      OBVIOUS
    <3> HIDE DEF Bad
    <3> QED
      BY <3>1, LeastNumber
  <2>2. k \in 1 .. n /\ k - 1 \in 0 .. n /\ ~ (k <= k - 1)
    BY <1>2, <2>1
  <2>3. Good(k - 1)
    BY <2>1, <2>2
  <2> QED
    BY <1>3, <2>1, <2>2, <2>3
<1>5. Good(n)
  <2> HIDE DEF Good
  <2> QED
    BY <1>4
<1> QED
  BY <1>1, <1>5

-----------------------------------------------------------------------------
(* The instructions of a linkage stub. *)

\* A straight line of instructions from t that an indirect jump ends at `end`, unless
\* an instruction of it was lost.
IsLine(line, t, end) ==
  /\ t \in line /\ line \subseteq Addresses
  /\ \A a \in line :
       LET next == a + Flow(a).length
       IN  \/ Flow(a).kind = "fall" /\ Flow(a).fall = {next} /\ next \in line
           \/ Flow(a).kind = "branchInd" /\ next = end
           \/ Flow(a).kind = "bad"

\* Up to the indirect jump, the shape of a stub and its line are the same.
LEMMA StubIsLine ==
  ASSUME NEW w, FlowIsRecorded(w), HasSlots, w.visited \in SUBSET Int, IsFiniteSet(w.visited),
         \A a \in w.visited : Flow(a).length \in Nat,
         NEW t \in Int, LinkageShape(w, t), NEW line, NEW end, IsLine(line, t, end)
  PROVE  \E terminal \in w.visited :
           /\ <<terminal, Flow(terminal).length>> \in w.extents
           /\ Flow(terminal).kind = "branchInd" /\ terminal + Flow(terminal).length = end
           /\ Joined(w, t, terminal)
           /\ \A e \in w.extents : t <= e[1] /\ e[1] <= terminal => Joined(w, t, e[1])
<1> DEFINE ends == {e \in w.endings : e[1] >= t}
           terminal == Min({e[1] : e \in ends})
           between == {k \in w.extents : t <= k[1] /\ k[1] <= terminal}
           B == {k[1] : k \in between}
<1>0. /\ t \in line /\ line \subseteq Addresses
      /\ \A a \in line : \/ /\ Flow(a).kind = "fall"
                            /\ Flow(a).fall = {a + Flow(a).length} /\ a + Flow(a).length \in line
                         \/ Flow(a).kind = "branchInd" /\ a + Flow(a).length = end
                         \/ Flow(a).kind = "bad"
  BY DEF IsLine
<1>1. /\ ends # {} /\ <<terminal, TRUE>> \in ends
      /\ t \in B /\ terminal \in B
      /\ \A k \in between : k[2] # 0 /\ (k[1] = terminal \/ k[1] + k[2] \in B)
      /\ \A k, l \in between : k[1] < l[1] => k[1] + k[2] <= l[1]
  BY DEF LinkageShape
<1>2. terminal \in Int /\ \A e \in ends : terminal <= e[1]
  <2> DEFINE S == {e[1] : e \in ends}
  <2>1. S \in SUBSET w.visited /\ S # {}
    BY <1>1 DEF FlowIsRecorded
  <2>2. IsFiniteSet(S) /\ S \in SUBSET Int
    BY <2>1, FS_Subset
  <2>3. \A e \in ends : e[1] \in S
    OBVIOUS
  <2> HIDE DEF S
  <2>4. Min(S) \in S /\ \A x \in S : Min(S) <= x
    BY <2>1, <2>2, EndsOfSet
  <2> QED
    BY <2>2, <2>3, <2>4 DEF S
<1>3. Flow(terminal).kind = "branchInd"
  <2>1. <<terminal, TRUE>> \in w.endings
    BY <1>1
  <2> HIDE DEF terminal
  <2>2. <<terminal, TRUE>>[2] = (Flow(<<terminal, TRUE>>[1]).kind = "branchInd")
    BY <2>1, Zenon DEF FlowIsRecorded
  <2>3. <<terminal, TRUE>>[1] = terminal /\ <<terminal, TRUE>>[2] = TRUE
    OBVIOUS
  <2> QED
    BY <2>2, <2>3, Zenon
<1>4. \A x \in B : /\ x \in w.visited /\ x \in Int /\ t <= x /\ x <= terminal
                   /\ <<x, Flow(x).length>> \in between
                   /\ Flow(x).length \in Nat
  <2> SUFFICES ASSUME NEW k \in between
               PROVE  /\ k[1] \in w.visited /\ k[1] \in Int
                      /\ k = <<k[1], Flow(k[1]).length>> /\ Flow(k[1]).length \in Nat
    BY Zenon
  <2> QED
    BY DEF FlowIsRecorded
<1>5. \A x \in B : x # terminal => Flow(x).kind = "fall"
  <2> SUFFICES ASSUME NEW x \in B, x # terminal, Flow(x).kind # "fall" PROVE FALSE
    OBVIOUS
  <2>1. PICK e \in w.extents : e[1] = x
    OBVIOUS
  <2>2. PICK n \in w.endings : n[1] = x
    BY <2>1 DEF FlowIsRecorded
  <2>3. t <= x /\ x <= terminal /\ x \in Int
    BY <1>4
  <2>4. n \in ends
    BY <2>2, <2>3
  <2>5. terminal <= x
    BY <1>2, <2>2, <2>4
  <2> QED
    BY <1>2, <2>3, <2>5
<1>6. \A x \in B : /\ Flow(x).length # 0
                   /\ x # terminal => x + Flow(x).length \in B
                   /\ \A y \in B : x < y => x + Flow(x).length <= y
  <2> SUFFICES ASSUME NEW x \in B
               PROVE  /\ Flow(x).length # 0
                      /\ x # terminal => x + Flow(x).length \in B
                      /\ \A y \in B : x < y => x + Flow(x).length <= y
    OBVIOUS
  <2> DEFINE k == <<x, Flow(x).length>>
  <2>1. k \in between /\ k[1] = x /\ k[2] = Flow(x).length
    BY <1>4
  <2> HIDE DEF k, between
  <2>2. Flow(x).length # 0 /\ (x # terminal => x + Flow(x).length \in B)
    BY <1>1, <2>1
  <2>3. ASSUME NEW y \in B, x < y PROVE x + Flow(x).length <= y
    <3>1. PICK l \in between : l[1] = y
      BY <2>3
    <3> QED
      BY <1>1, <2>1, <2>3, <3>1
  <2> QED
    BY <2>2, <2>3
<1>7. B \in SUBSET Int /\ IsFiniteSet(B)
  <2>1. B \in SUBSET w.visited
    BY <1>4
  <2> QED
    BY <2>1, FS_Subset
<1>8. \A x \in B : \E e \in w.extents : e[1] = x
  OBVIOUS
<1>9. \A e \in w.extents : t <= e[1] /\ e[1] <= terminal => e[1] \in B
  OBVIOUS
<1>10. t \in B /\ terminal \in B
  BY <1>1
<1>11. \A x \in B : <<x, Flow(x).length>> \in w.extents
  BY <1>4
<1>14. \A x \in B : x \in Int /\ t <= x /\ x <= terminal /\ Flow(x).length \in Nat
  BY <1>4
<1> HIDE DEF B, terminal, ends, between
<1> DEFINE Good(x) == x \in line /\ Joined(w, t, x)
           Bad == {x \in B : ~ Good(x)}
<1>12. Bad = {}
  <2> SUFFICES ASSUME Bad # {} PROVE FALSE
    OBVIOUS
  <2>1. PICK b \in Bad : \A y \in Bad : b <= y
    <3>1. Bad \in SUBSET Int /\ IsFiniteSet(Bad)
      <4>1. Bad \in SUBSET B
        OBVIOUS
      <4> HIDE DEF Bad
      <4> QED
        BY <1>7, <4>1, FS_Subset
    <3> HIDE DEF Bad
    <3> QED
      BY <3>1, EndsOfSet
  <2>2. Good(t)
    BY <1>0, JoinedIsEquivalence
  <2>3. b \in B /\ b \in Int /\ t < b /\ b <= terminal
    <3>1. b \in B /\ b # t
      BY <2>1, <2>2
    <3> HIDE DEF Bad, Good
    <3> QED
      BY <1>14, <3>1
  <2> DEFINE L == {x \in B : x < b}
             m == Max(L)
  <2>4. m \in L /\ \A x \in L : x <= m
    <3>1. L \in SUBSET B /\ t \in L
      BY <1>10, <2>3
    <3> HIDE DEF L
    <3>2. IsFiniteSet(L) /\ L \in SUBSET Int
      BY <1>7, <3>1, FS_Subset
    <3> QED
      BY <3>1, <3>2, EndsOfSet
  <2> HIDE DEF m
  <2>5. m \in B /\ m < b /\ m \in Int /\ m # terminal
    <3>1. m \in B /\ m < b
      BY <2>4
    <3> HIDE DEF L
    <3> QED
      BY <1>2, <1>14, <2>3, <3>1
  <2>6. m \in line /\ Joined(w, t, m)
    BY <2>1, <2>3, <2>5
  <2> DEFINE next == m + Flow(m).length
  <2>7. Flow(m).fall = {next} /\ next \in line
    BY <1>0, <1>5, <2>5, <2>6
  <2>8. next \in B /\ next <= b /\ m < next
    <3>1. Flow(m).length \in Nat \ {0} /\ m \in Int
      BY <1>6, <1>14, <2>5
    <3>2. next \in B /\ next <= b
      BY <1>6, <2>3, <2>5
    <3> QED
      BY <3>1, <3>2
  <2>9. next = b
    <3>1. next \in Int
      BY <1>7, <2>8
    <3>2. next < b => next \in L
      BY <2>8
    <3> HIDE DEF next, L
    <3> QED
      BY <2>3, <2>4, <2>5, <2>8, <3>1, <3>2
  <2>10. Joined(w, m, b)
    <3>1. PICK e \in w.extents : e[1] = m
      BY <1>8, <2>5
    <3>2. b \in Flows(Flow(e[1])) /\ e[1] \in Addresses /\ b \in Addresses
      BY <1>0, <2>6, <2>7, <2>9, <3>1 DEF Flows
    <3> QED
      BY <3>1, <3>2, FlowJoins
  <2>11. Good(b)
    BY <2>6, <2>7, <2>9, <2>10, JoinedIsEquivalence
  <2> QED
    BY <2>1, <2>11
<1>13. terminal + Flow(terminal).length = end
  <2>1. terminal \in line
    BY <1>10, <1>12
  <2> QED
    BY <1>0, <1>3, <2>1
<1> QED
  BY <1>3, <1>4, <1>9, <1>10, <1>11, <1>12, <1>13

\* What a promotion gives to a stub is joined to it.
LEMMA StubJoins ==
  ASSUME NEW w, FlowIsRecorded(w), HasSlots, w.visited \in SUBSET Int, IsFiniteSet(w.visited),
         Sound(program), NEW t \in Int, t \in Addresses, LinkageShape(w, t),
         program.linkages[t].length # 0,
         NEW e \in w.extents, t <= e[1], e[1] - t < program.linkages[t].length
  PROVE  e[1] \in Addresses /\ Joined(w, e[1], t)
<1> DEFINE length == program.linkages[t].length
           a == e[1]
<1>1. \A x \in Addresses : Flow(x).length \in Nat
  BY DEF Sound, Addresses, Flow
<1>2. /\ length \in Nat
      /\ \E line \in SUBSET Addresses :
           /\ t \in line
           /\ \A x \in line : LET next == x + Flow(x).length
                              IN  \/ Flow(x).kind = "fall" /\ Flow(x).fall = {next}
                                       /\ next \in line
                                  \/ Flow(x).kind = "branchInd" /\ next = t + length
                                  \/ Flow(x).kind = "bad"
  <2>1. \A p : Sound(p) => \A x \in DOMAIN p.flow :
          /\ p.linkages[x].length \in Nat
          /\ p.linkages[x].length # 0 =>
              \E line \in SUBSET DOMAIN p.flow :
                /\ x \in line
                /\ \A y \in line :
                     LET end == y + p.flow[y].length
                     IN  \/ p.flow[y].kind = "fall" /\ p.flow[y].fall = {end} /\ end \in line
                         \/ p.flow[y].kind = "branchInd" /\ end = x + p.linkages[x].length
                         \/ p.flow[y].kind = "bad"
    BY Zenon DEF Sound
  <2> QED
    BY <2>1, Zenon DEF Addresses, Flow
<1> HIDE DEF length
<1>3. PICK line : IsLine(line, t, t + length)
  BY <1>2, Zenon DEF IsLine
<1>4. \A x \in w.visited : x \in Addresses /\ Flow(x).length \in Nat
  BY <1>1 DEF FlowIsRecorded
<1>5. PICK terminal \in w.visited :
        /\ <<terminal, Flow(terminal).length>> \in w.extents
        /\ Flow(terminal).kind = "branchInd" /\ terminal + Flow(terminal).length = t + length
        /\ Joined(w, t, terminal)
        /\ \A k \in w.extents : t <= k[1] /\ k[1] <= terminal => Joined(w, t, k[1])
  <2> DEFINE end == t + length
  <2>1. IsLine(line, t, end) /\ \A x \in w.visited : Flow(x).length \in Nat
    BY <1>3, <1>4
  <2> HIDE DEF end
  <2>2. \E terminal \in w.visited :
           /\ <<terminal, Flow(terminal).length>> \in w.extents
           /\ Flow(terminal).kind = "branchInd" /\ terminal + Flow(terminal).length = end
           /\ Joined(w, t, terminal)
           /\ \A k \in w.extents : t <= k[1] /\ k[1] <= terminal => Joined(w, t, k[1])
    BY <2>1, StubIsLine
  <2> QED
    BY <2>2 DEF end
<1>6. a \in w.visited /\ a \in Int /\ a \in Addresses /\ terminal \in Int /\ terminal \in Addresses
  BY <1>4, <1>5 DEF FlowIsRecorded
<1>7. Joined(w, t, a)
  <2>1. CASE a <= terminal
    BY <1>5, <2>1
  <2>2. CASE ~ (a <= terminal)
    <3> DEFINE k == <<terminal, Flow(terminal).length>>
               d == <<terminal, a>>
    <3>1. k \in w.extents /\ k[1] = terminal /\ k[2] = Flow(terminal).length
      BY <1>5
    <3>2. terminal < a /\ a < terminal + Flow(terminal).length
      <4>1. a < t + length
        BY <1>2, <1>6 DEF length
      <4> QED
        BY <1>5, <1>6, <2>2, <4>1
    <3> HIDE DEF k, a
    <3>3. Inside(a, {k})
      BY <3>1, <3>2 DEF Inside
    <3>4. d \in SharedBytesOf(w)
      <4> DEFINE q == <<k, e>>
      <4>1. q \in w.extents \X w.extents /\ q[1] = k /\ q[2] = e /\ e[1] = a
        BY <3>1 DEF a
      <4> HIDE DEF q
      <4>2. q \in {p \in w.extents \X w.extents :
                     Flow(p[1][1]).kind = "branchInd" /\ Inside(p[2][1], {p[1]})}
        BY <1>5, <3>1, <3>3, <4>1
      <4> QED
        BY <3>1, <4>1, <4>2 DEF SharedBytesOf
    <3>5. d \in Joins(w) /\ d[1] = terminal /\ d[2] = a
      BY <1>6, <3>4 DEF Joins
    <3> HIDE DEF d
    <3>6. Joined(w, terminal, a)
      BY <3>5, EdgesJoin
    <3> QED
      BY <1>5, <3>6, JoinedIsEquivalence
  <2> QED
    BY <2>1, <2>2
<1> QED
  BY <1>6, <1>7, JoinedIsEquivalence

\* A promotion keeps what is joined: p is the result of those before it, over the walk w.
JoinsOver(w, p) == PromotingOK(p) /\ p.walk.extents = w.extents /\ LinksJoin(p.walk)
StubsOK(w) ==
  /\ FlowIsRecorded(w) /\ w.visited \in SUBSET Int /\ IsFiniteSet(w.visited)
  /\ Sound(program)

LEMMA PromoteJoins ==
  ASSUME NEW w, StubsOK(w), NEW p, JoinsOver(w, p),
         NEW t \in Int, t \in Addresses, LinkageShape(w, t), NEW slot
  PROVE  JoinsOver(w, PromoteLinkage(p, t, slot))
<1> DEFINE length == program.linkages[t].length
           own == {k[1] : k \in {l \in p.walk.extents : t <= l[1] /\ l[1] - t < length}}
           u == PromoteLinkage(p, t, slot)
<1>1. CASE u = p
  BY <1>1
<1>2. CASE u # p
  <2>1. /\ length # 0 /\ HasSlots
        /\ u = [functions |-> Insert(p.functions, t, length),
                walk |-> [p.walk EXCEPT !.entries = @ \union {t},
                                        !.origin = InsertAll(@, [a \in own \union {t} |-> t])],
                changed |-> TRUE]
    BY <1>2 DEF PromoteLinkage, HasSlots
  <2>2. \A a \in own : a \in Addresses /\ Joined(w, a, t)
    <3> SUFFICES ASSUME NEW e \in w.extents, t <= e[1], e[1] - t < length
                 PROVE  e[1] \in Addresses /\ Joined(w, e[1], t)
      BY DEF JoinsOver
    <3> QED
      BY <2>1, StubJoins DEF StubsOK
  <2> HIDE DEF own, length
  <2>3. PromotingOK(u) /\ u.walk.extents = p.walk.extents
    BY PromoteDoes DEF Promoted, JoinsOver
  <2>4. u.walk.origin = InsertAll(p.walk.origin, [a \in own \union {t} |-> t])
    <3> DEFINE o == InsertAll(p.walk.origin, [a \in own \union {t} |-> t])
               en == p.walk.entries \union {t}
    <3>1. u.walk = [p.walk EXCEPT !.entries = en, !.origin = o]
      BY <2>1
    <3> HIDE DEF o, en, u
    <3>2. u.walk.origin = o
      BY <3>1 DEF JoinsOver, PromotingOK, WalkOK
    <3> QED
      BY <3>2 DEF o
  <2> HIDE DEF u
  <2>5. \A x, y : Joined(u.walk, x, y) <=> Joined(w, x, y)
    BY <2>3, SameJoined DEF JoinsOver
  <2>6. \A x, y : Joined(p.walk, x, y) <=> Joined(w, x, y)
    BY SameJoined DEF JoinsOver
  <2>7. /\ DOMAIN u.walk.origin = DOMAIN p.walk.origin \union own \union {t}
        /\ \A x \in DOMAIN u.walk.origin :
             u.walk.origin[x] = IF x \in own \union {t} THEN t ELSE p.walk.origin[x]
    BY <2>4 DEF InsertAll
  <2>8. ASSUME NEW x \in DOMAIN u.walk.origin
        PROVE  x \in Addresses /\ Joined(u.walk, x, u.walk.origin[x])
    <3>1. CASE x \in own \union {t}
      <4>1. x \in Addresses /\ Joined(w, x, t) /\ u.walk.origin[x] = t
        BY <2>2, <2>7, <3>1, JoinedIsEquivalence
      <4> QED
        BY <2>5, <4>1
    <3>2. CASE x \notin own \union {t}
      <4>1. x \in DOMAIN p.walk.origin /\ u.walk.origin[x] = p.walk.origin[x]
        BY <2>7, <3>2
      <4> QED
        BY <2>5, <2>6, <4>1 DEF JoinsOver, LinksJoin
    <3> QED
      BY <3>1, <3>2
  <2> QED
    BY <2>3, <2>8 DEF JoinsOver, LinksJoin, u
<1> QED
  BY <1>1, <1>2

\* Stubs that are promoted in turn, each of the right shape in the walk w.
IsStub(w, t) == t \in Int /\ t \in Addresses /\ LinkageShape(w, t)

LEMMA TurnJoins ==
  ASSUME NEW w, StubsOK(w), NEW p, JoinsOver(w, p), NEW t, IsStub(w, t),
         NEW f, f.of \in {"promote", "context"}
  PROVE  JoinsOver(w, Turn(f, t, p))
<1>1. CASE f.of = "promote"
  <2>1. Turn(f, t, p) = PromoteLinkage(p, t, program.linkages[t].slot)
    BY <1>1 DEF Turn
  <2> QED
    BY <2>1, PromoteJoins DEF IsStub
<1>2. CASE f.of = "context"
  <2> DEFINE slot == CHOOSE s \in ContextSlot(p.walk, t) : TRUE
  <2>1. Turn(f, t, p) = p \/ Turn(f, t, p) = PromoteLinkage(p, t, slot)
    BY <1>2 DEF Turn
  <2> HIDE DEF slot
  <2> QED
    BY <2>1, PromoteJoins DEF IsStub
<1> QED
  BY <1>1, <1>2

LEMMA TurnsJoin ==
  ASSUME NEW w, StubsOK(w), NEW n \in Nat, NEW q, \A k \in 1 .. n : IsStub(w, q[k]),
         NEW base, JoinsOver(w, base),
         NEW f, f.of \in {"promote", "context"}, NEW g, InTurns(g, f, base, q, n)
  PROVE  JoinsOver(w, g[1 .. n])
<1> DEFINE Good(k) == JoinsOver(w, g[1 .. k])
           Bad == {k \in 0 .. n : ~ Good(k)}
<1>1. Good(0)
  BY DEF InTurns
<1>2. ASSUME NEW k \in 1 .. n, Good(k - 1) PROVE Good(k)
  <2>1. g[1 .. k] = Turn(f, q[k], g[1 .. (k - 1)])
    BY DEF InTurns
  <2> DEFINE r == g[1 .. (k - 1)]
  <2>2. JoinsOver(w, r) /\ IsStub(w, q[k])
    BY <1>2
  <2> HIDE DEF r
  <2>3. JoinsOver(w, Turn(f, q[k], r))
    BY <2>2, TurnJoins
  <2> QED
    BY <2>1, <2>3 DEF r
<1>3. Bad = {}
  <2> HIDE DEF Good
  <2> SUFFICES ASSUME Bad # {} PROVE FALSE
    OBVIOUS
  <2>1. PICK k \in Bad : \A m \in Bad : k <= m
    <3>1. Bad \in SUBSET Nat
      OBVIOUS
    <3> HIDE DEF Bad
    <3> QED
      BY <3>1, LeastNumber
  <2>2. k \in 1 .. n /\ k - 1 \in 0 .. n /\ ~ (k <= k - 1)
    BY <1>1, <2>1
  <2>3. Good(k - 1)
    BY <2>1, <2>2
  <2> QED
    BY <1>2, <2>1, <2>2, <2>3
<1>4. Good(n)
  <2> HIDE DEF Good
  <2> QED
    BY <1>3
<1> QED
  BY <1>4

LEMMA BothJoin ==
  ASSUME NEW w, StubsOK(w), NEW S \in SUBSET Int, IsFiniteSet(S), \A t \in S : IsStub(w, t),
         NEW base, JoinsOver(w, base)
  PROVE  /\ JoinsOver(w, Promotions(base, InOrder(S)))
         /\ JoinsOver(w, ContextPromotions(base, InOrder(S)))
<1> DEFINE n == Cardinality(S)
           q == InOrder(S)
<1>1. n \in Nat /\ DOMAIN q = 1 .. n /\ \A k \in 1 .. n : IsStub(w, q[k])
  <2>1. n \in Nat /\ q \in [1 .. n -> S]
    BY InOrderLists
  <2> HIDE DEF n, q
  <2> QED
    BY <2>1
<1> HIDE DEF n, q
<1>2. PICK g : InTurns(g, [of |-> "promote"], base, q, n) /\ g[1 .. n] = Promotions(base, q)
  BY <1>1, PromotionsFold
<1>3. PICK h : /\ InTurns(h, [of |-> "context"], base, q, n)
               /\ h[1 .. n] = ContextPromotions(base, q)
  BY <1>1, ContextPromotionsFold
<1>4. JoinsOver(w, g[1 .. n])
  <2> DEFINE f == [of |-> "promote"]
  <2>1. f.of \in {"promote", "context"} /\ InTurns(g, f, base, q, n)
    BY <1>2
  <2> HIDE DEF f
  <2> QED
    BY <1>1, <2>1, TurnsJoin
<1>5. JoinsOver(w, h[1 .. n])
  <2> DEFINE f == [of |-> "context"]
  <2>1. f.of \in {"promote", "context"} /\ InTurns(h, f, base, q, n)
    BY <1>3
  <2> HIDE DEF f
  <2> QED
    BY <1>1, <2>1, TurnsJoin
<1> QED
  BY <1>2, <1>3, <1>4, <1>5 DEF q

-----------------------------------------------------------------------------
(* What the owners are joined to, from step to step. *)

JoinInv ==
  /\ phase \in {"seeds", "relocs", "patterns", "linkages"} => JoinOK(walk)
  /\ phase \in {"finish", "done"} => LinksJoin(walk)
  /\ \A a \in DOMAIN thunks : thunks[a] \in Addresses

\* The image does not change.
LEMMA JoinIsCarried ==
  ASSUME program' = program
  PROVE  /\ Addresses' = Addresses
         /\ LinksJoin(walk)' <=> LinksJoin(walk')
         /\ JoinOK(walk)' <=> JoinOK(walk')
<1>1. Addresses' = Addresses /\ (HasSlots' <=> HasSlots)
  BY DEF Addresses, HasSlots
<1>2. \A a : Flow(a)' = Flow(a)
  BY DEF Flow
<1>3. FlowsOf(walk)' = FlowsOf(walk')
  BY <1>2 DEF FlowsOf, Flows, IsJump
<1>4. SharedBytesOf(walk)' = SharedBytesOf(walk')
  BY <1>2 DEF SharedBytesOf, Inside
<1>5. Joins(walk)' = Joins(walk')
  BY <1>1, <1>3, <1>4 DEF Joins
<1>6. \A x, y : Joined(walk, x, y)' <=> Joined(walk', x, y)
  BY <1>5 DEF Joined, IsUndivided
<1>7. LinksJoin(walk)' <=> LinksJoin(walk')
  BY <1>1, <1>6 DEF LinksJoin
<1>8. ChainsJoin(walk)' <=> ChainsJoin(walk')
  BY <1>1, <1>6 DEF ChainsJoin
<1>9. FlowIsRecorded(walk)' <=> FlowIsRecorded(walk')
  BY <1>1, <1>2 DEF FlowIsRecorded, Flows, IsJump
<1> QED
  BY <1>1, <1>7, <1>8, <1>9 DEF JoinOK

LEMMA CodeIsAddresses ==
  ASSUME ShapeInv
  PROVE  /\ \A x : InCode(x) => x \in Addresses
         /\ Code(program) \subseteq Addresses /\ Code(program) \subseteq Int
         /\ walk.visited \subseteq Addresses
         /\ walk.visited \in SUBSET Int /\ IsFiniteSet(walk.visited)
         /\ Places(program) \subseteq Addresses
<1>1. Sound(program) /\ walk.visited \in SUBSET Code(program)
  BY DEF ShapeInv
<1>2. IsFiniteSet(Code(program)) /\ Code(program) \subseteq Addresses
  BY <1>1, CodeIsFinite DEF Addresses
<1>3. Code(program) \subseteq Int
  BY DEF Code
<1>4. IsFiniteSet(walk.visited)
  BY <1>1, <1>2, FS_Subset
<1>5. Places(program) \subseteq Addresses
  BY <1>1 DEF Sound, Places, Addresses
<1> QED
  BY <1>1, <1>2, <1>3, <1>4, <1>5, InCodeIsCode

LEMMA JoinInit == ASSUME Init PROVE JoinInv
<1>1. phase \in {"sweep", "start"} /\ DOMAIN thunks = {}
  BY DEF Init
<1> QED
  BY <1>1 DEF JoinInv

LEMMA JoinSweep == ASSUME NoneBefore, Sweep PROVE JoinInv'
<1>1. thunks' = <<>> /\ phase' = "start"
  BY DEF Sweep, NoneBefore
<1> QED
  BY <1>1 DEF JoinInv

LEMMA JoinGiveUp == ASSUME JoinInv, GiveUp PROVE JoinInv'
<1>1. program' = program /\ thunks' = thunks /\ phase' = "error"
  BY GiveUpDoes
<1> QED
  BY <1>1, JoinIsCarried DEF JoinInv

\* The first entries are in code, and own themselves.
LEMMA JoinStart == ASSUME ShapeInv, OwnersInv, JoinInv, Start PROVE JoinInv'
<1>1. phase = "start" /\ phase' = "seeds" /\ thunks' = thunks /\ program' = program
  BY DEF Start
<1>2. PICK seeds : /\ walk' = [walk EXCEPT !.entries = seeds, !.active = seeds,
                                           !.origin = [f \in seeds |-> f]]
                   /\ \A f \in seeds : InCode(f)
  <2> DEFINE stubs == {p \in program.plt :
                         LET l == program.linkages[p[1]]
                         IN  /\ HasSlots /\ l.length # 0 /\ l.length <= p[2]
                             /\ l.slot \in program.slots /\ Within(p[1], l.length)
                             /\ p[1] \notin DOMAIN functions}
             Seeds(S) ==
               {f \in DOMAIN InsertAll(functions,
                                       [g \in {p[1] : p \in S} |-> program.linkages[g].length])
                        \union program.slots : f # 0 /\ InCode(f)}
  <2>1. \E lost : walk' = [walk EXCEPT !.entries = Seeds(stubs \ lost),
                                       !.active = Seeds(stubs \ lost),
                                       !.origin = [f \in Seeds(stubs \ lost) |-> f]]
    BY Zenon DEF Start
  <2>2. \A S : \A f \in Seeds(S) : InCode(f)
    OBVIOUS
  <2> HIDE DEF Seeds, stubs
  <2> QED
    BY <2>1, <2>2
<1>3. walk = [NoWalk EXCEPT !.candidates = walk.candidates]
  BY <1>1 DEF OwnersInv
<1>4. /\ walk'.origin = [f \in seeds |-> f] /\ walk'.visited = {} /\ walk'.extents = {}
      /\ walk'.thunkRoots = <<>> /\ walk'.mergeable = {} /\ walk'.thunkCandidates = {}
      /\ walk'.edges = {} /\ walk'.endings = {}
  BY <1>2, <1>3 DEF NoWalk
<1>5. LinksJoin(walk')
  BY <1>2, <1>4, CodeIsAddresses, JoinedIsEquivalence DEF LinksJoin
<1>6. ChainsJoin(walk') /\ FlowIsRecorded(walk')
  BY <1>4 DEF ChainsJoin, FlowIsRecorded
<1>7. JoinOK(walk)'
  BY <1>1, <1>5, <1>6, JoinIsCarried DEF JoinOK
<1> QED
  BY <1>1, <1>7, JoinIsCarried DEF JoinInv

LEMMA JoinRound == ASSUME ShapeInv, JoinInv, Round PROVE JoinInv'
<1>1. /\ Walking /\ phase' = phase /\ thunks' = thunks /\ program' = program
      /\ walk' = [walk EXCEPT !.visited = @ \union ToQuery(walk), !.active = {}]
  BY DEF Round
<1>2. JoinOK(walk)
  BY <1>1 DEF JoinInv, Walking
<1>3. /\ walk'.origin = walk.origin /\ walk'.extents = walk.extents
      /\ walk'.visited = walk.visited \union ToQuery(walk)
      /\ walk'.edges = walk.edges /\ walk'.endings = walk.endings
      /\ walk'.mergeable = walk.mergeable /\ walk'.thunkRoots = walk.thunkRoots
      /\ walk'.thunkCandidates = walk.thunkCandidates
  BY <1>1 DEF ShapeInv, WalkOK
<1>4. \A x, y : Joined(walk', x, y) <=> Joined(walk, x, y)
  BY <1>3, SameJoined
<1>5. LinksJoin(walk') /\ ChainsJoin(walk')
  BY <1>2, <1>3, <1>4 DEF JoinOK, LinksJoin, ChainsJoin
<1>6. FlowIsRecorded(walk')
  <2>1. walk'.visited \subseteq Addresses
    BY <1>2, <1>3, RoundDoes, CodeIsAddresses DEF JoinOK, FlowIsRecorded
  <2> QED
    BY <1>2, <1>3, <2>1 DEF JoinOK, FlowIsRecorded
<1>7. JoinOK(walk)'
  BY <1>1, <1>5, <1>6, JoinIsCarried DEF JoinOK
<1> QED
  BY <1>1, <1>7, JoinIsCarried DEF JoinInv, Walking

\* A confirmed thunk's target decodes.
LEMMA JoinQuery == ASSUME ShapeInv, JoinInv, QueryChunk PROVE JoinInv'
<1> DEFINE set == ToSet(SubSeq(queue, 1, Min({ChunkSize, Len(queue)})))
           linked == [walk EXCEPT !.linkage = @ \union LinkageCandidates(walk, set)]
<1>1. /\ Walking /\ phase' = phase /\ program' = program /\ walk' \in {walk, linked}
      /\ \/ thunks' \in {<<>>, thunks}
         \/ \E S : thunks' = Restrict(ConfirmedThunks(linked, set),
                                      DOMAIN ConfirmedThunks(linked, set) \ S)
  BY DEF QueryChunk
<1> HIDE DEF set
<1>2. JoinOK(walk)
  BY <1>1 DEF JoinInv, Walking
<1>3. SameRecords(walk, walk') /\ walk'.origin = walk.origin
  BY <1>1 DEF ShapeInv, WalkOK, SameRecords
<1>4. LinksJoin(walk')
  BY <1>2, <1>3, SameJoined DEF SameRecords, JoinOK, LinksJoin
<1>5. JoinOK(walk)'
  BY <1>1, <1>2, <1>3, <1>4, SameRecordsJoin, JoinIsCarried
<1> HIDE DEF linked
<1>6. ASSUME NEW t, t = ConfirmedThunks(linked, set), NEW a \in DOMAIN t
      PROVE  t[a] \in Addresses
  <2>1. t[a] = (CHOOSE u \in Flow(a).targets : TRUE)
        /\ \E u \in Flow(a).targets : Flow(a).targets = {u} /\ Decodes(u)
    BY <1>6 DEF ConfirmedThunks
  <2> QED
    BY <2>1 DEF Decodes, Addresses
<1>7. \A a \in DOMAIN thunks' : thunks'[a] \in Addresses
  <2>1. CASE thunks' = <<>>
    BY <2>1
  <2>2. CASE thunks' = thunks
    BY <2>2 DEF JoinInv
  <2> DEFINE confirmed == ConfirmedThunks(linked, set)
  <2>3. \A a \in DOMAIN confirmed : confirmed[a] \in Addresses
    BY <1>6
  <2> HIDE DEF confirmed
  <2>4. ASSUME NEW S, thunks' = Restrict(confirmed, DOMAIN confirmed \ S)
        PROVE  \A a \in DOMAIN thunks' : thunks'[a] \in Addresses
    BY <2>3, <2>4 DEF Restrict
  <2> QED
    BY <1>1, <2>1, <2>2, <2>4 DEF confirmed
<1> QED
  BY <1>1, <1>5, <1>7, JoinIsCarried DEF JoinInv, Walking

LEMMA JoinWalk == ASSUME ShapeInv, ReachInv, OwnersInv, JoinInv, WalkInstruction PROVE JoinInv'
<1> DEFINE a == Head(chunk)
<1>1. /\ Walking /\ phase' = phase /\ program' = program /\ thunks' = thunks
      /\ walk' = Instruction(walk, a)
  BY DEF WalkInstruction
<1>2. Owned(walk) /\ JoinOK(walk) /\ IsFiniteSet(DOMAIN walk.thunkRoots)
  BY <1>1 DEF OwnersInv, JoinInv, Walking, ShapeInv
<1>3. a \in Code(program) /\ a \in ToSet(chunk)
  BY WalkDoes
<1> HIDE DEF a
<1>4. a \in walk.visited
  BY <1>3 DEF ReachInv, VisitsAreWalked
<1>5. a \in Int /\ a \in DOMAIN program.flow /\ Sound(program)
  BY <1>3, CodeIsAddresses DEF ShapeInv, Addresses
<1>6. Flow(a).length \in Int /\ Plain(a)
  <2>1. /\ program.flow[a].length \in Nat
        /\ program.flow[a].first \subseteq program.flow[a].targets
        /\ \A s \in {program.flow[a].first, program.flow[a].fall} : \A t, u \in s : t = u
    BY <1>5 DEF Sound
  <2> QED
    BY <2>1 DEF Plain, Flow
<1>7. a \in DOMAIN thunks => Jump(a, thunks[a]) /\ thunks[a] \in Addresses
  BY DEF ShapeInv, JoinInv
<1>8. JoinOK(walk')
  BY <1>1, <1>2, <1>4, <1>5, <1>6, <1>7, CodeIsAddresses, InstructionJoins
<1>9. JoinOK(walk)'
  BY <1>1, <1>8, JoinIsCarried
<1> QED
  BY <1>1, <1>9, JoinIsCarried DEF JoinInv, Walking

\* The confirmed candidates are in code, and own themselves.
LEMMA JoinEnter ==
  ASSUME ShapeInv, JoinInv, ConfirmCandidates \/ ConfirmPatterns
  PROVE  JoinInv'
<1>1. /\ phase \in {"seeds", "relocs"} /\ phase' \in {"relocs", "patterns"}
      /\ program' = program /\ thunks' = thunks
  BY DEF ConfirmCandidates, ConfirmPatterns
<1>2. JoinOK(walk)
  BY <1>1 DEF JoinInv
<1>3. \E found, m : /\ walk' = Enter(walk, found, m) /\ \A c \in found : InCode(c)
                    /\ m \subseteq found \union walk.thunkCandidates
  <2>1. CASE ConfirmCandidates
    <3> DEFINE Valid(c) == /\ InCode(c) /\ c \notin walk.visited \union walk.entries
                           /\ ~Inside(c, Extents)
                           /\ Decodes(c)
                           /\ Flow(c).kind = "fall" => Flow(c).fall \intersect walk.entries = {}
               valid == {c \in program.relocs \union walk.candidates : Valid(c)}
    <3>1. \E found \in {valid, {}} : walk' = Enter(walk, found, found \union walk.thunkCandidates)
      <4> HIDE DEF Valid
      <4> QED
        BY <2>1 DEF ConfirmCandidates, Valid
    <3>2. \A found \in {valid, {}} : \A c \in found : InCode(c)
      OBVIOUS
    <3> HIDE DEF valid
    <3> QED
      BY <3>1, <3>2
  <2>2. CASE ConfirmPatterns
    <3> DEFINE Found(collected) ==
                 {c.address : c \in {d \in collected :
                    InCode(d.address) /\ d.address \notin walk.visited \union walk.entries
                      /\ Decodes(d.address)}}
    <3>1. \E collected : \E found \in {Found(collected), {}} : walk' = Enter(walk, found, {})
      <4> HIDE DEF Found
      <4> QED
        BY <2>2 DEF ConfirmPatterns, Found
    <3>2. \A collected : \A c \in Found(collected) : InCode(c)
      OBVIOUS
    <3> HIDE DEF Found
    <3> QED
      BY <3>1, <3>2
  <2> QED
    BY <2>1, <2>2
<1>4. PICK found, m : /\ walk' = Enter(walk, found, m) /\ \A c \in found : InCode(c)
                      /\ m \subseteq found \union walk.thunkCandidates
  BY <1>3
<1> DEFINE new == [c \in found |-> c]
<1>5. /\ walk'.origin = InsertAll(walk.origin, new) /\ walk'.extents = walk.extents
      /\ walk'.visited = walk.visited /\ walk'.edges = walk.edges
      /\ walk'.endings = walk.endings /\ walk'.mergeable = m
      /\ walk'.thunkCandidates = walk.thunkCandidates /\ walk'.thunkRoots = walk.thunkRoots
  BY <1>4 DEF ShapeInv, WalkOK, Enter
<1>6. \A x \in DOMAIN new : x \in Addresses /\ Joined(walk, x, new[x])
  BY <1>4, CodeIsAddresses, JoinedIsEquivalence
<1> HIDE DEF new
<1>7. LinksJoin(walk')
  BY <1>2, <1>5, <1>6, NewLinksJoin
<1>8. ChainsJoin(walk')
  <2>1. \A x, y : Joined(walk', x, y) <=> Joined(walk, x, y)
    BY <1>5, SameJoined
  <2>2. m \subseteq Addresses
    BY <1>2, <1>4, CodeIsAddresses DEF JoinOK, ChainsJoin
  <2> QED
    BY <1>2, <1>5, <2>1, <2>2 DEF JoinOK, ChainsJoin
<1>9. FlowIsRecorded(walk')
  BY <1>2, <1>5 DEF JoinOK, FlowIsRecorded
<1>10. JoinOK(walk)'
  BY <1>1, <1>7, <1>8, <1>9, JoinIsCarried DEF JoinOK
<1> QED
  BY <1>1, <1>10, JoinIsCarried DEF JoinInv

LEMMA JoinReject == ASSUME ShapeInv, OwnersInv, JoinInv, RejectPatterns PROVE JoinInv'
<1> DEFINE called == {p[2] : p \in walk.calls}
           possible == {c.address : c \in {d \in starts.candidates : d.possible}} \ called
           definite == {c.address : c \in {d \in starts.candidates : ~d.possible}}
           established == starts.before \union called \union definite
           base == [walk |-> walk, rejected |-> starts.rejected]
           pass == Rejects(established, base, InOrder(possible))
           n == Cardinality(possible)
<1>1. /\ phase = "patterns" /\ program' = program /\ thunks' = thunks
      /\ walk' = IF pass.rejected = starts.rejected
                 THEN [walk EXCEPT !.entries = @ \ starts.rejected] ELSE pass.walk
  BY DEF RejectPatterns, Rejects
<1>2. Owned(walk) /\ JoinOK(walk)
  BY <1>1 DEF OwnersInv, JoinInv
<1>3. possible \in SUBSET Places(program)
  BY DEF ShapeInv
<1> HIDE DEF possible, established
<1>4. n \in Nat /\ DOMAIN InOrder(possible) = 1 .. n
      /\ \A k \in 1 .. n : InOrder(possible)[k] \in Addresses
  <2>1. possible \in SUBSET Int /\ IsFiniteSet(possible)
    BY <1>3, PlacesAreFinite, FS_Subset DEF ShapeInv
  <2>2. n \in Nat /\ InOrder(possible) \in [1 .. n -> possible]
    BY <2>1, InOrderLists
  <2> HIDE DEF n
  <2> QED
    BY <1>3, <2>2, CodeIsAddresses
<1> HIDE DEF n
<1>5. PassOK(base) /\ base.walk = walk
  BY DEF PassOK, ShapeInv
<1> HIDE DEF base
<1>6. JoinOK(pass.walk)
  BY <1>2, <1>4, <1>5, CodeIsAddresses, PassJoins
<1> HIDE DEF pass
<1>7. JoinOK(walk')
  <2>1. CASE pass.rejected = starts.rejected
    <3>1. SameRecords(walk, walk') /\ walk'.origin = walk.origin
      BY <1>1, <2>1 DEF ShapeInv, WalkOK, SameRecords
    <3>2. LinksJoin(walk')
      BY <1>2, <3>1, SameJoined DEF SameRecords, JoinOK, LinksJoin
    <3> QED
      BY <1>2, <3>1, <3>2, SameRecordsJoin
  <2>2. CASE pass.rejected # starts.rejected
    BY <1>1, <1>6, <2>2
  <2> QED
    BY <2>1, <2>2
<1>8. JoinOK(walk)' /\ phase' \in {"patterns", "linkages"}
  BY <1>1, <1>7, JoinIsCarried, RejectPatternsDo
<1> QED
  BY <1>1, <1>8, JoinIsCarried DEF JoinInv

\* What a stub takes is joined to it.
LEMMA JoinPromote == ASSUME ShapeInv, JoinInv, PromoteLinkages PROVE JoinInv'
<1>19. phase = "linkages" /\ phase' = "finish"
  BY StubsArePicked
<1> DEFINE shaped == {t \in walk.linkage : LinkageShape(walk, t)}
<1>20. PICK plain \in SUBSET shaped, asking \in SUBSET shaped :
         LET all == PromotedAll(plain, asking)
         IN  /\ functions' = all.functions
             /\ walk' = IF all.changed
                        THEN [all.walk EXCEPT !.bodies = RebuiltBodies(all.walk)] ELSE walk
             /\ \A t \in plain : PlainStub(t)
  BY StubsArePicked
<1> DEFINE base == [functions |-> functions, walk |-> walk, changed |-> FALSE]
           direct == Promotions(base, InOrder(plain))
           all == ContextPromotions(direct, InOrder(asking \ direct.walk.entries))
<1>1. /\ phase = "linkages" /\ phase' = "finish" /\ program' = program /\ thunks' = thunks
      /\ walk' = IF all.changed THEN [all.walk EXCEPT !.bodies = RebuiltBodies(all.walk)]
                 ELSE walk
  <2>1. program' = program /\ thunks' = thunks
    BY DEF PromoteLinkages
  <2> QED
    BY <1>19, <1>20, <2>1 DEF PromotedAll, PromotedPlain, Unpromoted
<1>2. JoinOK(walk) /\ StubsOK(walk)
  BY <1>1, CodeIsAddresses DEF JoinInv, JoinOK, StubsOK, ShapeInv
<1>3. /\ shaped \in SUBSET Int /\ IsFiniteSet(shaped)
      /\ \A t \in shaped : IsStub(walk, t)
  <2>1. shaped \in SUBSET Code(program) /\ Code(program) \subseteq Int
        /\ \A t \in shaped : LinkageShape(walk, t)
    BY DEF ShapeInv, Code
  <2> HIDE DEF shaped
  <2> QED
    BY <2>1, CodeIsFinite, CodeIsAddresses, FS_Subset DEF ShapeInv, IsStub

<1> HIDE DEF shaped
<1>5. JoinsOver(walk, base)
  BY <1>2 DEF PromotingOK, ShapeInv, JoinsOver, JoinOK
<1> HIDE DEF base
<1>6. JoinsOver(walk, direct)
  <2> DEFINE S == plain
  <2>1. S \in SUBSET shaped
    OBVIOUS
  <2> HIDE DEF S
  <2>2. S \in SUBSET Int /\ IsFiniteSet(S) /\ \A t \in S : IsStub(walk, t)
    BY <1>3, <2>1, FS_Subset
  <2>3. JoinsOver(walk, Promotions(base, InOrder(S)))
    BY <1>2, <1>5, <2>2, BothJoin
  <2> QED
    BY <2>3 DEF S
<1> HIDE DEF direct
<1>7. JoinsOver(walk, all)
  <2> DEFINE S == asking \ direct.walk.entries
  <2>1. S \in SUBSET shaped
    OBVIOUS
  <2> HIDE DEF S
  <2>2. S \in SUBSET Int /\ IsFiniteSet(S) /\ \A t \in S : IsStub(walk, t)
    BY <1>3, <2>1, FS_Subset
  <2>3. JoinsOver(walk, ContextPromotions(direct, InOrder(S)))
    BY <1>2, <1>6, <2>2, BothJoin
  <2> QED
    BY <2>3 DEF S
<1> HIDE DEF all
<1>8. LinksJoin(walk')
  <2>1. CASE all.changed
    <3> DEFINE v == all.walk
               bodies == RebuiltBodies(v)
    <3>1. walk' = [v EXCEPT !.bodies = bodies] /\ WalkOK(v) /\ LinksJoin(v)
      BY <1>1, <1>7, <2>1 DEF JoinsOver, PromotingOK
    <3> HIDE DEF v, bodies
    <3>2. walk'.origin = v.origin /\ walk'.extents = v.extents
      BY <3>1 DEF WalkOK
    <3> QED
      BY <3>1, <3>2, SameJoined DEF LinksJoin
  <2>2. CASE ~ all.changed
    BY <1>1, <1>2, <2>2 DEF JoinOK
  <2> QED
    BY <2>1, <2>2
<1> QED
  BY <1>1, <1>8, JoinIsCarried DEF JoinInv

LEMMA JoinFinish == ASSUME JoinInv, Finish PROVE JoinInv'
<1>1. /\ phase = "finish" /\ phase' \in {"done", "error"} /\ walk' = walk
      /\ program' = program /\ thunks' = thunks
  BY DEF Finish
<1>2. LinksJoin(walk)'
  BY <1>1, JoinIsCarried DEF JoinInv
<1> QED
  BY <1>1, <1>2, JoinIsCarried DEF JoinInv

LEMMA JoinRest == ASSUME JoinInv, UNCHANGED vars PROVE JoinInv'
<1>1. /\ program' = program /\ phase' = phase /\ walk' = walk /\ thunks' = thunks
  BY DEF vars
<1> QED
  BY <1>1, JoinIsCarried DEF JoinInv

\* Every link of addr_origin joins an address to one that owns it, in every state
\* (JoinInv): what is reached, fallen into or jumped to is joined to its owner, a
\* merge joins what the flow of control joined (merge_reached_candidate, the demoted
\* thunk chains and the rejected starts), and a stub's bytes are joined to the stub
\* (promote_linkage).
THEOREM JoinIsInvariant == Spec => []JoinInv
<1>1. Init => JoinInv
  BY JoinInit
<1>2. JoinInv /\ UNCHANGED vars => JoinInv'
  BY JoinRest
<1>3. ShapeInv /\ NoneBefore /\ ReachInv /\ OwnersInv /\ JoinInv /\ [Next]_vars => JoinInv'
  BY <1>2, JoinSweep, JoinStart, JoinRound, JoinQuery, JoinWalk, JoinEnter,
     JoinReject, JoinPromote, JoinFinish, JoinGiveUp DEF Next, Stop
<1> QED
  BY <1>1, <1>3, NoneIsInvariant, ShapeIsInvariant, ReachIsInvariant, OwnersAreInvariant,
     PTL DEF Spec

\* What is joined is reachable, along the edges in both directions.
LEMMA JoinedIsReachable ==
  ASSUME IsFiniteSet(Addresses), NEW w, NEW x \in Addresses, NEW y, Joined(w, x, y)
  PROVE  LET edges == FlowsOf(w) \union SharedBytesOf(w)
         IN  y \in Reachable({x}, edges \union {<<d[2], d[1]>> : d \in edges})
<1> DEFINE edges == FlowsOf(w) \union SharedBytesOf(w)
           both == edges \union {<<d[2], d[1]>> : d \in edges}
           joins == Joins(w) \union {<<d[2], d[1]>> : d \in Joins(w)}
           S == Reachable({x}, joins)
<1>1. \A d \in joins : d[1] \in Addresses /\ d[2] \in Addresses
  BY DEF Joins
<1>2. joins \in SUBSET both
  BY DEF Joins
<1>3. \A d \in Joins(w) : d \in joins /\ <<d[2], d[1]>> \in joins
  OBVIOUS
<1> HIDE DEF joins, both
<1>4. \A d \in joins : d[1] \in S => d[2] \in S
  <2>1. {x} \in SUBSET Addresses /\ {x} # {}
    OBVIOUS
  <2> QED
    BY <1>1, <2>1, ReachableIsClosed
<1>5. x \in S
  BY ReachableHasStart
<1>6. S \subseteq Reachable({x}, both)
  BY <1>2, ReachableGrows
<1> HIDE DEF S
<1>7. IsUndivided(w, S)
  <2> SUFFICES ASSUME NEW d \in Joins(w) PROVE d[1] \in S <=> d[2] \in S
    BY DEF IsUndivided
  <2> DEFINE back == <<d[2], d[1]>>
  <2>1. d \in joins /\ back \in joins /\ back[1] = d[2] /\ back[2] = d[1]
    BY <1>3
  <2> HIDE DEF back
  <2> QED
    BY <1>4, <2>1
<1>8. y \in S
  BY <1>5, <1>7 DEF Joined
<1> QED
  BY <1>6, <1>8 DEF both

\* No instruction is given to a function that no flow of control joins it to,
\* whatever was merged, demoted, rejected and promoted: following its links leads to
\* an owner that edges of the flow, or the bytes of a stub's indirect jump, connect
\* it with.
THEOREM OwnersJoin == Spec => []OwnersAreJoined
<1>1. ShapeInv /\ ReachInv /\ OwnersInv /\ JoinInv => OwnersAreJoined
  <2> SUFFICES ASSUME ShapeInv, ReachInv, OwnersInv, JoinInv, phase = "done",
                      NEW e \in walk.extents
               PROVE  LET edges == Edges \union SharedBytes
                          both == edges \union {<<d[2], d[1]>> : d \in edges}
                      IN  e[1] \in Reachable({Owner(walk, e[1])}, both)
    BY DEF OwnersAreJoined
  <2> DEFINE o == Owner(walk, e[1])
  <2>1. IsFiniteSet(Addresses)
    BY DEF ShapeInv, Sound, Addresses
  <2>2. e[1] \in Addresses
    <3>1. e[1] \in walk.visited
      BY DEF ReachInv, FlowsAreOwed, Walks
    <3> QED
      BY <3>1, CodeIsAddresses
  <2>3. o = End(walk.origin, e[1])
    BY OwnerIsEnd DEF OwnersInv, Owner
  <2>4. LinksJoin(walk) /\ EndSoon(walk.origin)
    BY DEF JoinInv, OwnersInv
  <2> HIDE DEF o
  <2>5. o \in Addresses
    <3>1. CASE e[1] \in DOMAIN walk.origin
      BY <2>3, <2>4, <3>1 DEF LinksJoin, EndSoon
    <3>2. CASE e[1] \notin DOMAIN walk.origin
      BY <2>2, <2>3, <3>2 DEF End, Link
    <3> QED
      BY <3>1, <3>2
  <2>6. Joined(walk, o, e[1])
    BY <2>3, <2>4, EndJoins, JoinedIsEquivalence
  <2>7. Edges = FlowsOf(walk) /\ SharedBytes = SharedBytesOf(walk)
    BY DEF Edges, SharedBytes, FlowsOf, SharedBytesOf
  <2> QED
    BY <2>1, <2>5, <2>6, <2>7, JoinedIsReachable DEF o
<1> QED
  BY <1>1, ShapeIsInvariant, ReachIsInvariant, OwnersAreInvariant, JoinIsInvariant, PTL
=============================================================================
