-------------------------- MODULE CkvGatherProofs --------------------------
(***************************************************************************)
(* Proofs about CkvGather for every size of the group, of the arena and of *)
(* the batches: the ranks' collectives match, and every layer attends to   *)
(* its own records.                                                        *)
(***************************************************************************)
EXTENDS CkvGather, CkvLayoutProofs, FiniteSetTheorems

-----------------------------------------------------------------------------
(***************************************************************************)
(* Sums over finite sets.  A fold takes the elements in an order of its    *)
(* own; the sum it arrives at does not depend on the order.                *)
(***************************************************************************)
Pick(s) == CHOOSE x \in s : TRUE

\* g is the fold of the additions of f over the subsets of S.
IsFold(g, f, S) ==
  /\ g \in [SUBSET S -> Nat]
  /\ \A s \in SUBSET S :
       g[s] = IF s = {} THEN 0 ELSE f[Pick(s)] + g[s \ {Pick(s)}]

\* A set that is not empty gives one of its members.
LEMMA PickIn == ASSUME NEW s, s # {} PROVE Pick(s) \in s
  BY DEF Pick

\* A member less, a finite set is smaller by one.
LEMMA SmallerSet ==
  ASSUME NEW s, IsFiniteSet(s), NEW x \in s, NEW n \in Nat, Cardinality(s) <= n + 1
  PROVE  IsFiniteSet(s \ {x}) /\ Cardinality(s \ {x}) <= n
<1>1. /\ IsFiniteSet(s \ {x})
      /\ Cardinality(s \ {x}) = Cardinality(s) - 1
  BY FS_RemoveElement
<1>2. Cardinality(s) \in Nat
  BY FS_CardinalityType
<1> QED BY <1>1, <1>2

\* The recursion of a fold has a solution.
LEMMA FoldExists ==
  ASSUME NEW S, IsFiniteSet(S), NEW f \in [S -> Nat]
  PROVE  \E g : IsFold(g, f, S)
<1> DEFINE Dom(n) == {s \in SUBSET S : Cardinality(s) <= n}
           Step(g, s) == IF s = {} THEN 0 ELSE f[Pick(s)] + g[s \ {Pick(s)}]
           T == {n \in Nat : \E g \in [Dom(n) -> Nat] :
                   \A s \in Dom(n) : g[s] = Step(g, s)}
<1>1. 0 \in T
  <2> DEFINE g == [s \in Dom(0) |-> 0]
  <2>1. \A s \in Dom(0) : s = {}
    BY FS_EmptySet, FS_Subset, FS_CardinalityType
  <2>2. g \in [Dom(0) -> Nat] /\ \A s \in Dom(0) : g[s] = Step(g, s)
    BY <2>1
  <2> QED BY <2>2
<1>2. ASSUME NEW n \in T PROVE n + 1 \in T
  <2>1. PICK g \in [Dom(n) -> Nat] : \A s \in Dom(n) : g[s] = Step(g, s)
    BY <1>2
  <2> DEFINE h == [s \in Dom(n + 1) |-> Step(g, s)]
  <2>2. ASSUME NEW s \in Dom(n + 1), s # {}
        PROVE  /\ Pick(s) \in s /\ f[Pick(s)] \in Nat
               /\ s \ {Pick(s)} \in Dom(n) /\ s \ {Pick(s)} \in Dom(n + 1)
    <3>1. IsFiniteSet(s) /\ Pick(s) \in s
      BY <2>2, PickIn, FS_Subset
    <3>2. Cardinality(s \ {Pick(s)}) <= n
      BY <3>1, <1>2, SmallerSet
    <3>3. Cardinality(s \ {Pick(s)}) <= n + 1
      <4>1. Cardinality(s \ {Pick(s)}) \in Nat /\ n \in Nat
        BY <1>2, <3>1, SmallerSet, FS_CardinalityType
      <4> QED BY <3>2, <4>1
    <3> QED BY <3>1, <3>2, <3>3
  <2>3. h \in [Dom(n + 1) -> Nat]
    BY <2>2
  <2>4. \A s \in Dom(n) \cap Dom(n + 1) : h[s] = g[s]
    BY <2>1
  <2>5. ASSUME NEW s \in Dom(n + 1) PROVE h[s] = Step(h, s)
    <3>1. CASE s = {}
      BY <3>1
    <3>2. CASE s # {}
      <4>1. h[s \ {Pick(s)}] = g[s \ {Pick(s)}]
        BY <2>2, <2>4, <3>2
      <4> HIDE DEF Dom
      <4> QED BY <3>2, <4>1
    <3> QED BY <3>1, <3>2
  <2>6. n + 1 \in Nat
    BY <1>2
  <2> HIDE DEF Dom, h
  <2> QED BY <2>3, <2>5, <2>6
<1>3. T = Nat
  BY <1>1, <1>2, SetInduction
<1>4. Cardinality(S) \in T
  BY <1>3, FS_CardinalityType
<1>5. Dom(Cardinality(S)) = SUBSET S
  BY FS_Subset
<1> HIDE DEF Dom
<1>6. PICK g \in [SUBSET S -> Nat] : \A s \in SUBSET S : g[s] = Step(g, s)
  BY <1>4, <1>5
<1> QED BY <1>6 DEF IsFold

\* Any element can be taken off first.
LEMMA FoldSplits ==
  ASSUME NEW S, IsFiniteSet(S), NEW f \in [S -> Nat], NEW g, IsFold(g, f, S)
  PROVE  \A s \in SUBSET S, x \in S : x \in s => g[s] = f[x] + g[s \ {x}]
<1> DEFINE T == {n \in Nat : \A t \in SUBSET S : \A y \in t :
                   Cardinality(t) <= n => g[t] = f[y] + g[t \ {y}]}
<1>1. 0 \in T
  BY FS_EmptySet, FS_Subset, FS_CardinalityType
<1>2. ASSUME NEW n \in T PROVE n + 1 \in T
  <2> SUFFICES ASSUME NEW t \in SUBSET S, NEW y \in t, Cardinality(t) <= n + 1
               PROVE  g[t] = f[y] + g[t \ {y}]
    BY <1>2
  <2> DEFINE z == Pick(t)
  <2>1. z \in t /\ g[t] = f[z] + g[t \ {z}]
    BY PickIn DEF IsFold
  <2>2. CASE y = z
    BY <2>1, <2>2
  <2>3. CASE y # z
    <3>1. IsFiniteSet(t) /\ n \in Nat
      BY <1>2, FS_Subset
    <3> HIDE DEF z
    <3>2. Cardinality(t \ {z}) <= n /\ Cardinality(t \ {y}) <= n
      BY <2>1, <3>1, SmallerSet
    <3>3. y \in t \ {z} /\ z \in t \ {y}
          /\ t \ {z} \in SUBSET S /\ t \ {y} \in SUBSET S
      BY <2>1, <2>3
    <3>4. g[t \ {z}] = f[y] + g[(t \ {z}) \ {y}]
          /\ g[t \ {y}] = f[z] + g[(t \ {y}) \ {z}]
      BY <1>2, <3>2, <3>3
    <3>5. (t \ {z}) \ {y} = (t \ {y}) \ {z} /\ (t \ {y}) \ {z} \in SUBSET S
      OBVIOUS
    <3>6. f[y] \in Nat /\ f[z] \in Nat /\ g[(t \ {y}) \ {z}] \in Nat
      BY <2>1, <3>5 DEF IsFold
    <3>7. g[t \ {z}] = f[y] + g[(t \ {y}) \ {z}]
      BY <3>4, <3>5
    <3> QED BY <2>1, <3>4, <3>6, <3>7
  <2> QED BY <2>2, <2>3
<1>3. T = Nat
  BY <1>1, <1>2, SetInduction
<1>4. \A s \in SUBSET S : Cardinality(s) \in Nat /\ Cardinality(s) <= Cardinality(s)
  BY FS_Subset, FS_CardinalityType
<1> QED BY <1>3, <1>4

\* Two folds of functions that agree have the same sums.
LEMMA FoldsAgree ==
  ASSUME NEW S, IsFiniteSet(S), NEW A \in SUBSET S,
         NEW f \in [S -> Nat], NEW g, IsFold(g, f, S),
         NEW e \in [A -> Nat], NEW h, IsFold(h, e, A),
         \A x \in A : e[x] = f[x]
  PROVE  g[A] = h[A]
<1> DEFINE T == {n \in Nat : \A t \in SUBSET A : Cardinality(t) <= n => g[t] = h[t]}
<1>1. 0 \in T
  <2> SUFFICES ASSUME NEW t \in SUBSET A, Cardinality(t) <= 0 PROVE g[t] = h[t]
    OBVIOUS
  <2>1. t = {}
    BY FS_EmptySet, FS_Subset, FS_CardinalityType
  <2> QED BY <2>1 DEF IsFold
<1>2. ASSUME NEW n \in T PROVE n + 1 \in T
  <2> SUFFICES ASSUME NEW t \in SUBSET A, Cardinality(t) <= n + 1
               PROVE  g[t] = h[t]
    BY <1>2
  <2>1. CASE t = {}
    BY <2>1 DEF IsFold
  <2>2. CASE t # {}
    <3> DEFINE z == Pick(t)
    <3>1. z \in t
      BY <2>2, PickIn
    <3>2. g[t] = f[z] + g[t \ {z}] /\ h[t] = e[z] + h[t \ {z}]
      BY <2>2 DEF IsFold
    <3> HIDE DEF z
    <3>3. Cardinality(t \ {z}) <= n
      BY <1>2, <3>1, SmallerSet, FS_Subset
    <3>4. g[t \ {z}] = h[t \ {z}]
      BY <1>2, <3>3
    <3> QED BY <3>1, <3>2, <3>4
  <2> QED BY <2>1, <2>2
<1>3. T = Nat
  BY <1>1, <1>2, SetInduction
<1>4. Cardinality(A) \in T
  BY <1>3, FS_Subset, FS_CardinalityType
<1> QED BY <1>4, FS_Subset, FS_CardinalityType
\* Whatever satisfies the recursion is a fold.
LEMMA RecursionIsFold ==
  ASSUME NEW S, IsFiniteSet(S), NEW f \in [S -> Nat], NEW V,
         NEW g \in [SUBSET S -> V],
         \A s \in SUBSET S :
           g[s] = IF s = {} THEN 0 ELSE f[Pick(s)] + g[s \ {Pick(s)}]
  PROVE  IsFold(g, f, S)
<1>0. g[{}] \in Nat
  OBVIOUS
<1> DEFINE T == {n \in Nat : \A t \in SUBSET S : Cardinality(t) <= n => g[t] \in Nat}
<1>1. 0 \in T
  <2> SUFFICES ASSUME NEW t \in SUBSET S, Cardinality(t) <= 0 PROVE g[t] \in Nat
    OBVIOUS
  <2>1. t = {}
    BY FS_EmptySet, FS_Subset, FS_CardinalityType
  <2> QED BY <1>0, <2>1
<1>2. ASSUME NEW n \in T PROVE n + 1 \in T
  <2> SUFFICES ASSUME NEW t \in SUBSET S, Cardinality(t) <= n + 1
               PROVE  g[t] \in Nat
    BY <1>2
  <2>1. CASE t = {}
    BY <1>0, <2>1
  <2>2. CASE t # {}
    <3>1. Pick(t) \in t /\ IsFiniteSet(t)
      BY <2>2, PickIn, FS_Subset
    <3>2. Cardinality(t \ {Pick(t)}) <= n /\ f[Pick(t)] \in Nat
      BY <1>2, <3>1, SmallerSet
    <3>3. g[t \ {Pick(t)}] \in Nat
      BY <1>2, <3>2
    <3> QED BY <2>2, <3>2, <3>3
  <2> QED BY <2>1, <2>2
<1>3. T = Nat
  BY <1>1, <1>2, SetInduction
<1>4. \A t \in SUBSET S : g[t] \in Nat
  <2> TAKE t \in SUBSET S
  <2>1. Cardinality(t) \in Nat
    BY FS_Subset, FS_CardinalityType
  <2> QED BY <1>3, <2>1
<1> QED BY <1>4 DEF IsFold

\* The model's sums of a rank's lengths are folds.
RankSum(b, rank, A) == MapThenSumSet(LAMBDA q : RankLen(b, rank, q), A)

\* A rank's sum over some rows is the fold of its shares of them.
LEMMA RankSumIsFold ==
  ASSUME NEW b, NEW rank, NEW A, IsFiniteSet(A),
         \A q \in A : RankLen(b, rank, q) \in Nat
  PROVE  \E h : /\ IsFold(h, [q \in A |-> RankLen(b, rank, q)], A)
                /\ RankSum(b, rank, A) = h[A]
<1> DEFINE f == [q \in A |-> RankLen(b, rank, q)]
           Rec(h) == h = [s \in SUBSET A |->
             IF s = {} THEN 0 ELSE RankLen(b, rank, Pick(s)) + h[s \ {Pick(s)}]]
<1>1. RankSum(b, rank, A) = (CHOOSE h : Rec(h))[A]
  BY DEF RankSum, MapThenSumSet, MapThenFoldSet, Pick
<1>2. ASSUME NEW s \in SUBSET A, s # {} PROVE f[Pick(s)] = RankLen(b, rank, Pick(s))
  BY <1>2, PickIn
<1>3. \E h : Rec(h)
  <2>1. PICK g : IsFold(g, f, A)
    BY FoldExists
  <2>2. Rec(g)
    BY <1>2, <2>1 DEF IsFold
  <2> QED BY <2>2
<1>4. PICK h : h = (CHOOSE k : Rec(k))
  OBVIOUS
<1>5. Rec(h)
  BY <1>3, <1>4
<1> DEFINE V == {h[s] : s \in SUBSET A}
<1>6. /\ h \in [SUBSET A -> V]
      /\ \A s \in SUBSET A :
           h[s] = IF s = {} THEN 0 ELSE f[Pick(s)] + h[s \ {Pick(s)}]
  BY <1>2, <1>5
<1>7. f \in [A -> Nat]
  OBVIOUS
<1> HIDE DEF f, V
<1>8. IsFold(h, f, A)
  BY <1>6, <1>7, RecursionIsFold
<1> QED BY <1>1, <1>4, <1>8 DEF f
\* A larger set has no smaller sum.
LEMMA FoldGrows ==
  ASSUME NEW S, IsFiniteSet(S), NEW f \in [S -> Nat], NEW g, IsFold(g, f, S),
         NEW A \in SUBSET S, NEW B \in SUBSET S, A \subseteq B
  PROVE  g[A] <= g[B]
<1> DEFINE T == {n \in Nat : \A C \in SUBSET S :
                   A \subseteq C /\ Cardinality(C) <= n => g[A] <= g[C]}
<1>1. \A C \in SUBSET S : g[C] \in Nat /\ IsFiniteSet(C) /\ Cardinality(C) \in Nat
  BY FS_Subset, FS_CardinalityType DEF IsFold
<1>2. 0 \in T
  <2> SUFFICES ASSUME NEW C \in SUBSET S, A \subseteq C, Cardinality(C) <= 0
               PROVE  g[A] <= g[C]
    OBVIOUS
  <2>1. C = {}
    BY <1>1, FS_EmptySet
  <2>2. A = C
    BY <2>1
  <2> QED BY <1>1, <2>2
<1>3. ASSUME NEW n \in T PROVE n + 1 \in T
  <2> SUFFICES ASSUME NEW C \in SUBSET S, A \subseteq C, Cardinality(C) <= n + 1
               PROVE  g[A] <= g[C]
    BY <1>3
  <2>1. CASE A = C
    BY <1>1, <2>1
  <2>2. CASE A # C
    <3>1. PICK x \in C : x \notin A
      BY <2>2
    <3>2. Cardinality(C \ {x}) <= n /\ A \subseteq C \ {x} /\ C \ {x} \in SUBSET S
      BY <1>1, <1>3, <3>1, SmallerSet
    <3>3. g[A] <= g[C \ {x}]
      BY <1>3, <3>2
    <3>4. g[C] = f[x] + g[C \ {x}] /\ f[x] \in Nat
      BY <3>1, FoldSplits
    <3> QED BY <1>1, <3>2, <3>3, <3>4
  <2> QED BY <2>1, <2>2
<1>4. T = Nat
  BY <1>2, <1>3, SetInduction
<1> QED BY <1>1, <1>4

\* Finitely many numbers have a bound.
LEMMA NumbersAreBounded ==
  ASSUME NEW A, IsFiniteSet(A), A \subseteq Nat
  PROVE  \E m \in Nat : \A p \in A : p < m
<1> DEFINE Bounded(B) == \E m \in Nat : \A p \in B : p < m
           T == {n \in Nat : \A B \in SUBSET A : Cardinality(B) <= n => Bounded(B)}
<1>0. Bounded({})
  BY 0 \in Nat
<1>1. \A B \in SUBSET A : IsFiniteSet(B) /\ Cardinality(B) \in Nat
  BY FS_Subset, FS_CardinalityType
<1>2. 0 \in T
  <2> SUFFICES ASSUME NEW B \in SUBSET A, Cardinality(B) <= 0 PROVE Bounded(B)
    OBVIOUS
  <2>1. Cardinality(B) = 0
    BY <1>1
  <2>2. B = {}
    BY <1>1, <2>1, FS_EmptySet
  <2> HIDE DEF Bounded
  <2> QED BY <1>0, <2>2
<1>3. ASSUME NEW n \in T PROVE n + 1 \in T
  <2> SUFFICES ASSUME NEW B \in SUBSET A, Cardinality(B) <= n + 1
               PROVE  Bounded(B)
    BY <1>3
  <2>1. CASE B = {}
    <3> HIDE DEF Bounded
    <3> QED BY <1>0, <2>1
  <2>2. CASE B # {}
    <3>1. PICK x \in B : TRUE
      BY <2>2
    <3>2. Cardinality(B \ {x}) <= n /\ B \ {x} \in SUBSET A
      BY <1>1, <1>3, <3>1, SmallerSet
    <3>3. PICK m \in Nat : \A p \in B \ {x} : p < m
      BY <1>3, <3>2
    <3>4. x \in Nat
      BY <3>1
    <3>5. CASE x < m
      BY <3>3, <3>5
    <3>6. CASE ~ (x < m)
      <4>1. x + 1 \in Nat /\ \A p \in B : p < x + 1
        BY <3>3, <3>4, <3>6
      <4> QED BY <4>1
    <3> QED BY <3>5, <3>6
  <2> QED BY <2>1, <2>2
<1>4. T = Nat
  <2> HIDE DEF Bounded
  <2> QED BY <1>2, <1>3, SetInduction
<1>5. Cardinality(A) \in T
  BY <1>1, <1>4
<1> HIDE DEF Bounded
<1>6. Bounded(A)
  BY <1>1, <1>5
<1> QED BY <1>6 DEF Bounded

\* The members of a set below a number, one number up.
LEMMA BelowNext ==
  ASSUME NEW A, A \subseteq Nat
  PROVE  /\ {p \in A : p < 0} = {}
         /\ \A n \in Nat \ A : {p \in A : p < n + 1} = {p \in A : p < n}
         /\ \A n \in A : /\ n \in {p \in A : p < n + 1}
                         /\ {p \in A : p < n + 1} \ {n} = {p \in A : p < n}
<1>1. \A p \in A : ~ (p < 0)
  OBVIOUS
<1>2. \A n \in Nat : \A p \in A : p < n + 1 <=> p < n \/ p = n
  OBVIOUS
<1>4. {p \in A : p < 0} = {}
  BY <1>1
<1>5. ASSUME NEW n \in Nat \ A
      PROVE  {p \in A : p < n + 1} = {p \in A : p < n}
  BY <1>2
<1>6. ASSUME NEW n \in A
      PROVE  /\ n \in {p \in A : p < n + 1}
             /\ {p \in A : p < n + 1} \ {n} = {p \in A : p < n}
  <2>1. n \in Nat /\ n < n + 1
    OBVIOUS
  <2>2. \A p \in A : p < n + 1 /\ p # n <=> p < n
    BY <2>1
  <2>3. n \in {p \in A : p < n + 1}
    BY <2>1
  <2>4. {p \in A : p < n + 1} \ {n} = {p \in A : p < n}
    BY <2>2
  <2> QED BY <2>3, <2>4
<1> QED BY <1>4, <1>5, <1>6

\* A number below a sum falls into the share of one element.
LEMMA FoldReaches ==
  ASSUME NEW S, IsFiniteSet(S), S \subseteq Nat, NEW f \in [S -> Nat],
         NEW g \in [SUBSET S -> Nat], g[{}] = 0,
         \A s \in SUBSET S, x \in S : x \in s => g[s] = f[x] + g[s \ {x}],
         NEW A \in SUBSET S, NEW i \in Nat, i < g[A]
  PROVE  \E q \in A : /\ g[{p \in A : p < q}] <= i
                      /\ i < g[{p \in A : p < q}] + f[q]
<1> DEFINE Below(n) == {p \in A : p < n}
           Found == \E q \in A : g[Below(q)] <= i /\ i < g[Below(q)] + f[q]
           T == {n \in Nat : i < g[Below(n)] => Found}
<1>0. A \subseteq Nat /\ IsFiniteSet(A)
  BY FS_Subset
<1> HIDE DEF Below, Found
<1>9. /\ Below(0) = {}
      /\ \A n \in Nat \ A : Below(n + 1) = Below(n)
      /\ \A n \in A : n \in Below(n + 1) /\ Below(n + 1) \ {n} = Below(n)
  BY <1>0, BelowNext DEF Below
<1>1. \A n : Below(n) \in SUBSET S /\ g[Below(n)] \in Nat
  BY DEF Below
<1>2. 0 \in T
  <2>1. g[Below(0)] = 0
    BY <1>9
  <2>2. ~ (i < g[Below(0)])
    BY <2>1
  <2> QED BY <2>2
<1>3. ASSUME NEW n \in T PROVE n + 1 \in T
  <2> SUFFICES ASSUME i < g[Below(n + 1)] PROVE Found
    BY <1>3
  <2>0. n \in Nat /\ (i < g[Below(n)] => Found)
    BY <1>3
  <2>1. CASE n \notin A
    <3>1. Below(n + 1) = Below(n)
      BY <1>9, <2>0, <2>1
    <3> QED BY <2>0, <3>1
  <2>2. CASE n \in A
    <3>1. PICK W \in SUBSET S : W = Below(n + 1)
      BY <1>1
    <3>2. n \in W /\ W \ {n} = Below(n)
      BY <1>9, <2>2, <3>1
    <3>3. g[W] = f[n] + g[W \ {n}]
      BY <3>1, <3>2
    <3>4. f[n] \in Nat /\ g[Below(n)] \in Nat
      BY <1>1, <2>2
    <3>5. CASE i < g[Below(n)]
      BY <2>0, <3>5
    <3>6. CASE ~ (i < g[Below(n)])
      <4>1. g[Below(n)] <= i /\ i < g[Below(n)] + f[n]
        BY <3>1, <3>2, <3>3, <3>4, <3>6
      <4> QED BY <2>2, <4>1 DEF Found
    <3> QED BY <3>5, <3>6
  <2> QED BY <2>1, <2>2
<1>4. T = Nat
  BY <1>2, <1>3, SetInduction
<1>5. PICK m \in Nat : \A p \in A : p < m
  BY <1>0, NumbersAreBounded
<1>6. Below(m) = A
  BY <1>5 DEF Below
<1>7. m \in T
  BY <1>4
<1>8. Found
  BY <1>6, <1>7
<1> QED BY <1>8 DEF Found, Below
-----------------------------------------------------------------------------
(***************************************************************************)
(* The layout of one rank's part.                                          *)
(***************************************************************************)

\* A batch's lengths are numbers, and so are the ranks' shares of them.
LEMMA RankLenType ==
  ASSUME NEW b \in Batches, NEW rank \in Ranks, NEW q \in Requests
  PROVE  RankLen(b, rank, q) \in Nat /\ b.len[q] \in Nat /\ b.len[q] <= MaxLen
<1>1. b.len[q] \in 0 .. MaxLen
  BY DEF Batches
<1>2. b.len[q] \in Nat /\ b.len[q] <= MaxLen
  BY <1>1, BatchAssumption
<1> QED BY <1>2, LocalLenBounds DEF RankLen

\* Rows are numbered.
LEMMA RowsAreNumbers ==
  ASSUME NEW b
  PROVE  Rows(b) \subseteq Requests /\ \A q \in Rows(b) : q \in Nat /\ ~ (q < q)
<1>1. \A q \in Requests : q \in Nat /\ ~ (q < q)
  <2>1. Requests \subseteq Nat
    BY BatchAssumption
  <2>2. ASSUME NEW q \in Requests PROVE q \in Nat
    BY <2>1
  <2>3. \A q \in Nat : ~ (q < q)
    OBVIOUS
  <2> QED BY <2>2, <2>3
<1>2. Rows(b) \subseteq Requests
  BY DEF Rows
<1> QED BY <1>1, <1>2

\* All sums of a rank's shares come from one fold.
LEMMA RankSums ==
  ASSUME NEW b \in Batches, NEW rank \in Ranks
  PROVE  \E g : /\ IsFold(g, [q \in Requests |-> RankLen(b, rank, q)], Requests)
                /\ \A A \in SUBSET Requests :
                     RankSum(b, rank, A) = g[A]
                /\ \A s \in SUBSET Requests, x \in Requests : x \in s =>
                     g[s] = [q \in Requests |-> RankLen(b, rank, q)][x] + g[s \ {x}]
<1> DEFINE f == [q \in Requests |-> RankLen(b, rank, q)]
<1>1. IsFiniteSet(Requests) /\ f \in [Requests -> Nat]
  BY BatchAssumption, RankLenType
<1>2. PICK g : IsFold(g, f, Requests)
  <2> HIDE DEF f
  <2> QED BY <1>1, FoldExists
<1>0. \A s \in SUBSET Requests, x \in Requests : x \in s => g[s] = f[x] + g[s \ {x}]
  <2> HIDE DEF f
  <2> QED BY <1>1, <1>2, FoldSplits
<1>3. ASSUME NEW A \in SUBSET Requests
      PROVE  RankSum(b, rank, A) = g[A]
  <2> DEFINE e == [q \in A |-> RankLen(b, rank, q)]
  <2>1. IsFiniteSet(A) /\ e \in [A -> Nat] /\ \A x \in A : e[x] = f[x]
    BY <1>1, RankLenType, FS_Subset
  <2>2. \A q \in A : RankLen(b, rank, q) \in Nat
    BY RankLenType
  <2>3. PICK h : /\ IsFold(h, e, A)
                 /\ RankSum(b, rank, A) = h[A]
    BY <2>1, <2>2, RankSumIsFold
  <2> HIDE DEF e, f
  <2>4. g[A] = h[A]
    BY <1>1, <1>2, <2>1, <2>3, FoldsAgree
  <2> QED BY <2>3, <2>4
<1> QED BY <1>0, <1>2, <1>3

\* The shares of the batch's requests lie one behind the other, in the order
\* of the requests, and fill the part.
LEMMA PartLayout ==
  ASSUME NEW b \in Batches, NEW rank \in Ranks
  PROVE  /\ RankTotal(b, rank) \in Nat
         /\ \A q \in Rows(b) :
              /\ RankStart(b, rank, q) \in Nat /\ RankLen(b, rank, q) \in Nat
              /\ RankStart(b, rank, q) + RankLen(b, rank, q) <= RankTotal(b, rank)
         /\ \A p, q \in Rows(b) : p < q =>
              RankStart(b, rank, p) + RankLen(b, rank, p) <= RankStart(b, rank, q)
         /\ \A i \in Nat : i < RankTotal(b, rank) =>
              \E q \in Rows(b) :
                /\ RankStart(b, rank, q) <= i
                /\ i < RankStart(b, rank, q) + RankLen(b, rank, q)
<1> DEFINE f == [q \in Requests |-> RankLen(b, rank, q)]
           Below(q) == {p \in Rows(b) : p < q}
<1>1. PICK g : /\ IsFold(g, f, Requests)
               /\ \A A \in SUBSET Requests :
                     RankSum(b, rank, A) = g[A]
               /\ \A s \in SUBSET Requests, x \in Requests : x \in s => g[s] = f[x] + g[s \ {x}]
  BY RankSums
<1>2. Requests \subseteq Nat
  BY BatchAssumption
<1>3. /\ IsFiniteSet(Requests) /\ f \in [Requests -> Nat]
      /\ Rows(b) \in SUBSET Requests
      /\ \A q : Below(q) \in SUBSET Requests /\ Below(q) \subseteq Rows(b)
      /\ \A q \in Rows(b) : f[q] = RankLen(b, rank, q)
  BY BatchAssumption, RankLenType DEF Rows
<1>4. \A q \in Rows(b) : q \in Nat /\ ~ (q < q)
  BY RowsAreNumbers
<1>5. \A s \in SUBSET Requests, x \in Requests : x \in s => g[s] = f[x] + g[s \ {x}]
  BY <1>1
<1>6. /\ RankTotal(b, rank) = g[Rows(b)]
      /\ \A q : RankStart(b, rank, q) = g[Below(q)]
  BY <1>1, <1>3 DEF RankTotal, RankStart, RankSum
<1>7. /\ \A A \in SUBSET Requests : g[A] \in Nat
      /\ g \in [SUBSET Requests -> Nat] /\ g[{}] = 0
  BY <1>1 DEF IsFold
<1>8. ASSUME NEW p \in Rows(b), NEW B \in SUBSET Requests,
             Below(p) \subseteq B, p \in B
      PROVE  g[Below(p)] + f[p] <= g[B]
  <2>1. ~ (p < p) /\ p \in Nat
    BY <1>4
  <2>2. p \notin Below(p) /\ Below(p) \subseteq B \ {p} /\ B \ {p} \in SUBSET Requests
    BY <1>8, <2>1
  <2> HIDE DEF f, Below
  <2>3. g[B] = f[p] + g[B \ {p}]
    BY <1>8, <1>5
  <2>4. g[Below(p)] <= g[B \ {p}]
    BY <1>1, <1>3, <2>2, FoldGrows
  <2>5. f[p] \in Nat /\ g[Below(p)] \in Nat /\ g[B \ {p}] \in Nat
    BY <1>3, <1>7, <2>2
  <2> QED BY <2>3, <2>4, <2>5
<1>9. ASSUME NEW p \in Rows(b), NEW q \in Rows(b), p < q
      PROVE  Below(p) \subseteq Below(q) /\ p \in Below(q)
  BY <1>4, <1>9
<1>10. ASSUME NEW i \in Nat, i < g[Rows(b)]
      PROVE  \E q \in Rows(b) : g[Below(q)] <= i /\ i < g[Below(q)] + f[q]
  <2> HIDE DEF f
  <2>1. /\ IsFiniteSet(Requests) /\ f \in [Requests -> Nat]
        /\ Rows(b) \in SUBSET Requests
    BY <1>3
  <2>2. /\ g \in [SUBSET Requests -> Nat] /\ g[{}] = 0
    BY <1>7
  <2> HIDE DEF Below
  <2>3. \E q \in Rows(b) : /\ g[{p \in Rows(b) : p < q}] <= i
                          /\ i < g[{p \in Rows(b) : p < q}] + f[q]
    BY <1>2, <1>5, <1>10, <2>1, <2>2, FoldReaches
  <2> QED BY <2>3 DEF Below
<1> HIDE DEF f, Below
<1>11. ASSUME NEW q \in Rows(b)
      PROVE  g[Below(q)] + f[q] <= g[Rows(b)]
  BY <1>3, <1>8
<1>12. ASSUME NEW p \in Rows(b), NEW q \in Rows(b), p < q
      PROVE  g[Below(p)] + f[p] <= g[Below(q)]
  BY <1>3, <1>8, <1>9, <1>12
<1> QED BY <1>3, <1>6, <1>7, <1>10, <1>11, <1>12
-----------------------------------------------------------------------------
(***************************************************************************)
(* What every rank makes of a batch: whether it is gathered, to what size  *)
(* the parts are padded, and which collectives a layer issues for it.      *)
(***************************************************************************)
Gathers(b) == Eligible(b, 0)
Padded(b) == Sizes(b, 0).padded
CallsPerLayer(b) == IF Gathers(b) THEN 1 ELSE 2
CallsOf(b) ==
  IF Gathers(b)
  THEN {[kind |-> "ckv", size |-> Padded(b)]}
  ELSE {[kind |-> "query", size |-> 0], [kind |-> "merge", size |-> 0]}

\* There is a rank.
LEMMA RankZero == 0 \in Ranks
  BY SizesAssumption DEF Ranks

\* Padding does not shorten.
LEMMA PaddingCovers ==
  ASSUME NEW x \in Nat
  PROVE  PadToBlock(x) \in Nat /\ x <= PadToBlock(x)
<1>1. BlockSize \in Nat \ {0}
  BY SizesAssumption
<1>2. Cdiv(x, BlockSize) \in Nat /\ x <= BlockSize * Cdiv(x, BlockSize)
  BY <1>1, CdivCovers
<1>3. BlockSize * Cdiv(x, BlockSize) = Cdiv(x, BlockSize) * BlockSize
      /\ BlockSize * Cdiv(x, BlockSize) \in Nat
  BY <1>1, <1>2
<1> QED BY <1>2, <1>3 DEF PadToBlock

\* The arena's capacity is a number.
LEMMA CapacityType == LocalCapacity \in Nat
<1>1. Cdiv(MaxTokens, DcpSize) \in Nat
  BY SizesAssumption, CdivCovers
<1>2. MaxSeqs * Interleave \in Nat
  BY SizesAssumption
<1> QED BY <1>1, <1>2, PaddingCovers DEF LocalCapacity

\* All ranks pad to the same size, which has room for each rank's part.
LEMMA SizesAreCommon ==
  ASSUME NEW b \in Batches, NEW r \in Ranks
  PROVE  /\ Sizes(b, r).padded = Padded(b)
         /\ Sizes(b, r).mine = RankTotal(b, r)
         /\ RankTotal(b, r) \in Nat /\ Padded(b) \in Nat
         /\ RankTotal(b, r) <= Padded(b)
<1> DEFINE totals == {RankTotal(b, s) : s \in Ranks}
           h == [s \in Ranks |-> RankTotal(b, s)]
<1>1. \A s \in Ranks : RankTotal(b, s) \in Nat
  BY PartLayout
<1>2. PICK m \in Ranks : \A s \in Ranks : RankTotal(b, s) <= RankTotal(b, m)
  <2>1. h \in [Ranks -> Nat] /\ \A s \in Ranks : h[s] = RankTotal(b, s)
    BY <1>1
  <2> HIDE DEF h
  <2>2. PICK m \in Ranks : \A s \in Ranks : h[s] <= h[m]
    <3>1. h \in [0 .. DcpSize - 1 -> Int] /\ DcpSize \in Nat \ {0}
      BY <2>1, SizesAssumption DEF Ranks
    <3> QED BY <3>1, LargestExists DEF Ranks
  <2> QED BY <2>1, <2>2
<1>3. RankTotal(b, m) \in totals /\ \A x \in totals : RankTotal(b, m) >= x
  BY <1>1, <1>2
<1> HIDE DEF totals
<1>4. Max(totals) \in totals /\ \A x \in totals : Max(totals) >= x
  BY <1>3 DEF Max
<1>5. Max(totals) \in Nat /\ RankTotal(b, r) <= Max(totals)
  <2>1. RankTotal(b, r) \in totals /\ totals \subseteq Nat
    BY <1>1 DEF totals
  <2> QED BY <1>4, <2>1
<1>6. PadToBlock(Max(totals)) \in Nat /\ Max(totals) <= PadToBlock(Max(totals))
  BY <1>5, PaddingCovers
<1>7. Padded(b) = PadToBlock(Max(totals))
  BY DEF Padded, Sizes, totals
<1>8. Sizes(b, r).padded = Padded(b) /\ Sizes(b, r).mine = RankTotal(b, r)
  BY DEF Padded, Sizes
<1>9. RankTotal(b, r) \in Nat
  BY <1>1
<1> QED BY <1>5, <1>6, <1>7, <1>8, <1>9

\* All ranks choose the same path, and what they gather fits the arena.
LEMMA EligibleIsCommon ==
  ASSUME NEW b \in Batches, NEW r \in Ranks
  PROVE  /\ Eligible(b, r) <=> Gathers(b)
         /\ Gathers(b) => Padded(b) # 0 /\ Padded(b) <= LocalCapacity
<1>1. /\ Sizes(b, r).padded = Padded(b) /\ Sizes(b, 0).padded = Padded(b)
      /\ Sizes(b, r).mine <= Sizes(b, r).padded
      /\ Sizes(b, 0).mine <= Sizes(b, 0).padded
      /\ Padded(b) \in Nat
  BY SizesAreCommon, RankZero
<1>2. Eligible(b, r) <=> Gathers(b)
  BY <1>1 DEF Eligible, Gathers
<1>3. Gathers(b) => Padded(b) # 0 /\ Padded(b) <= LocalCapacity
  BY <1>1 DEF Eligible, Gathers
<1> QED BY <1>2, <1>3

\* A wanted token's place in its owner's part.
Place(b, k) == RankStart(b, Owner(k[2]), k[1]) + LocalIndex(k[2])

LEMMA WantedPlace ==
  ASSUME NEW b \in Batches, NEW k \in Wanted(b)
  PROVE  /\ k[1] \in Rows(b) /\ k[2] \in Nat /\ Owner(k[2]) \in Ranks
         /\ LocalIndex(k[2]) \in Nat
         /\ LocalIndex(k[2]) < RankLen(b, Owner(k[2]), k[1])
         /\ RankStart(b, Owner(k[2]), k[1]) \in Nat
         /\ Place(b, k) \in Nat
         /\ Place(b, k) < RankTotal(b, Owner(k[2]))
         /\ Place(b, k) < Padded(b)
         /\ Place(b, k) < RankStart(b, Owner(k[2]), k[1]) + RankLen(b, Owner(k[2]), k[1])
<1> DEFINE o == Owner(k[2])
           start == RankStart(b, o, k[1])
           len == RankLen(b, o, k[1])
<1>1. k[1] \in Rows(b) /\ k[1] \in Requests /\ k[2] \in Nat /\ k[2] < b.len[k[1]]
  BY DEF Wanted, Tokens
<1>2. b.len[k[1]] \in Nat
  BY <1>1, RankZero, RankLenType
<1>3. o \in Ranks /\ LocalIndex(k[2]) \in Nat
  BY <1>1, TokenRoundTrip
<1>4. LocalIndex(k[2]) < len
  BY <1>1, <1>2, LengthTestIsExact DEF RankLen
<1>5. start \in Nat /\ len \in Nat /\ start + len <= RankTotal(b, o)
      /\ RankTotal(b, o) \in Nat
  BY <1>1, <1>3, PartLayout
<1>6. RankTotal(b, o) <= Padded(b) /\ Padded(b) \in Nat
  BY <1>3, SizesAreCommon
<1>7. Place(b, k) = start + LocalIndex(k[2])
  BY DEF Place
<1> HIDE DEF start, len, o
<1>8. /\ Place(b, k) \in Nat /\ Place(b, k) < RankTotal(b, o)
      /\ Place(b, k) < Padded(b) /\ Place(b, k) < start + len
  BY <1>3, <1>4, <1>5, <1>6, <1>7
<1> QED BY <1>1, <1>3, <1>4, <1>5, <1>8 DEF start, len, o

\* The rank that gathers sees in the slot's quotient whose part it is in.
LEMMA WantedSlot ==
  ASSUME NEW b \in Batches, NEW k \in Wanted(b), NEW r \in Ranks
  PROVE  /\ Slot(b, r, k[1], k[2]) \in Nat
         /\ Slot(b, r, k[1], k[2]) \div Padded(b) = Owner(k[2])
         /\ Slot(b, r, k[1], k[2]) % Padded(b) = Place(b, k)
         /\ Slot(b, r, k[1], k[2]) < DcpSize * Padded(b)
<1> DEFINE start == RankStart(b, Owner(k[2]), k[1])
<1>1. k[2] \in Nat /\ start \in Nat /\ Padded(b) \in Nat
      /\ start + LocalIndex(k[2]) < Padded(b)
  BY WantedPlace, SizesAreCommon, RankZero DEF Place
<1>2. Slot(b, r, k[1], k[2]) = GatheredSlot(k[2], start, Padded(b))
  BY SizesAreCommon DEF Slot
<1>3. Place(b, k) = start + LocalIndex(k[2])
  BY DEF Place
<1> HIDE DEF start
<1> QED BY <1>1, <1>2, <1>3, SlotSplits

\* A slot of a gathered batch lies in the arena.
LEMMA SlotInArena ==
  ASSUME NEW b \in Batches, Gathers(b), NEW k \in Wanted(b), NEW r \in Ranks
  PROVE  Slot(b, r, k[1], k[2]) \in 0 .. DcpSize * LocalCapacity - 1
<1>1. Slot(b, r, k[1], k[2]) \in Nat
      /\ Slot(b, r, k[1], k[2]) < DcpSize * Padded(b)
  BY WantedSlot
<1>2. Padded(b) \in Nat /\ LocalCapacity \in Nat /\ Padded(b) <= LocalCapacity
      /\ DcpSize \in Nat
  BY SizesAreCommon, RankZero, EligibleIsCommon, CapacityType, SizesAssumption
<1>3. DcpSize * Padded(b) <= DcpSize * LocalCapacity
  BY <1>2, MulMono
<1>4. DcpSize * Padded(b) \in Nat /\ DcpSize * LocalCapacity \in Nat
  BY <1>2
<1> QED BY <1>1, <1>3, <1>4

\* The remap drops no token: each has an index below its owner's share.
LEMMA RemapDropsNone ==
  ASSUME NEW b \in Batches
  PROVE  {w \in Wanted(b) : LocalIndex(w[2]) < RankLen(b, Owner(w[2]), w[1])}
           = Wanted(b)
  BY WantedPlace

\* The place of a token is held by its request alone.
LEMMA HolderIsOne ==
  ASSUME NEW b \in Batches, NEW k \in Wanted(b), NEW q \in Rows(b),
         RankStart(b, Owner(k[2]), q) <= Place(b, k),
         Place(b, k) < RankStart(b, Owner(k[2]), q) + RankLen(b, Owner(k[2]), q)
  PROVE  q = k[1]
<1> DEFINE o == Owner(k[2])
           start(p) == RankStart(b, o, p)
           len(p) == RankLen(b, o, p)
<1>1. /\ k[1] \in Rows(b) /\ o \in Ranks /\ Place(b, k) \in Nat
      /\ start(k[1]) <= Place(b, k) /\ Place(b, k) < start(k[1]) + len(k[1])
  BY WantedPlace DEF Place
<1>2. /\ start(q) \in Nat /\ len(q) \in Nat
      /\ start(k[1]) \in Nat /\ len(k[1]) \in Nat
      /\ q < k[1] => start(q) + len(q) <= start(k[1])
      /\ k[1] < q => start(k[1]) + len(k[1]) <= start(q)
  BY <1>1, PartLayout
<1>3. start(q) <= Place(b, k) /\ Place(b, k) < start(q) + len(q)
  OBVIOUS
<1>4. q \in Nat /\ k[1] \in Nat
  BY <1>1, RowsAreNumbers
<1> HIDE DEF start, len
<1> QED BY <1>1, <1>2, <1>3, <1>4

-----------------------------------------------------------------------------
(***************************************************************************)
(* The inductive invariant.                                                *)
(***************************************************************************)

\* A request's tokens after the first n batches.
LenAfter(n, q) == IF n = 0 THEN 0 ELSE plan[n].len[q]

\* Requests go on from where they were.
Continues ==
  \A n \in 1 .. Len(plan), q \in Requests :
    plan[n].len[q] = LenAfter(n - 1, q) + plan[n].query[q]

Gathering(r) == InCall(r) /\ call[r].kind = "ckv"

\* A rank is on the path of its batch.
OnPath(r) ==
  /\ pc[r] # "idle" => batch[r] # 0
  /\ pc[r] \in {"remap", "gather", "issue", "attend"} => Gathers(Current(r))
  /\ pc[r] = "partial" => ~ Gathers(Current(r))
  /\ pc[r] = "collective" => call[r] \in CallsOf(Current(r))
  /\ pc[r] = "attend" => got[r] = Ranks

\* The collectives of the batches before the n-th, and those a rank issued in
\* the layer it is in.
IssuedBefore(n) ==
  Layers * ((n - 1) + Cardinality({m \in 1 .. n - 1 : ~ Gathers(plan[m])}))

IssuedInLayer(r) ==
  IF pc[r] \in {"write", "remap", "gather", "issue"} THEN 0
  ELSE IF pc[r] = "collective" /\ call[r].kind = "merge" THEN 2 ELSE 1

\* A rank's place tells how many collectives it has issued.
Counted(r) ==
  op[r] = IF pc[r] = "idle" THEN IssuedBefore(batch[r] + 1)
          ELSE IssuedBefore(batch[r])
                 + (layer[r] - 1) * CallsPerLayer(Current(r)) + IssuedInLayer(r)

\* Who has left a collective has been heard by everybody.
Heard ==
  \A r, d \in Ranks : ~ InCall(r) /\ op[r] # 0 =>
    op[d] > op[r] \/ (op[d] = op[r] /\ r \in got[d])

\* Tokens of a request that a rank's cache knows of, for one layer.
Known(r, l, q) ==
  IF pc[r] = "idle" \/ l < layer[r] \/ (l = layer[r] /\ pc[r] # "write")
  THEN LenAfter(batch[r], q)
  ELSE LenAfter(batch[r] - 1, q)

Stored(r) ==
  \A l \in LayerIds, q \in Requests, t \in Tokens :
    t < Known(r, l, q) /\ Owner(t) = r => cache[r][<<l, q, LocalIndex(t)>>] = <<l, q, t>>

\* The part a rank contributes, and what it has of the others' parts.
OwnPart(r) ==
  pc[r] = "issue" \/ Gathering(r) =>
    \A k \in Wanted(Current(r)) : Owner(k[2]) = r =>
      local[r][Place(Current(r), k)] = <<layer[r], k[1], k[2]>>

Arrived(r) ==
  pc[r] = "attend" \/ Gathering(r) =>
    \A k \in Wanted(Current(r)) : Owner(k[2]) \in got[r] =>
      gathered[r][Slot(Current(r), r, k[1], k[2])] = <<layer[r], k[1], k[2]>>

\* The slots the attention kernel will read are those of the batch's tokens.
Remapped(r) ==
  pc[r] \in {"gather", "issue", "attend"} \/ Gathering(r) =>
    selected[r] = {Slot(Current(r), r, k[1], k[2]) : k \in Wanted(Current(r))}

RankInv(r) ==
  /\ OnPath(r) /\ Counted(r) /\ Stored(r)
  /\ OwnPart(r) /\ Arrived(r) /\ Remapped(r)

IInv == TypeOK /\ Continues /\ Heard /\ \A r \in Ranks : RankInv(r)

-----------------------------------------------------------------------------
(***************************************************************************)
(* Counting collectives.                                                   *)
(***************************************************************************)

\* A rank that took up a batch is in one of the scheduled batches.
LEMMA CurrentIsBatch ==
  ASSUME TypeOK, NEW r \in Ranks, batch[r] # 0
  PROVE  batch[r] \in 1 .. Len(plan) /\ Current(r) \in Batches
<1>1. batch[r] \in 0 .. Len(plan) /\ Len(plan) \in Nat /\ plan \in Seq(Batches)
  BY DEF TypeOK
<1>2. batch[r] \in 1 .. Len(plan)
  BY <1>1
<1> QED BY <1>1, <1>2 DEF Current

\* The collectives of the n-th batch come on top of those before it.
LEMMA IssuedNext ==
  ASSUME NEW n \in Nat \ {0}
  PROVE  /\ IssuedBefore(n) \in Nat
         /\ IssuedBefore(n + 1) = IssuedBefore(n) + Layers * CallsPerLayer(plan[n])
<1> DEFINE Stock(m) == {i \in 1 .. m - 1 : ~ Gathers(plan[i])}
           c == Cardinality(Stock(n))
<1>1. IsFiniteSet(1 .. n - 1) /\ Stock(n) \in SUBSET (1 .. n - 1)
  BY FS_Interval
<1>2. IsFiniteSet(Stock(n)) /\ c \in Nat
  BY <1>1, FS_Subset, FS_CardinalityType
<1>3. Layers \in Nat /\ n - 1 \in Nat
  BY BatchAssumption
<1>4. IssuedBefore(n) = Layers * ((n - 1) + c)
  BY DEF IssuedBefore
<1>5. IssuedBefore(n + 1) = Layers * (n + Cardinality(Stock(n + 1)))
  <2>1. n + 1 - 1 = n
    OBVIOUS
  <2> QED BY <2>1 DEF IssuedBefore
<1>6. \A i : i \in 1 .. n + 1 - 1 <=> i \in 1 .. n - 1 \/ i = n
  OBVIOUS
<1>7. n \notin Stock(n)
  OBVIOUS
<1>8. CASE Gathers(plan[n])
  <2>1. Stock(n + 1) = Stock(n)
    BY <1>6, <1>8
  <2>2. IssuedBefore(n + 1) = Layers * (n + c)
    <3> HIDE DEF Stock
    <3> QED BY <1>5, <2>1
  <2> HIDE DEF c
  <2>3. Layers * (n + c) = Layers * ((n - 1) + c) + Layers * 1
    BY <1>2, <1>3
  <2>4. Layers * ((n - 1) + c) \in Nat
    BY <1>2, <1>3
  <2> QED BY <1>4, <1>8, <2>2, <2>3, <2>4 DEF CallsPerLayer
<1>9. CASE ~ Gathers(plan[n])
  <2>1. Stock(n + 1) = Stock(n) \cup {n}
    BY <1>6, <1>9
  <2>2. Cardinality(Stock(n + 1)) = c + 1
    <3> HIDE DEF Stock
    <3> QED BY <1>2, <1>7, <2>1, FS_AddElement
  <2>3. IssuedBefore(n + 1) = Layers * (n + (c + 1))
    BY <1>5, <2>2
  <2> HIDE DEF c
  <2>4. Layers * (n + (c + 1)) = Layers * ((n - 1) + c) + Layers * 2
    BY <1>2, <1>3
  <2>5. Layers * ((n - 1) + c) \in Nat
    BY <1>2, <1>3
  <2> QED BY <1>4, <1>9, <2>3, <2>4, <2>5 DEF CallsPerLayer
<1> QED BY <1>8, <1>9

\* Later batches come after more collectives.
LEMMA IssuedGrows ==
  ASSUME NEW n \in Nat \ {0}, NEW m \in Nat, n <= m
  PROVE  IssuedBefore(n) <= IssuedBefore(m)
<1> DEFINE Stock(j) == {i \in 1 .. j - 1 : ~ Gathers(plan[i])}
           a == (n - 1) + Cardinality(Stock(n))
           b == (m - 1) + Cardinality(Stock(m))
<1>1. IsFiniteSet(1 .. m - 1) /\ Stock(m) \in SUBSET (1 .. m - 1)
  BY FS_Interval
<1>2. IsFiniteSet(Stock(m)) /\ Stock(n) \in SUBSET Stock(m)
  BY <1>1, FS_Subset
<1>3. /\ Cardinality(Stock(n)) \in Nat /\ Cardinality(Stock(m)) \in Nat
      /\ Cardinality(Stock(n)) <= Cardinality(Stock(m))
  <2> HIDE DEF Stock
  <2> QED BY <1>2, FS_Subset, FS_CardinalityType
<1>4. a \in Nat /\ b \in Nat /\ a <= b /\ Layers \in Nat
  <2> HIDE DEF Stock
  <2> QED BY <1>3, BatchAssumption
<1>5. IssuedBefore(n) = Layers * a /\ IssuedBefore(m) = Layers * b
  BY DEF IssuedBefore
<1> HIDE DEF a, b
<1> QED BY <1>4, <1>5, MulMono

\* A rank in a collective has issued more than the batches before, and no more
\* than its batch needs.
LEMMA InCallPlace ==
  ASSUME TypeOK, NEW r \in Ranks, OnPath(r), Counted(r), InCall(r)
  PROVE  /\ batch[r] \in Nat \ {0} /\ Current(r) \in Batches
         /\ layer[r] \in Nat /\ IssuedInLayer(r) \in 1 .. CallsPerLayer(Current(r))
         /\ op[r] = IssuedBefore(batch[r])
                      + (layer[r] - 1) * CallsPerLayer(Current(r)) + IssuedInLayer(r)
         /\ IssuedBefore(batch[r]) < op[r]
         /\ op[r] <= IssuedBefore(batch[r] + 1)
         /\ call[r] \in CallsOf(Current(r))
<1> DEFINE n == batch[r]
           c == CallsPerLayer(Current(r))
           p == IssuedInLayer(r)
           l == layer[r] - 1
<1>1. n \in 1 .. Len(plan) /\ Current(r) \in Batches /\ n # 0
  BY CurrentIsBatch DEF InCall, OnPath
<1>2. n \in Nat \ {0} /\ layer[r] \in 1 .. Layers /\ Layers \in Nat
  BY <1>1, BatchAssumption DEF TypeOK, LayerIds
<1>3. pc[r] = "collective" /\ call[r] \in CallsOf(Current(r))
  BY DEF InCall, OnPath
<1>4. p \in 1 .. c /\ c \in {1, 2}
  BY <1>3 DEF IssuedInLayer, CallsPerLayer, CallsOf
<1>5. op[r] = IssuedBefore(n) + l * c + p
  BY <1>3 DEF Counted
<1>6. /\ IssuedBefore(n) \in Nat
      /\ IssuedBefore(n + 1) = IssuedBefore(n) + Layers * c
  BY <1>2, IssuedNext DEF Current
<1>7. l \in Nat /\ l + 1 <= Layers
  BY <1>2
<1> HIDE DEF n, c, p, l
<1>8. l * c + p <= Layers * c /\ l * c \in Nat /\ Layers * c \in Nat
  BY <1>2, <1>4, <1>7
<1>9. IssuedBefore(n) < op[r] /\ op[r] <= IssuedBefore(n + 1)
  BY <1>4, <1>5, <1>6, <1>8
<1> QED BY <1>1, <1>2, <1>3, <1>4, <1>5, <1>9 DEF n, c, p, l

\* Ranks that have issued the same number of collectives, and wait in the
\* last, are in the same layer of the same batch and wait in the same one.
LEMMA SamePlace ==
  ASSUME TypeOK, NEW r \in Ranks, NEW s \in Ranks, OnPath(r), OnPath(s),
         Counted(r), Counted(s), InCall(r), InCall(s), op[r] = op[s]
  PROVE  batch[r] = batch[s] /\ layer[r] = layer[s] /\ call[r] = call[s]
<1>1. batch[r] = batch[s]
  <2>1. /\ batch[r] \in Nat \ {0} /\ batch[s] \in Nat \ {0}
        /\ IssuedBefore(batch[r]) < op[r] /\ op[r] <= IssuedBefore(batch[r] + 1)
        /\ IssuedBefore(batch[s]) < op[s] /\ op[s] <= IssuedBefore(batch[s] + 1)
    BY InCallPlace
  <2>2. batch[r] + 1 \in Nat \ {0} /\ batch[s] + 1 \in Nat \ {0}
    BY <2>1
  <2>3. /\ IssuedBefore(batch[r]) \in Nat /\ IssuedBefore(batch[s]) \in Nat
        /\ IssuedBefore(batch[r] + 1) \in Nat /\ IssuedBefore(batch[s] + 1) \in Nat
        /\ op[r] \in Nat
    BY <2>1, <2>2, IssuedNext DEF TypeOK
  <2>4. ~ (batch[r] < batch[s])
    <3>1. batch[r] < batch[s] => IssuedBefore(batch[r] + 1) <= IssuedBefore(batch[s])
      BY <2>1, <2>2, IssuedGrows
    <3> QED BY <2>1, <2>3, <3>1
  <2>5. ~ (batch[s] < batch[r])
    <3>1. batch[s] < batch[r] => IssuedBefore(batch[s] + 1) <= IssuedBefore(batch[r])
      BY <2>1, <2>2, IssuedGrows
    <3> QED BY <2>1, <2>3, <3>1
  <2> QED BY <2>1, <2>4, <2>5
<1> DEFINE b == Current(r)
           c == CallsPerLayer(b)
           p == IssuedInLayer(r)
           q == IssuedInLayer(s)
<1>2. Current(s) = b
  BY <1>1 DEF Current
<1>3. /\ layer[r] \in Nat /\ layer[s] \in Nat
      /\ p \in 1 .. c /\ q \in 1 .. c
      /\ op[r] = IssuedBefore(batch[r]) + (layer[r] - 1) * c + p
      /\ op[s] = IssuedBefore(batch[r]) + (layer[s] - 1) * c + q
      /\ call[r] \in CallsOf(b) /\ call[s] \in CallsOf(b)
  BY <1>1, <1>2, InCallPlace
<1>4. IssuedBefore(batch[r]) \in Nat
  BY IssuedNext, InCallPlace
<1>5. c \in {1, 2}
  BY DEF CallsPerLayer
<1>6. (c = 2 /\ ~ Gathers(b)) \/ (c = 1 /\ Gathers(b))
  BY DEF CallsPerLayer
<1>7. /\ p = IF call[r].kind = "merge" THEN 2 ELSE 1
      /\ q = IF call[s].kind = "merge" THEN 2 ELSE 1
  BY DEF IssuedInLayer, InCall
<1> HIDE DEF b, c, p, q
<1>8. layer[r] = layer[s] /\ p = q
  <2> DEFINE x == (layer[r] - 1) * c
             y == (layer[s] - 1) * c
  <2>1. x \in Int /\ y \in Int /\ p \in Int /\ q \in Int
    BY <1>3, <1>5
  <2>2. op[r] = IssuedBefore(batch[r]) + x + p /\ op[s] = IssuedBefore(batch[r]) + y + q
    BY <1>3
  <2>3. x + p = y + q
    <3> DEFINE z == IssuedBefore(batch[r])
    <3>1. z \in Nat /\ z + x + p = z + y + q
      BY <1>4, <2>2
    <3> HIDE DEF x, y, z
    <3> QED BY <2>1, <3>1
  <2>4. CASE c = 1
    <3>1. x = layer[r] - 1 /\ y = layer[s] - 1 /\ p = 1 /\ q = 1
      BY <1>3, <2>4
    <3> HIDE DEF x, y
    <3> QED BY <1>3, <2>3, <3>1
  <2>5. CASE c = 2
    <3>1. x = 2 * (layer[r] - 1) /\ y = 2 * (layer[s] - 1)
          /\ p \in {1, 2} /\ q \in {1, 2}
      BY <1>3, <2>5
    <3> HIDE DEF x, y
    <3> QED BY <1>3, <2>3, <3>1
  <2> QED BY <1>5, <2>4, <2>5
<1>9. call[r] = call[s]
  BY <1>3, <1>6, <1>7, <1>8 DEF CallsOf
<1> QED BY <1>1, <1>8, <1>9
-----------------------------------------------------------------------------
(***************************************************************************)
(* The invariant is inductive.                                             *)
(***************************************************************************)

\* What is kept per rank.
Kept(s) ==
  /\ batch'[s] = batch[s] /\ layer'[s] = layer[s] /\ pc'[s] = pc[s]
  /\ cache'[s] = cache[s] /\ local'[s] = local[s] /\ gathered'[s] = gathered[s]
  /\ selected'[s] = selected[s] /\ op'[s] = op[s] /\ call'[s] = call[s]
  /\ got'[s] = got[s]

\* A rank of which nothing changes keeps its invariant.
LEMMA KeptKeeps ==
  ASSUME NEW s \in Ranks, Kept(s), plan' = plan, RankInv(s)
  PROVE  RankInv(s)'
<1>1. /\ Current(s)' = Current(s)
      /\ InCall(s)' = InCall(s)
      /\ Gathering(s)' = Gathering(s)
      /\ IssuedInLayer(s)' = IssuedInLayer(s)
      /\ \A n : IssuedBefore(n)' = IssuedBefore(n)
      /\ \A n, q : LenAfter(n, q)' = LenAfter(n, q)
  BY DEF Kept, Current, InCall, Gathering, IssuedInLayer, IssuedBefore, LenAfter
<1>2. OnPath(s)'
  BY <1>1 DEF Kept, RankInv, OnPath
<1>3. Counted(s)'
  BY <1>1 DEF Kept, RankInv, Counted
<1>4. Stored(s)'
  BY <1>1 DEF Kept, RankInv, Stored, Known
<1>5. OwnPart(s)' /\ Arrived(s)' /\ Remapped(s)'
  BY <1>1 DEF Kept, RankInv, OwnPart, Arrived, Remapped
<1> QED BY <1>2, <1>3, <1>4, <1>5 DEF RankInv

\* A step of a rank is its own.
LEMMA StepOfOne ==
  ASSUME TypeOK, NEW r \in Ranks, RankStep(r), NEW s \in Ranks, s # r
  PROVE  Kept(s) /\ plan' = plan
<1> USE DEF TypeOK, Kept
<1>1. CASE TakeBatch(r)
  BY <1>1 DEF TakeBatch
<1>2. CASE WriteCache(r)
  BY <1>2 DEF WriteCache
<1>3. CASE Remap(r)
  BY <1>3 DEF Remap
<1>4. CASE GatherLocal(r)
  BY <1>4 DEF GatherLocal
<1>5. CASE AllGather(r)
  BY <1>5 DEF AllGather
<1>6. CASE LeaveCall(r)
  BY <1>6 DEF LeaveCall, NextLayer
<1>7. CASE Attend(r)
  BY <1>7 DEF Attend, NextLayer
<1>8. CASE AttendPartial(r)
  BY <1>8 DEF AttendPartial
<1> QED BY <1>1, <1>2, <1>3, <1>4, <1>5, <1>6, <1>7, <1>8 DEF RankStep

\* A transfer changes nothing but what the receiver has.
LEMMA TransferOfOne ==
  ASSUME TypeOK, NEW src \in Ranks, NEW dst \in Ranks, Transfer(src, dst),
         NEW s \in Ranks, s # dst
  PROVE  Kept(s) /\ plan' = plan
  BY DEF TypeOK, Kept, Transfer

\* The invariant holds at the start.
LEMMA InitIInv == Init => IInv
<1> SUFFICES ASSUME Init PROVE IInv
  OBVIOUS
<1> USE DEF Init
<1>1. Len(plan) = 0 /\ plan \in Seq(Batches)
  OBVIOUS
<1>2. TypeOK
  <2>1. LocalCapacity \in Nat /\ MaxBatches \in Nat /\ 1 \in LayerIds
    BY CapacityType, BatchAssumption DEF LayerIds
  <2>2. call \in [Ranks -> [kind : Kinds, size : 0 .. LocalCapacity]]
    BY <2>1 DEF Kinds
  <2>3. cache \in [Ranks -> [LayerIds \X Requests \X Tokens -> Records \cup {Blank}]]
    OBVIOUS
  <2>4. /\ local \in [Ranks -> [0 .. LocalCapacity - 1 -> Records \cup {Blank}]]
        /\ gathered \in
             [Ranks -> [0 .. DcpSize * LocalCapacity - 1 -> Records \cup {Blank}]]
    OBVIOUS
  <2> QED BY <1>1, <2>1, <2>2, <2>3, <2>4 DEF TypeOK, Steps
<1>3. Continues
  BY <1>1 DEF Continues
<1>4. Heard
  BY DEF Heard
<1>5. ASSUME NEW r \in Ranks PROVE RankInv(r)
  <2>1. OnPath(r) /\ OwnPart(r) /\ Arrived(r) /\ Remapped(r)
    BY DEF OnPath, OwnPart, Arrived, Remapped, Gathering, InCall
  <2>2. Counted(r)
    <3>1. {m \in 1 .. 0 : ~ Gathers(plan[m])} = {}
      OBVIOUS
    <3>2. IssuedBefore(1) = Layers * (0 + Cardinality({}))
      BY <3>1 DEF IssuedBefore
    <3>3. IssuedBefore(0 + 1) = 0
      BY <3>2, FS_EmptySet, BatchAssumption
    <3> QED BY <3>3 DEF Counted
  <2>3. Stored(r)
    BY DEF Stored, Known, LenAfter, Tokens
  <2> QED BY <2>1, <2>2, <2>3 DEF RankInv
<1> QED BY <1>2, <1>3, <1>4, <1>5 DEF IInv

\* A new batch leaves what is done for the earlier ones as it is.
LEMMA ScheduleIInv == ASSUME IInv, Schedule PROVE IInv'
<1>1. TypeOK /\ Continues /\ Heard /\ \A r \in Ranks : RankInv(r)
  BY DEF IInv
<1>2. PICK query \in [Requests -> 0 .. MaxQuery] :
        LET len == [q \in Requests |-> Reached(q) + query[q]]
        IN  /\ \A q \in Requests : len[q] <= MaxLen
            /\ plan' = Append(plan, [query |-> query, len |-> len])
  BY DEF Schedule
<1>3. PICK last \in Nat : last = Len(plan)
  BY <1>1 DEF TypeOK
<1> DEFINE new == [query |-> query, len |-> [q \in Requests |-> Reached(q) + query[q]]]
<1>4. /\ plan \in Seq(Batches) /\ last \in Nat /\ last < MaxBatches
      /\ UNCHANGED <<batch, layer, pc, cache, local, gathered, selected, op, call, got>>
      /\ plan' = Append(plan, new)
      /\ \A q \in Requests : Reached(q) + query[q] <= MaxLen
  BY <1>1, <1>2, <1>3 DEF TypeOK, Schedule
<1>5. \A q \in Requests : Reached(q) = LenAfter(last, q)
  BY <1>1, <1>3 DEF Reached, LenAfter, TypeOK
<1>6. ASSUME NEW q \in Requests PROVE Reached(q) \in Nat /\ query[q] \in Nat
  <2>1. query[q] \in Nat
    BY BatchAssumption
  <2>2. CASE last = 0
    BY <1>5, <2>1, <2>2 DEF LenAfter
  <2>3. CASE last # 0
    <3>1. plan[last] \in Batches
      BY <1>4, <1>3, <2>3
    <3>2. plan[last].len[q] \in Nat
      BY <3>1, RankZero, RankLenType
    <3> QED BY <1>5, <2>1, <2>3, <3>2 DEF LenAfter
  <2> QED BY <2>2, <2>3
<1>7. new \in Batches
  <2>1. ASSUME NEW q \in Requests PROVE Reached(q) + query[q] \in 0 .. MaxLen
    BY <1>4, <1>6, BatchAssumption
  <2> QED BY <2>1 DEF Batches
<1> HIDE DEF new
<1>8. /\ plan' \in Seq(Batches) /\ Len(plan') = last + 1
      /\ \A n \in 1 .. last : plan'[n] = plan[n]
      /\ plan'[last + 1] = new
  BY <1>4, <1>7, <1>3
<1>9. /\ \A n \in 0 .. last : \A q : LenAfter(n, q)' = LenAfter(n, q)
      /\ \A q : LenAfter(last + 1, q)' = new.len[q]
  BY <1>4, <1>8 DEF LenAfter
<1>10. ASSUME NEW n \in 0 .. last + 1 PROVE IssuedBefore(n)' = IssuedBefore(n)
  <2>1. \A m \in 1 .. n - 1 : plan'[m] = plan[m]
    BY <1>4, <1>8
  <2>2. {m \in 1 .. n - 1 : ~ Gathers(plan'[m])} = {m \in 1 .. n - 1 : ~ Gathers(plan[m])}
    BY <2>1
  <2> QED BY <2>2 DEF IssuedBefore
<1>11. TypeOK'
  <2>1. batch' \in [Ranks -> 0 .. Len(plan')]
    BY <1>1, <1>4, <1>8, <1>3 DEF TypeOK
  <2>2. Len(plan') <= MaxBatches
    BY <1>4, <1>8, BatchAssumption
  <2> QED BY <1>1, <1>4, <1>8, <2>1, <2>2 DEF TypeOK
<1>12. Continues'
  <2> SUFFICES ASSUME NEW n \in 1 .. last + 1, NEW q \in Requests
               PROVE  plan'[n].len[q] = LenAfter(n - 1, q)' + plan'[n].query[q]
    BY <1>8 DEF Continues
  <2>1. n - 1 \in 0 .. last /\ LenAfter(n - 1, q)' = LenAfter(n - 1, q)
    BY <1>4, <1>9
  <2>2. CASE n \in 1 .. last
    BY <1>1, <1>8, <1>3, <2>1, <2>2 DEF Continues
  <2>3. CASE n = last + 1
    <3>1. n - 1 = last
      BY <1>4, <2>3
    <3>2. new.len[q] = Reached(q) + query[q] /\ new.query[q] = query[q]
      BY DEF new
    <3>3. plan'[n] = new
      BY <1>8, <2>3
    <3>4. LenAfter(n - 1, q) = Reached(q)
      BY <1>5, <3>1
    <3> QED BY <2>1, <3>2, <3>3, <3>4
  <2>4. n \in 1 .. last \/ n = last + 1
    OBVIOUS
  <2> QED BY <2>2, <2>3, <2>4
<1>13. Heard'
  BY <1>1, <1>4 DEF Heard, InCall
<1>14. ASSUME NEW r \in Ranks PROVE RankInv(r)'
  <2>1. RankInv(r) /\ batch[r] \in 0 .. last
    BY <1>1, <1>3 DEF TypeOK
  <2>2. batch[r] # 0 => Current(r)' = Current(r)
    BY <1>4, <1>8, <2>1 DEF Current
  <2>3. pc[r] # "idle" => Current(r)' = Current(r)
    BY <2>1, <2>2 DEF RankInv, OnPath
  <2>4. InCall(r)' = InCall(r) /\ Gathering(r)' = Gathering(r)
        /\ IssuedInLayer(r)' = IssuedInLayer(r)
    BY <1>4 DEF InCall, Gathering, IssuedInLayer
  <2>5. OnPath(r)'
    BY <1>4, <2>1, <2>3 DEF RankInv, OnPath
  <2>6. Counted(r)'
    <3>1. batch[r] \in 0 .. last + 1 /\ batch[r] + 1 \in 0 .. last + 1
      BY <1>4, <2>1
    <3>2. /\ IssuedBefore(batch[r])' = IssuedBefore(batch[r])
          /\ IssuedBefore(batch[r] + 1)' = IssuedBefore(batch[r] + 1)
      BY <1>4, <1>10, <3>1
    <3> QED BY <1>4, <2>1, <2>3, <2>4, <3>2 DEF RankInv, Counted
  <2>7. Stored(r)'
    <3>1. \A l, q : Known(r, l, q)' = Known(r, l, q)
      <4>1. CASE pc[r] = "idle"
        BY <1>4, <1>9, <2>1, <4>1 DEF Known
      <4>2. CASE pc[r] # "idle"
        <5>1. batch[r] \in 0 .. last /\ batch[r] - 1 \in 0 .. last
          BY <1>4, <2>1, <4>2 DEF RankInv, OnPath
        <5> QED BY <1>4, <1>9, <5>1 DEF Known
      <4> QED BY <4>1, <4>2
    <3> QED BY <1>4, <2>1, <3>1 DEF RankInv, Stored
  <2>8. OwnPart(r)'
    BY <1>4, <2>1, <2>3, <2>4 DEF RankInv, OwnPart, Gathering, InCall
  <2>9. Arrived(r)'
    BY <1>4, <2>1, <2>3, <2>4 DEF RankInv, Arrived, Gathering, InCall
  <2>10. Remapped(r)'
    BY <1>4, <2>1, <2>3, <2>4 DEF RankInv, Remapped, Gathering, InCall
  <2> QED BY <2>5, <2>6, <2>7, <2>8, <2>9, <2>10 DEF RankInv
<1> QED BY <1>11, <1>12, <1>13, <1>14 DEF IInv
\* The counts and lengths of the batches do not change while the plan does not.
LEMMA PlanKept ==
  ASSUME plan' = plan
  PROVE  /\ \A n : IssuedBefore(n)' = IssuedBefore(n)
         /\ \A n, q : LenAfter(n, q)' = LenAfter(n, q)
         /\ Continues => Continues'
  BY DEF IssuedBefore, LenAfter, Continues

\* Whoever waits in a collective goes on waiting, and nothing is lost.
LEMMA HeardStays ==
  ASSUME Heard, op' = op, \A s \in Ranks : got[s] \subseteq got'[s],
         \A s \in Ranks : InCall(s) => InCall(s)'
  PROVE  Heard'
  BY DEF Heard

\* A rank that issues its next collective has heard all the earlier ones.
LEMMA HeardOnIssue ==
  ASSUME TypeOK, Heard, NEW r \in Ranks,
         op' = [op EXCEPT ![r] = @ + 1], got' = [got EXCEPT ![r] = {}],
         pc' = [pc EXCEPT ![r] = "collective"]
  PROVE  Heard'
<1> SUFFICES ASSUME NEW s \in Ranks, NEW d \in Ranks, ~ InCall(s)', op'[s] # 0
             PROVE  op'[d] > op'[s] \/ (op'[d] = op'[s] /\ s \in got'[d])
  BY DEF Heard
<1>1. s # r /\ pc'[s] = pc[s] /\ op'[s] = op[s]
  BY DEF TypeOK, InCall
<1>2. op[d] > op[s] \/ (op[d] = op[s] /\ s \in got[d])
  BY <1>1 DEF Heard, InCall
<1>3. CASE d = r
  BY <1>1, <1>2, <1>3 DEF TypeOK
<1>4. CASE d # r
  BY <1>1, <1>2, <1>4 DEF TypeOK
<1> QED BY <1>3, <1>4

\* A new batch is taken up after the last layer of the one before.
LEMMA TakeBatchKeeps ==
  ASSUME IInv, NEW r \in Ranks, TakeBatch(r)
  PROVE  TypeOK' /\ Heard' /\ RankInv(r)'
<1>1. TypeOK /\ Heard /\ RankInv(r) /\ plan' = plan
  BY DEF IInv, TakeBatch
<1>2. /\ batch[r] \in 0 .. Len(plan) /\ Len(plan) \in Nat
      /\ batch'[r] = batch[r] + 1 /\ batch[r] < Len(plan)
      /\ layer'[r] = 1 /\ pc[r] = "idle" /\ pc'[r] = "write"
      /\ cache' = cache /\ op' = op /\ got' = got
  BY <1>1 DEF TypeOK, TakeBatch
<1>3. PICK n \in Nat : n = batch[r]
  BY <1>2
<1>4. 1 \in LayerIds
  BY BatchAssumption DEF LayerIds
<1>5. TypeOK'
  <2>1. batch[r] + 1 \in 0 .. Len(plan)
    BY <1>2
  <2> QED BY <1>1, <1>4, <2>1 DEF TypeOK, TakeBatch, Steps
<1>6. Heard'
  <2>1. \A s \in Ranks : InCall(s) => InCall(s)'
    BY <1>1, <1>2 DEF InCall, TakeBatch, TypeOK
  <2> QED BY <1>1, <1>2, <2>1, HeardStays
<1>7. OnPath(r)' /\ OwnPart(r)' /\ Arrived(r)' /\ Remapped(r)'
  BY <1>2 DEF OnPath, OwnPart, Arrived, Remapped, Gathering, InCall
<1>8. Counted(r)'
  <2>1. op[r] = IssuedBefore(n + 1) /\ n + 1 \in Nat \ {0}
    BY <1>1, <1>2, <1>3 DEF RankInv, Counted
  <2>2. IssuedBefore(n + 1) \in Nat
    BY <2>1, IssuedNext
  <2>3. IssuedInLayer(r)' = 0
    BY <1>2 DEF IssuedInLayer
  <2>4. CallsPerLayer(Current(r)') \in {1, 2}
    BY DEF CallsPerLayer
  <2>5. (layer'[r] - 1) * CallsPerLayer(Current(r)') = 0
    BY <1>2, <2>4
  <2>6. IssuedBefore(n + 1)' = IssuedBefore(n + 1)
    BY <1>1, PlanKept
  <2>7. IssuedBefore(batch[r])' = IssuedBefore(n + 1)'
    BY <1>2, <1>3
  <2>8. Counted(r)' <=>
          op'[r] = IssuedBefore(batch[r])'
                     + (layer'[r] - 1) * CallsPerLayer(Current(r)') + IssuedInLayer(r)'
    BY <1>2 DEF Counted
  <2> QED BY <1>2, <2>1, <2>2, <2>3, <2>5, <2>6, <2>7, <2>8
<1>9. Stored(r)'
  <2>1. ASSUME NEW l \in LayerIds, NEW q \in Requests
        PROVE  Known(r, l, q)' = Known(r, l, q)
    <3>1. ~ (l < 1)
      BY DEF LayerIds
    <3>2. batch'[r] = n + 1 /\ batch'[r] - 1 = n /\ batch[r] = n
      BY <1>2, <1>3
    <3>3. Known(r, l, q)' = LenAfter(n, q)'
      BY <1>2, <3>1, <3>2 DEF Known
    <3>4. Known(r, l, q) = LenAfter(n, q)
      BY <1>2, <3>2 DEF Known
    <3> QED BY <1>1, <3>2, <3>3, <3>4, PlanKept
  <2> QED BY <1>1, <1>2, <2>1 DEF RankInv, Stored
<1> QED BY <1>5, <1>6, <1>7, <1>8, <1>9 DEF RankInv

\* The local index of a token that a request can have is such a number too.
LEMMA LocalIndexIsToken ==
  ASSUME NEW t \in Tokens
  PROVE  LocalIndex(t) \in Tokens
<1>1. t \in Nat /\ t <= MaxLen - 1 /\ MaxLen \in Nat
  BY BatchAssumption DEF Tokens
<1>2. LocalIndex(t) \in Nat /\ LocalIndex(t) <= t
  BY <1>1, TokenRoundTrip, LocalIndexBelow
<1> QED BY <1>1, <1>2 DEF Tokens

\* What is known of a rank that stays in its batch.
LEMMA InPlace ==
  ASSUME plan' = plan, batch' = batch, NEW r \in Ranks
  PROVE  /\ Current(r)' = Current(r)
         /\ IssuedBefore(batch[r])' = IssuedBefore(batch[r])
         /\ IssuedBefore(batch[r] + 1)' = IssuedBefore(batch[r] + 1)
         /\ \A q : LenAfter(batch[r], q)' = LenAfter(batch[r], q)
         /\ \A q : LenAfter(batch[r] - 1, q)' = LenAfter(batch[r] - 1, q)
  BY DEF Current, IssuedBefore, LenAfter

\* The numbers of a rank in a batch.
LEMMA InBatch ==
  ASSUME TypeOK, NEW r \in Ranks, OnPath(r), Counted(r), pc[r] # "idle"
  PROVE  /\ batch[r] \in Nat \ {0} /\ batch[r] <= Len(plan)
         /\ Current(r) \in Batches /\ Current(r) = plan[batch[r]]
         /\ layer[r] \in Nat \ {0} /\ layer[r] <= Layers /\ Layers \in Nat
         /\ CallsPerLayer(Current(r)) \in {1, 2}
         /\ IssuedBefore(batch[r]) \in Nat
         /\ IssuedBefore(batch[r] + 1)
              = IssuedBefore(batch[r]) + Layers * CallsPerLayer(Current(r))
         /\ op[r] = IssuedBefore(batch[r])
                      + (layer[r] - 1) * CallsPerLayer(Current(r)) + IssuedInLayer(r)
<1>1. batch[r] \in 1 .. Len(plan) /\ Current(r) \in Batches
  BY CurrentIsBatch DEF OnPath
<1>2. batch[r] \in Nat \ {0} /\ batch[r] <= Len(plan)
  BY <1>1
<1>3. layer[r] \in Nat \ {0} /\ layer[r] <= Layers /\ Layers \in Nat
  BY BatchAssumption DEF TypeOK, LayerIds
<1>4. CallsPerLayer(Current(r)) \in {1, 2}
  BY DEF CallsPerLayer
<1>5. /\ IssuedBefore(batch[r]) \in Nat
      /\ IssuedBefore(batch[r] + 1)
           = IssuedBefore(batch[r]) + Layers * CallsPerLayer(plan[batch[r]])
  BY <1>2, IssuedNext
<1>6. Current(r) = plan[batch[r]]
  BY DEF Current
<1> QED BY <1>1, <1>2, <1>3, <1>4, <1>5, <1>6 DEF Counted

\* The count goes on with the collectives of the layer.
LEMMA CountedInLayer ==
  ASSUME TypeOK, NEW r \in Ranks, OnPath(r), Counted(r), pc[r] # "idle",
         plan' = plan, batch' = batch, layer' = layer, pc'[r] # "idle",
         \/ op'[r] = op[r] /\ IssuedInLayer(r)' = IssuedInLayer(r)
         \/ op'[r] = op[r] + 1 /\ IssuedInLayer(r) = 0 /\ IssuedInLayer(r)' = 1
         \/ op'[r] = op[r] + 1 /\ IssuedInLayer(r) = 1 /\ IssuedInLayer(r)' = 2
  PROVE  Counted(r)'
<1> DEFINE A == IssuedBefore(batch[r])
           x == (layer[r] - 1) * CallsPerLayer(Current(r))
           p == IssuedInLayer(r)
<1>1. A \in Nat /\ x \in Int /\ op[r] = A + x + p
  BY InBatch
<1>2. IssuedBefore(batch[r])' = A
      /\ ((layer[r] - 1) * CallsPerLayer(Current(r)))' = x
  BY InPlace
<1>3. p \in {0, 1, 2}
  BY DEF IssuedInLayer
<1>4. Counted(r)' <=>
        op'[r] = IssuedBefore(batch[r])'
                   + ((layer[r] - 1) * CallsPerLayer(Current(r)))' + IssuedInLayer(r)'
  BY DEF Counted
<1>5. op'[r] = A + x + IssuedInLayer(r)'
  <2> HIDE DEF A, x
  <2> QED BY <1>1, <1>3
<1> QED BY <1>2, <1>4, <1>5

\* The records of the layer go to the cache.
LEMMA WriteCacheStores ==
  ASSUME IInv, NEW r \in Ranks, WriteCache(r)
  PROVE  /\ cache' \in [Ranks -> [LayerIds \X Requests \X Tokens -> Records \cup {Blank}]]
         /\ Stored(r)'
<1>1. TypeOK /\ Continues /\ RankInv(r)
  BY DEF IInv
<1>2. /\ pc[r] = "write" /\ pc'[r] # "write" /\ pc'[r] # "idle"
      /\ plan' = plan /\ batch' = batch /\ layer' = layer
  BY <1>1 DEF TypeOK, WriteCache
<1> DEFINE b == Current(r)
           l0 == layer[r]
           new == {k \in Requests \X Tokens :
                     /\ k[2] < b.len[k[1]]
                     /\ k[2] >= b.len[k[1]] - b.query[k[1]]
                     /\ Owner(k[2]) = r}
           At(k) == <<l0, k[1], LocalIndex(k[2])>>
           keys == LayerIds \X Requests \X Tokens
           c1 == [key \in keys |->
                    IF \E k \in new : key = At(k)
                    THEN LET k == CHOOSE k \in new : key = At(k)
                         IN  <<l0, k[1], k[2]>>
                    ELSE cache[r][key]]
<1>3. cache' = [cache EXCEPT ![r] = c1]
  <2>1. DOMAIN cache[r] = keys
    BY <1>1 DEF TypeOK
  <2> QED BY <2>1 DEF WriteCache
<1>4. l0 \in LayerIds /\ b \in Batches /\ r \in Nat
  <2>1. b \in Batches
    BY <1>1, <1>2, InBatch DEF RankInv
  <2>2. l0 \in LayerIds
    BY <1>1 DEF TypeOK
  <2>3. r \in Nat
    BY SizesAssumption DEF Ranks
  <2> QED BY <2>1, <2>2, <2>3
<1>5. ASSUME NEW key \in keys, NEW k \in new, key = At(k)
      PROVE  c1[key] = <<l0, k[1], k[2]>> /\ c1[key] \in Records
  <2> DEFINE j == CHOOSE j \in new : key = At(j)
  <2>1. j \in new /\ key = At(j)
    BY <1>5
  <2>2. \A i \in new : i = <<i[1], i[2]>> /\ i[1] \in Requests /\ i[2] \in Nat
                       /\ i[2] \in Tokens /\ Owner(i[2]) = r
    BY DEF Tokens
  <2> HIDE DEF j, new
  <2>3. LocalIndex(j[2]) = LocalIndex(k[2]) /\ j[1] = k[1]
    BY <2>1, <1>5
  <2>4. j[2] = k[2]
    <3>1. Owner(j[2]) = r /\ Owner(k[2]) = r /\ j[2] \in Nat /\ k[2] \in Nat
      BY <1>5, <2>1, <2>2
    <3>2. /\ GlobalPosition(LocalIndex(j[2]), Owner(j[2])) = j[2]
          /\ GlobalPosition(LocalIndex(k[2]), Owner(k[2])) = k[2]
      BY <3>1, TokenRoundTrip
    <3> QED BY <2>3, <3>1, <3>2
  <2>5. c1[key] = <<l0, j[1], j[2]>>
    BY <1>5 DEF j
  <2>6. k[1] \in Requests /\ k[2] \in Tokens
    BY <1>5, <2>2
  <2> QED BY <1>4, <2>3, <2>4, <2>5, <2>6 DEF Records
<1>6. ASSUME NEW key \in keys, \A k \in new : key # At(k)
      PROVE  c1[key] = cache[r][key] /\ c1[key] \in Records \cup {Blank}
  BY <1>1, <1>6 DEF TypeOK
<1>7. c1 \in [keys -> Records \cup {Blank}]
  <2>1. ASSUME NEW key \in keys PROVE c1[key] \in Records \cup {Blank}
    BY <1>5, <1>6
  <2> QED BY <2>1
<1>8. Stored(r)'
  <2> SUFFICES ASSUME NEW l \in LayerIds, NEW q \in Requests, NEW t \in Tokens,
                      t < Known(r, l, q)', Owner(t) = r
               PROVE  cache'[r][<<l, q, LocalIndex(t)>>] = <<l, q, t>>
    BY DEF Stored
  <2> DEFINE key == <<l, q, LocalIndex(t)>>
  <2>1. cache'[r] = c1
    BY <1>1, <1>3 DEF TypeOK
  <2>2. t \in Nat /\ l \in Nat /\ l0 \in Nat
    BY <1>4, BatchAssumption DEF Tokens, LayerIds
  <2>3. /\ l <= l0 => Known(r, l, q)' = LenAfter(batch[r], q)
        /\ ~ (l <= l0) => Known(r, l, q)' = LenAfter(batch[r] - 1, q)
        /\ l < l0 => Known(r, l, q) = LenAfter(batch[r], q)
        /\ ~ (l < l0) => Known(r, l, q) = LenAfter(batch[r] - 1, q)
    <3>1. l <= l0 <=> l < l0 \/ l = l0
      BY <2>2
    <3> QED BY <1>2, <3>1, InPlace DEF Known
  <2>4. key \in keys
    BY <1>4, LocalIndexIsToken DEF Tokens
  <2>5. CASE \E k \in new : key = At(k)
    <3>1. PICK k \in new : key = At(k)
      BY <2>5
    <3>2. l = l0 /\ q = k[1] /\ LocalIndex(t) = LocalIndex(k[2])
      BY <3>1
    <3>3. k[2] \in Nat /\ Owner(k[2]) = r
      BY <3>1 DEF Tokens
    <3>4. /\ GlobalPosition(LocalIndex(t), Owner(t)) = t
          /\ GlobalPosition(LocalIndex(k[2]), Owner(k[2])) = k[2]
      BY <2>2, <3>3, TokenRoundTrip
    <3>5. t = k[2]
      BY <3>2, <3>3, <3>4
    <3> HIDE DEF c1, new, key, keys
    <3>6. c1[key] = <<l0, k[1], k[2]>>
      BY <1>5, <2>4, <3>1
    <3> QED BY <2>1, <3>2, <3>5, <3>6 DEF key
  <2>6. CASE \A k \in new : key # At(k)
    <3>1. c1[key] = cache[r][key]
      BY <1>6, <2>4, <2>6
    <3>2. t < Known(r, l, q)
      <4>1. CASE l < l0
        BY <2>2, <2>3, <4>1
      <4>2. CASE ~ (l <= l0)
        BY <2>2, <2>3, <4>2
      <4>3. CASE l = l0
        <5>1. t < LenAfter(batch[r], q) /\ Known(r, l, q) = LenAfter(batch[r] - 1, q)
          BY <2>2, <2>3, <4>3
        <5>2. batch[r] \in 1 .. Len(plan) /\ b = plan[batch[r]]
          BY <1>1, <1>2, InBatch DEF RankInv
        <5>3. b.len[q] = LenAfter(batch[r] - 1, q) + b.query[q]
          BY <1>1, <5>2 DEF Continues
        <5>4. LenAfter(batch[r], q) = b.len[q]
          BY <5>2 DEF LenAfter
        <5>5. ~ (t >= b.len[q] - b.query[q])
          <6>1. <<q, t>> \in Requests \X Tokens /\ key = At(<<q, t>>)
            BY <4>3
          <6>2. <<q, t>> \notin new
            BY <2>6, <6>1
          <6> QED BY <5>1, <5>4, <6>1, <6>2
        <5>6. b.len[q] \in Nat /\ b.query[q] \in Nat
          BY <1>4, RowsAreNumbers, RankZero, RankLenType DEF Batches
        <5>7. LenAfter(batch[r] - 1, q) = b.len[q] - b.query[q]
          <6>1. LenAfter(batch[r] - 1, q) \in Nat
            <7>1. CASE batch[r] - 1 = 0
              BY <7>1 DEF LenAfter
            <7>2. CASE batch[r] - 1 # 0
              <8>1. plan[batch[r] - 1] \in Batches
                BY <1>1, <5>2, <7>2 DEF TypeOK
              <8> QED BY <7>2, <8>1, RankZero, RankLenType DEF LenAfter
            <7> QED BY <7>1, <7>2
          <6> QED BY <5>3, <5>6, <6>1
        <5> QED BY <2>2, <5>1, <5>5, <5>6, <5>7
      <4> QED BY <2>2, <4>1, <4>2, <4>3
    <3>3. cache[r][key] = <<l, q, t>>
      BY <1>1, <3>2 DEF RankInv, Stored
    <3> QED BY <2>1, <3>1, <3>3
  <2> QED BY <2>5, <2>6
<1>9. cache' \in [Ranks -> [keys -> Records \cup {Blank}]]
  BY <1>1, <1>3, <1>7 DEF TypeOK
<1> QED BY <1>8, <1>9
\* Having written, a rank takes the path that its batch has for all ranks.
LEMMA WriteCacheKeeps ==
  ASSUME IInv, NEW r \in Ranks, WriteCache(r)
  PROVE  TypeOK' /\ Heard' /\ RankInv(r)'
<1>1. TypeOK /\ Heard /\ RankInv(r) /\ plan' = plan /\ batch' = batch /\ layer' = layer
  BY DEF IInv, WriteCache
<1>2. pc[r] = "write" /\ ~ InCall(r)
  BY DEF WriteCache, InCall
<1>3. Current(r) \in Batches /\ Current(r)' = Current(r) /\ batch[r] # 0
  BY <1>1, <1>2, InBatch, InPlace DEF RankInv
<1>4. Eligible(Current(r), r) <=> Gathers(Current(r))
  BY <1>3, EligibleIsCommon
<1>5. \/ /\ Gathers(Current(r)) /\ pc' = [pc EXCEPT ![r] = "remap"]
         /\ op' = op /\ call' = call /\ got' = got
      \/ /\ ~ Gathers(Current(r)) /\ pc' = [pc EXCEPT ![r] = "collective"]
         /\ op' = [op EXCEPT ![r] = @ + 1]
         /\ call' = [call EXCEPT ![r] = [kind |-> "query", size |-> 0]]
         /\ got' = [got EXCEPT ![r] = {}]
  BY <1>4 DEF WriteCache
<1>6. Stored(r)' /\ cache' \in
        [Ranks -> [LayerIds \X Requests \X Tokens -> Records \cup {Blank}]]
  BY WriteCacheStores
<1>7. TypeOK'
  <2>1. LocalCapacity \in Nat
    BY CapacityType
  <2>2. pc' \in [Ranks -> Steps]
    BY <1>1, <1>5 DEF TypeOK, Steps
  <2>3. [kind |-> "query", size |-> 0] \in [kind : Kinds, size : 0 .. LocalCapacity]
    BY <2>1 DEF Kinds
  <2>4. /\ op' \in [Ranks -> Nat] /\ got' \in [Ranks -> SUBSET Ranks]
        /\ call' \in [Ranks -> [kind : Kinds, size : 0 .. LocalCapacity]]
    <3>1. /\ op \in [Ranks -> Nat] /\ got \in [Ranks -> SUBSET Ranks]
          /\ call \in [Ranks -> [kind : Kinds, size : 0 .. LocalCapacity]]
      BY <1>1 DEF TypeOK
    <3>2. op' \in [Ranks -> Nat]
      BY <1>5, <3>1
    <3>3. got' \in [Ranks -> SUBSET Ranks]
      BY <1>5, <3>1
    <3>4. call' \in [Ranks -> [kind : Kinds, size : 0 .. LocalCapacity]]
      <4>1. call' = call \/ call' = [call EXCEPT ![r] = [kind |-> "query", size |-> 0]]
        BY <1>5
      <4> QED BY <2>3, <3>1, <4>1
    <3> QED BY <3>2, <3>3, <3>4
  <2> QED BY <1>1, <1>6, <2>2, <2>4 DEF TypeOK, WriteCache
<1>8. Heard'
  <2>1. CASE op' = op /\ got' = got /\ pc' = [pc EXCEPT ![r] = "remap"]
    <3>1. \A s \in Ranks : InCall(s) => InCall(s)'
      BY <1>1, <1>2, <2>1 DEF InCall, TypeOK
    <3> QED BY <1>1, <2>1, <3>1, HeardStays
  <2> QED BY <1>1, <1>5, <2>1, HeardOnIssue
<1>9. pc'[r] \in {"remap", "collective"}
      /\ (pc'[r] = "remap" <=> Gathers(Current(r)))
      /\ (pc'[r] = "collective" => call'[r] = [kind |-> "query", size |-> 0])
  BY <1>1, <1>5 DEF TypeOK
<1>10. OnPath(r)'
  BY <1>1, <1>3, <1>9 DEF OnPath, CallsOf
<1>11. OwnPart(r)' /\ Arrived(r)' /\ Remapped(r)'
  BY <1>9 DEF OwnPart, Arrived, Remapped, Gathering, InCall
<1>12. Counted(r)'
  <2>1. CASE pc'[r] = "remap"
    <3>1. op'[r] = op[r] /\ IssuedInLayer(r) = 0 /\ IssuedInLayer(r)' = 0
      BY <1>2, <1>5, <1>9, <2>1 DEF IssuedInLayer
    <3> QED BY <1>1, <1>2, <2>1, <3>1, CountedInLayer DEF RankInv
  <2>2. CASE pc'[r] = "collective"
    <3>1. op'[r] = op[r] + 1 /\ IssuedInLayer(r) = 0 /\ IssuedInLayer(r)' = 1
      BY <1>1, <1>2, <1>5, <1>9, <2>2 DEF IssuedInLayer, TypeOK
    <3> QED BY <1>1, <1>2, <2>2, <3>1, CountedInLayer DEF RankInv
  <2> QED BY <1>9, <2>1, <2>2
<1> QED BY <1>6, <1>7, <1>8, <1>10, <1>11, <1>12 DEF RankInv

\* A step inside the layer, after the write, leaves what the cache holds.
LEMMA StoredInLayer ==
  ASSUME NEW r \in Ranks, Stored(r), plan' = plan, batch' = batch, layer' = layer,
         cache' = cache, pc[r] # "idle", pc[r] # "write",
         pc'[r] # "idle", pc'[r] # "write"
  PROVE  Stored(r)'
<1>1. \A l, q : Known(r, l, q)' = Known(r, l, q)
  BY InPlace DEF Known
<1> QED BY <1>1 DEF Stored

\* The remap selects a slot for every token of the batch.
LEMMA RemapKeeps ==
  ASSUME IInv, NEW r \in Ranks, Remap(r)
  PROVE  TypeOK' /\ Heard' /\ RankInv(r)'
<1>1. /\ TypeOK /\ Heard /\ RankInv(r) /\ plan' = plan /\ batch' = batch
      /\ layer' = layer /\ cache' = cache /\ op' = op /\ got' = got /\ call' = call
  BY DEF IInv, Remap
<1>2. pc[r] = "remap" /\ pc'[r] = "gather" /\ ~ InCall(r) /\ ~ InCall(r)'
  BY <1>1 DEF Remap, InCall, TypeOK
<1>3. /\ Current(r) \in Batches /\ Current(r)' = Current(r) /\ batch[r] # 0
      /\ Gathers(Current(r))
  BY <1>1, <1>2, InBatch, InPlace DEF RankInv, OnPath
<1> DEFINE slots == {Slot(Current(r), r, k[1], k[2]) : k \in Wanted(Current(r))}
<1>4. selected' = [selected EXCEPT ![r] = slots]
  BY <1>3, RemapDropsNone DEF Remap
<1>5. slots \subseteq 0 .. DcpSize * LocalCapacity - 1
  <2>1. \A k \in Wanted(Current(r)) :
          Slot(Current(r), r, k[1], k[2]) \in 0 .. DcpSize * LocalCapacity - 1
    BY <1>3, SlotInArena
  <2> QED BY <2>1
<1>6. TypeOK'
  <2>1. pc' \in [Ranks -> Steps]
    BY <1>1 DEF TypeOK, Steps, Remap
  <2> HIDE DEF slots
  <2>2. selected' \in [Ranks -> SUBSET (0 .. DcpSize * LocalCapacity - 1)]
    BY <1>1, <1>4, <1>5 DEF TypeOK
  <2> QED BY <1>1, <2>1, <2>2 DEF TypeOK, Remap
<1>7. Heard'
  <2>1. \A s \in Ranks : InCall(s) => InCall(s)'
    BY <1>1, <1>2 DEF InCall, TypeOK, Remap
  <2> QED BY <1>1, <2>1, HeardStays
<1>8. OnPath(r)' /\ OwnPart(r)' /\ Arrived(r)'
  BY <1>1, <1>2, <1>3 DEF OnPath, OwnPart, Arrived, Gathering, InCall
<1>9. Remapped(r)'
  <2>1. selected'[r] = slots
    BY <1>1, <1>4 DEF TypeOK
  <2> QED BY <1>3, <2>1 DEF Remapped
<1>10. Counted(r)'
  <2>1. op'[r] = op[r] /\ IssuedInLayer(r) = IssuedInLayer(r)'
    BY <1>1, <1>2 DEF IssuedInLayer
  <2> QED BY <1>1, <1>2, <2>1, CountedInLayer DEF RankInv
<1>11. Stored(r)'
  BY <1>1, <1>2, StoredInLayer DEF RankInv
<1> QED BY <1>6, <1>7, <1>8, <1>9, <1>10, <1>11 DEF RankInv
\* A place of a part is held by one of the batch's requests, under a local
\* index that a token of the request has.
LEMMA HeldToken ==
  ASSUME NEW b \in Batches, NEW r \in Ranks, NEW q \in Rows(b), NEW i \in Nat,
         RankStart(b, r, q) <= i, i < RankStart(b, r, q) + RankLen(b, r, q)
  PROVE  q \in Requests /\ i - RankStart(b, r, q) \in Tokens
<1> DEFINE n == i - RankStart(b, r, q)
<1>1. q \in Requests /\ b.len[q] \in 0 .. MaxLen /\ b.len[q] \in Nat
  BY RankZero, RankLenType DEF Rows, Batches
<1>2. RankStart(b, r, q) \in Nat /\ RankLen(b, r, q) \in Nat
      /\ RankLen(b, r, q) = LocalLen(b.len[q], r)
  BY PartLayout DEF RankLen
<1>3. n \in Nat /\ n < LocalLen(b.len[q], r)
  BY <1>2
<1> HIDE DEF n
<1>4. n < b.len[q]
  BY <1>1, <1>3, KeptTokens
<1>5. n \in Tokens
  BY <1>1, <1>3, <1>4, BatchAssumption DEF Tokens
<1> QED BY <1>1, <1>5 DEF n

\* The part that a rank fills for the gather.
LEMMA GatherLocalFills ==
  ASSUME IInv, NEW r \in Ranks, GatherLocal(r)
  PROVE  /\ local' \in [Ranks -> [0 .. LocalCapacity - 1 -> Records \cup {Blank}]]
         /\ \A k \in Wanted(Current(r)) : Owner(k[2]) = r =>
              local'[r][Place(Current(r), k)] = <<layer[r], k[1], k[2]>>
<1>1. TypeOK /\ RankInv(r) /\ pc[r] = "gather"
  BY DEF IInv, GatherLocal
<1> DEFINE b == Current(r)
           room == 0 .. LocalCapacity - 1
           Holder(i) == {q \in Rows(b) :
                           /\ RankStart(b, r, q) <= i
                           /\ i < RankStart(b, r, q) + RankLen(b, r, q)}
           part == [i \in room |->
              IF i < Sizes(b, r).mine
              THEN LET q == CHOOSE q \in Holder(i) : TRUE
                   IN  cache[r][<<layer[r], q, i - RankStart(b, r, q)>>]
              ELSE IF i < Sizes(b, r).padded THEN Blank ELSE local[r][i]]
<1>2. local' = [local EXCEPT ![r] = part]
  <2>1. DOMAIN local[r] = room
    BY <1>1 DEF TypeOK
  <2> QED BY <2>1 DEF GatherLocal
<1>3. /\ b \in Batches /\ Gathers(b) /\ batch[r] \in 1 .. Len(plan)
      /\ b = plan[batch[r]] /\ layer[r] \in LayerIds
  <2>1. /\ batch[r] \in Nat \ {0} /\ batch[r] <= Len(plan)
        /\ b \in Batches /\ b = plan[batch[r]] /\ Gathers(b)
    BY <1>1, InBatch DEF RankInv, OnPath
  <2>2. layer[r] \in LayerIds /\ Len(plan) \in Nat
    BY <1>1 DEF TypeOK
  <2> QED BY <2>1, <2>2
<1>4. /\ Sizes(b, r).mine = RankTotal(b, r) /\ RankTotal(b, r) \in Nat
      /\ RankTotal(b, r) <= Padded(b) /\ Padded(b) \in Nat
      /\ Padded(b) <= LocalCapacity /\ LocalCapacity \in Nat
  BY <1>3, SizesAreCommon, EligibleIsCommon, CapacityType
<1> HIDE DEF b
<1>5. ASSUME NEW i \in room, i < RankTotal(b, r)
      PROVE  \E q \in Holder(i) :
               /\ part[i] = cache[r][<<layer[r], q, i - RankStart(b, r, q)>>]
               /\ q \in Requests /\ i - RankStart(b, r, q) \in Tokens
  <2> DEFINE q == CHOOSE q \in Holder(i) : TRUE
  <2>1. i \in Nat
    OBVIOUS
  <2>2. \E p \in Rows(b) : /\ RankStart(b, r, p) <= i
                           /\ i < RankStart(b, r, p) + RankLen(b, r, p)
    BY <1>3, <1>5, <2>1, PartLayout
  <2>3. q \in Holder(i)
    BY <2>2
  <2>4. q \in Requests /\ i - RankStart(b, r, q) \in Tokens
    BY <1>3, <2>1, <2>3, HeldToken
  <2>5. part[i] = cache[r][<<layer[r], q, i - RankStart(b, r, q)>>]
    BY <1>4, <1>5
  <2> HIDE DEF q, part, Holder
  <2> QED BY <2>3, <2>4, <2>5
<1>6. part \in [room -> Records \cup {Blank}]
  <2>1. ASSUME NEW i \in room PROVE part[i] \in Records \cup {Blank}
    <3>1. CASE i < RankTotal(b, r)
      <4>1. PICK q \in Holder(i) :
               /\ part[i] = cache[r][<<layer[r], q, i - RankStart(b, r, q)>>]
               /\ q \in Requests /\ i - RankStart(b, r, q) \in Tokens
        BY <1>5, <3>1
      <4>2. <<layer[r], q, i - RankStart(b, r, q)>> \in LayerIds \X Requests \X Tokens
        BY <1>3, <4>1
      <4> HIDE DEF part, Holder
      <4> QED BY <1>1, <4>1, <4>2 DEF TypeOK
    <3>2. CASE ~ (i < RankTotal(b, r))
      <4>1. part[i] = Blank \/ part[i] = local[r][i]
        BY <1>4, <3>2
      <4>2. local[r] \in [room -> Records \cup {Blank}]
        BY <1>1 DEF TypeOK
      <4>3. local[r][i] \in Records \cup {Blank}
        BY <4>2
      <4> HIDE DEF part
      <4> QED BY <4>1, <4>3
    <3> QED BY <3>1, <3>2
  <2> HIDE DEF room
  <2> QED BY <2>1
<1>7. ASSUME NEW k \in Wanted(b), Owner(k[2]) = r
      PROVE  part[Place(b, k)] = <<layer[r], k[1], k[2]>>
  <2> DEFINE i == Place(b, k)
  <2>1. /\ k[1] \in Rows(b) /\ k[2] \in Nat /\ i \in Nat
        /\ i < RankTotal(b, r)
        /\ i = RankStart(b, r, k[1]) + LocalIndex(k[2])
        /\ RankStart(b, r, k[1]) \in Nat /\ LocalIndex(k[2]) \in Nat
    BY <1>3, <1>7, WantedPlace DEF Place
  <2>2. k[1] \in Requests /\ k[2] \in Tokens /\ k[2] < b.len[k[1]]
    BY DEF Wanted
  <2>3. i \in room
    <3> HIDE DEF i
    <3> QED BY <1>4, <2>1
  <2>4. PICK q \in Holder(i) :
               /\ part[i] = cache[r][<<layer[r], q, i - RankStart(b, r, q)>>]
               /\ q \in Requests /\ i - RankStart(b, r, q) \in Tokens
    BY <1>5, <2>1, <2>3
  <2>5. q = k[1]
    BY <1>3, <1>7, <2>4, HolderIsOne
  <2>6. i - RankStart(b, r, q) = LocalIndex(k[2])
    <3> HIDE DEF i
    <3> QED BY <2>1, <2>5
  <2>7. Known(r, layer[r], k[1]) = b.len[k[1]]
    BY <1>1, <1>3 DEF Known, LenAfter
  <2>8. cache[r][<<layer[r], k[1], LocalIndex(k[2])>>] = <<layer[r], k[1], k[2]>>
    BY <1>1, <1>3, <1>7, <2>2, <2>7 DEF RankInv, Stored
  <2> HIDE DEF i, part, Holder
  <2>9. part[i] = <<layer[r], k[1], k[2]>>
    BY <2>4, <2>5, <2>6, <2>8
  <2> QED BY <2>9 DEF i
<1>8. local'[r] = part
  BY <1>1, <1>2 DEF TypeOK
<1>9. local' \in [Ranks -> [room -> Records \cup {Blank}]]
  <2> HIDE DEF part
  <2> QED BY <1>1, <1>2, <1>6 DEF TypeOK
<1> HIDE DEF part
<1> QED BY <1>7, <1>8, <1>9 DEF b
\* The rank's part is ready for the gather.
LEMMA GatherLocalKeeps ==
  ASSUME IInv, NEW r \in Ranks, GatherLocal(r)
  PROVE  TypeOK' /\ Heard' /\ RankInv(r)'
<1>1. /\ TypeOK /\ Heard /\ RankInv(r) /\ plan' = plan /\ batch' = batch
      /\ layer' = layer /\ cache' = cache /\ op' = op /\ got' = got /\ call' = call
      /\ selected' = selected
  BY DEF IInv, GatherLocal
<1>2. pc[r] = "gather" /\ pc'[r] = "issue" /\ ~ InCall(r) /\ ~ InCall(r)'
  BY <1>1 DEF GatherLocal, InCall, TypeOK
<1>3. /\ Current(r) \in Batches /\ Current(r)' = Current(r) /\ batch[r] # 0
      /\ Gathers(Current(r))
  BY <1>1, <1>2, InBatch, InPlace DEF RankInv, OnPath
<1>4. TypeOK'
  <2>1. pc' \in [Ranks -> Steps]
    BY <1>1 DEF TypeOK, Steps, GatherLocal
  <2> QED BY <1>1, <2>1, GatherLocalFills DEF TypeOK, GatherLocal
<1>5. Heard'
  <2>1. \A s \in Ranks : InCall(s) => InCall(s)'
    BY <1>1, <1>2 DEF InCall, TypeOK, GatherLocal
  <2> QED BY <1>1, <2>1, HeardStays
<1>6. OnPath(r)' /\ Arrived(r)'
  BY <1>1, <1>2, <1>3 DEF OnPath, Arrived, Gathering, InCall
<1>7. OwnPart(r)'
  BY <1>1, <1>2, <1>3, GatherLocalFills DEF OwnPart
<1>8. Remapped(r)'
  BY <1>1, <1>2, <1>3 DEF RankInv, Remapped
<1>9. Counted(r)'
  <2>1. op'[r] = op[r] /\ IssuedInLayer(r) = IssuedInLayer(r)'
    BY <1>1, <1>2 DEF IssuedInLayer
  <2> QED BY <1>1, <1>2, <2>1, CountedInLayer DEF RankInv
<1>10. Stored(r)'
  BY <1>1, <1>2, StoredInLayer DEF RankInv
<1> QED BY <1>4, <1>5, <1>6, <1>7, <1>8, <1>9, <1>10 DEF RankInv

\* The gather is issued; nobody's part has come yet.
LEMMA AllGatherKeeps ==
  ASSUME IInv, NEW r \in Ranks, AllGather(r)
  PROVE  TypeOK' /\ Heard' /\ RankInv(r)'
<1> DEFINE new == [kind |-> "ckv", size |-> Sizes(Current(r), r).padded]
<1>1. /\ TypeOK /\ Heard /\ RankInv(r) /\ plan' = plan /\ batch' = batch
      /\ layer' = layer /\ cache' = cache /\ local' = local
      /\ selected' = selected
      /\ op' = [op EXCEPT ![r] = @ + 1] /\ got' = [got EXCEPT ![r] = {}]
      /\ pc' = [pc EXCEPT ![r] = "collective"]
      /\ call' = [call EXCEPT ![r] = new]
  BY DEF IInv, AllGather
<1>2. pc[r] = "issue" /\ pc'[r] = "collective" /\ ~ InCall(r)
  BY <1>1 DEF AllGather, InCall, TypeOK
<1>3. /\ Current(r) \in Batches /\ Current(r)' = Current(r) /\ batch[r] # 0
      /\ Gathers(Current(r))
  BY <1>1, <1>2, InBatch, InPlace DEF RankInv, OnPath
<1>4. /\ new = [kind |-> "ckv", size |-> Padded(Current(r))]
      /\ Padded(Current(r)) \in 0 .. LocalCapacity
  <2>1. /\ Sizes(Current(r), r).padded = Padded(Current(r))
        /\ Padded(Current(r)) \in Nat /\ Padded(Current(r)) <= LocalCapacity
    BY <1>3, SizesAreCommon, EligibleIsCommon
  <2> QED BY <2>1, CapacityType
<1>5. call'[r] = [kind |-> "ckv", size |-> Padded(Current(r))]
  BY <1>1, <1>4 DEF TypeOK
<1>6. TypeOK'
  <2>1. pc' \in [Ranks -> Steps] /\ op' \in [Ranks -> Nat]
    BY <1>1 DEF TypeOK, Steps
  <2>2. got' \in [Ranks -> SUBSET Ranks]
    BY <1>1 DEF TypeOK
  <2>3. new \in [kind : Kinds, size : 0 .. LocalCapacity]
    BY <1>4 DEF Kinds
  <2>4. call' \in [Ranks -> [kind : Kinds, size : 0 .. LocalCapacity]]
    <3> HIDE DEF new
    <3> QED BY <1>1, <2>3 DEF TypeOK
  <2> QED BY <1>1, <2>1, <2>2, <2>4 DEF TypeOK, AllGather
<1>7. Heard'
  BY <1>1, HeardOnIssue
<1>8. OnPath(r)'
  BY <1>2, <1>1, <1>3, <1>5 DEF OnPath, CallsOf
<1>9. OwnPart(r)'
  BY <1>1, <1>2, <1>3 DEF RankInv, OwnPart
<1>10. Arrived(r)'
  <2>1. got'[r] = {}
    BY <1>1 DEF TypeOK
  <2> QED BY <2>1 DEF Arrived
<1>11. Remapped(r)'
  BY <1>1, <1>2, <1>3 DEF RankInv, Remapped
<1>12. Counted(r)'
  <2>1. op'[r] = op[r] + 1 /\ IssuedInLayer(r) = 0 /\ IssuedInLayer(r)' = 1
    BY <1>1, <1>2, <1>5 DEF IssuedInLayer, TypeOK
  <2> QED BY <1>1, <1>2, <2>1, CountedInLayer DEF RankInv
<1>13. Stored(r)'
  BY <1>1, <1>2, StoredInLayer DEF RankInv
<1> QED BY <1>6, <1>7, <1>8, <1>9, <1>10, <1>11, <1>12, <1>13 DEF RankInv

\* A rank that has issued all the collectives of its layer goes on to the next.
LEMMA NextLayerKeeps ==
  ASSUME TypeOK, NEW r \in Ranks, RankInv(r), NextLayer(r), plan' = plan,
         batch' = batch, cache' = cache, op' = op,
         pc[r] # "idle", pc[r] # "write",
         IssuedInLayer(r) = CallsPerLayer(Current(r))
  PROVE  /\ layer' \in [Ranks -> LayerIds] /\ pc' \in [Ranks -> Steps]
         /\ pc'[r] # "collective"
         /\ \A s \in Ranks : s # r => pc'[s] = pc[s]
         /\ RankInv(r)'
<1> DEFINE l == layer[r]
           c == CallsPerLayer(Current(r))
           A == IssuedBefore(batch[r])
<1>1. /\ l \in Nat \ {0} /\ l <= Layers /\ Layers \in Nat /\ c \in {1, 2}
      /\ A \in Nat /\ op[r] = A + (l - 1) * c + c
      /\ IssuedBefore(batch[r] + 1) = A + Layers * c
      /\ batch[r] # 0
  BY InBatch DEF RankInv
<1>2. op[r] = A + l * c
  <2>1. c = 1 \/ c = 2
    BY <1>1
  <2> HIDE DEF l, c, A
  <2> QED BY <1>1, <2>1
<1>3. \/ /\ l < Layers /\ layer' = [layer EXCEPT ![r] = l + 1]
         /\ pc' = [pc EXCEPT ![r] = "write"]
      \/ /\ l = Layers /\ layer' = layer
         /\ pc' = [pc EXCEPT ![r] = "idle"]
  BY <1>1 DEF NextLayer
<1>4. \/ /\ l < Layers /\ layer'[r] = l + 1 /\ pc'[r] = "write"
      \/ /\ l = Layers /\ layer'[r] = l /\ pc'[r] = "idle"
  BY <1>3 DEF TypeOK
<1>5. l < Layers => l + 1 \in LayerIds
  <2> HIDE DEF l
  <2> QED BY <1>1 DEF LayerIds
<1>6. layer' \in [Ranks -> LayerIds]
  <2> HIDE DEF l
  <2> QED BY <1>3, <1>5 DEF TypeOK
<1>7. /\ pc' \in [Ranks -> Steps] /\ pc'[r] # "collective"
      /\ \A s \in Ranks : s # r => pc'[s] = pc[s]
  BY <1>3 DEF TypeOK, Steps
<1>8. OnPath(r)' /\ OwnPart(r)' /\ Arrived(r)' /\ Remapped(r)'
  BY <1>1, <1>4 DEF OnPath, OwnPart, Arrived, Remapped, Gathering, InCall
<1>9. Counted(r)'
  <2>1. IssuedBefore(batch[r])' = A
        /\ IssuedBefore(batch[r] + 1)' = IssuedBefore(batch[r] + 1)
        /\ Current(r)' = Current(r)
    BY InPlace
  <2>2. CASE pc'[r] = "idle"
    <3>1. op'[r] = IssuedBefore(batch[r] + 1)'
      BY <1>1, <1>2, <1>4, <2>1, <2>2
    <3> QED BY <2>2, <3>1 DEF Counted
  <2>3. CASE pc'[r] = "write"
    <3>1. IssuedInLayer(r)' = 0 /\ layer'[r] = l + 1
      BY <1>4, <2>3 DEF IssuedInLayer
    <3>2. Counted(r)' <=> op'[r] = IssuedBefore(batch[r])'
                             + ((layer[r] - 1) * CallsPerLayer(Current(r)))'
                             + IssuedInLayer(r)'
      BY <2>3 DEF Counted
    <3>3. ((layer[r] - 1) * CallsPerLayer(Current(r)))' = l * c
      <4>1. ((layer[r] - 1) * CallsPerLayer(Current(r)))' = (layer'[r] - 1) * c
        BY <2>1
      <4>2. layer'[r] - 1 = l
        <5> HIDE DEF l
        <5> QED BY <1>1, <3>1
      <4> QED BY <4>1, <4>2
    <3> HIDE DEF l, c, A
    <3>4. A + l * c + 0 = A + l * c
      BY <1>1
    <3>5. Counted(r)' <=> op'[r] = A + l * c + 0
      BY <2>1, <3>1, <3>2, <3>3
    <3> QED BY <1>2, <3>4, <3>5
  <2> QED BY <1>4, <2>2, <2>3
<1>10. Stored(r)'
  <2>1. ASSUME NEW i \in LayerIds, NEW q \in Requests
        PROVE  Known(r, i, q)' = Known(r, i, q)
    <3>1. i \in Nat /\ i <= Layers
      BY BatchAssumption DEF LayerIds
    <3>2. Known(r, i, q) = IF i <= l THEN LenAfter(batch[r], q)
                           ELSE LenAfter(batch[r] - 1, q)
      BY <1>1, <3>1 DEF Known
    <3>3. CASE pc'[r] = "idle"
      BY <1>1, <1>4, <3>1, <3>2, <3>3, InPlace DEF Known
    <3>4. CASE pc'[r] = "write"
      <4>1. i < l + 1 <=> i <= l
        <5> HIDE DEF l
        <5> QED BY <1>1, <3>1
      <4>2. Known(r, i, q)' = IF i < l + 1 THEN LenAfter(batch[r], q)'
                              ELSE LenAfter(batch[r] - 1, q)'
        BY <1>4, <3>4 DEF Known
      <4> QED BY <3>2, <4>1, <4>2, InPlace
    <3> QED BY <1>4, <3>3, <3>4
  <2> QED BY <2>1 DEF RankInv, Stored
<1> QED BY <1>6, <1>7, <1>8, <1>9, <1>10 DEF RankInv
\* A collective is left when all of it has come and all have what is to leave.
LEMMA LeaveCallKeeps ==
  ASSUME IInv, NEW r \in Ranks, LeaveCall(r)
  PROVE  TypeOK' /\ Heard' /\ RankInv(r)'
<1>1. /\ TypeOK /\ Heard /\ RankInv(r) /\ plan' = plan /\ batch' = batch
      /\ cache' = cache /\ local' = local /\ gathered' = gathered
      /\ selected' = selected /\ op' = op /\ call' = call /\ got' = got
  BY DEF IInv, LeaveCall
<1>2. pc[r] = "collective" /\ got[r] = Ranks
      /\ \A d \in Ranks : op[d] > op[r] \/ (op[d] = op[r] /\ r \in got[d])
  BY DEF LeaveCall, InCall, CallDone
<1>3. /\ Current(r)' = Current(r) /\ batch[r] # 0 /\ call[r] \in CallsOf(Current(r))
  BY <1>1, <1>2, InPlace DEF RankInv, OnPath
<1>4. \/ /\ call[r].kind = "ckv" /\ pc' = [pc EXCEPT ![r] = "attend"] /\ layer' = layer
      \/ /\ call[r].kind = "query" /\ pc' = [pc EXCEPT ![r] = "partial"] /\ layer' = layer
      \/ /\ call[r].kind = "merge" /\ NextLayer(r)
  BY DEF LeaveCall
<1>5. ASSUME \A s \in Ranks : s # r => pc'[s] = pc[s]
      PROVE  Heard'
  <2> SUFFICES ASSUME NEW s \in Ranks, NEW d \in Ranks, ~ InCall(s)', op[s] # 0
               PROVE  op[d] > op[s] \/ (op[d] = op[s] /\ s \in got[d])
    BY <1>1 DEF Heard
  <2>1. CASE s = r
    BY <1>2, <2>1
  <2>2. CASE s # r
    <3>1. ~ InCall(s)
      BY <1>5, <2>2 DEF InCall
    <3> QED BY <1>1, <3>1 DEF Heard
  <2> QED BY <2>1, <2>2
<1>6. CASE call[r].kind = "merge" /\ NextLayer(r)
  <2>1. IssuedInLayer(r) = CallsPerLayer(Current(r))
    BY <1>2, <1>3, <1>6 DEF IssuedInLayer, CallsPerLayer, CallsOf
  <2>2. /\ layer' \in [Ranks -> LayerIds] /\ pc' \in [Ranks -> Steps]
        /\ \A s \in Ranks : s # r => pc'[s] = pc[s]
        /\ RankInv(r)'
    BY <1>1, <1>2, <1>6, <2>1, NextLayerKeeps
  <2>3. TypeOK'
    BY <1>1, <2>2 DEF TypeOK
  <2> QED BY <1>5, <2>2, <2>3
<1>7. CASE /\ call[r].kind \in {"ckv", "query"} /\ layer' = layer
           /\ pc' = [pc EXCEPT ![r] = IF call[r].kind = "ckv" THEN "attend" ELSE "partial"]
  <2>1. /\ pc'[r] = IF call[r].kind = "ckv" THEN "attend" ELSE "partial"
        /\ pc' \in [Ranks -> Steps]
        /\ \A s \in Ranks : s # r => pc'[s] = pc[s]
    BY <1>1, <1>7 DEF TypeOK, Steps
  <2>2. TypeOK'
    BY <1>1, <1>7, <2>1 DEF TypeOK
  <2>3. call[r].kind = "ckv" <=> Gathers(Current(r))
    BY <1>3, <1>7 DEF CallsOf
  <2>4. OnPath(r)'
    BY <1>1, <1>2, <1>3, <2>1, <2>3 DEF OnPath
  <2>5. OwnPart(r)'
    BY <2>1 DEF OwnPart, Gathering, InCall
  <2>6. Arrived(r)' /\ Remapped(r)'
    <3>1. pc'[r] = "attend" => Gathering(r)
      BY <1>2, <2>1 DEF Gathering, InCall
    <3>2. pc'[r] # "collective" /\ pc'[r] \notin {"gather", "issue"}
      BY <2>1
    <3> QED BY <1>1, <1>3, <1>7, <3>1, <3>2 DEF RankInv, Arrived, Remapped, Gathering, InCall
  <2>7. Counted(r)'
    <3>1. IssuedInLayer(r) = 1 /\ IssuedInLayer(r)' = 1 /\ op'[r] = op[r]
      BY <1>1, <1>2, <1>7, <2>1 DEF IssuedInLayer
    <3> QED BY <1>1, <1>2, <1>7, <2>1, <3>1, CountedInLayer DEF RankInv
  <2>8. Stored(r)'
    BY <1>1, <1>2, <1>7, <2>1, StoredInLayer DEF RankInv
  <2> QED BY <1>5, <2>1, <2>2, <2>4, <2>5, <2>6, <2>7, <2>8 DEF RankInv
<1> QED BY <1>4, <1>6, <1>7

\* After the attention the layer is done.
LEMMA AttendKeeps ==
  ASSUME IInv, NEW r \in Ranks, Attend(r)
  PROVE  TypeOK' /\ Heard' /\ RankInv(r)'
<1>1. /\ TypeOK /\ Heard /\ RankInv(r) /\ plan' = plan /\ batch' = batch
      /\ cache' = cache /\ local' = local /\ gathered' = gathered
      /\ selected' = selected /\ op' = op /\ call' = call /\ got' = got
  BY DEF IInv, Attend
<1>2. pc[r] = "attend" /\ NextLayer(r) /\ Gathers(Current(r))
  BY <1>1 DEF Attend, RankInv, OnPath
<1>3. IssuedInLayer(r) = CallsPerLayer(Current(r))
  BY <1>2 DEF IssuedInLayer, CallsPerLayer
<1>4. /\ layer' \in [Ranks -> LayerIds] /\ pc' \in [Ranks -> Steps]
      /\ \A s \in Ranks : s # r => pc'[s] = pc[s]
      /\ RankInv(r)'
  BY <1>1, <1>2, <1>3, NextLayerKeeps
<1>5. TypeOK'
  BY <1>1, <1>4 DEF TypeOK
<1>6. Heard'
  <2>1. \A s \in Ranks : InCall(s) => InCall(s)'
    BY <1>2, <1>4 DEF InCall
  <2> QED BY <1>1, <2>1, HeardStays
<1> QED BY <1>4, <1>5, <1>6

\* The stock path's second collective.
LEMMA AttendPartialKeeps ==
  ASSUME IInv, NEW r \in Ranks, AttendPartial(r)
  PROVE  TypeOK' /\ Heard' /\ RankInv(r)'
<1> DEFINE new == [kind |-> "merge", size |-> 0]
<1>1. /\ TypeOK /\ Heard /\ RankInv(r) /\ plan' = plan /\ batch' = batch
      /\ layer' = layer /\ cache' = cache
      /\ op' = [op EXCEPT ![r] = @ + 1] /\ got' = [got EXCEPT ![r] = {}]
      /\ pc' = [pc EXCEPT ![r] = "collective"]
      /\ call' = [call EXCEPT ![r] = new]
  BY DEF IInv, AttendPartial
<1>2. /\ pc[r] = "partial" /\ pc'[r] = "collective" /\ ~ InCall(r)
      /\ call'[r] = new
  BY <1>1 DEF AttendPartial, InCall, TypeOK
<1>3. /\ Current(r)' = Current(r) /\ batch[r] # 0 /\ ~ Gathers(Current(r))
  BY <1>1, <1>2, InPlace DEF RankInv, OnPath
<1>4. TypeOK'
  <2>1. pc' \in [Ranks -> Steps] /\ op' \in [Ranks -> Nat]
    BY <1>1 DEF TypeOK, Steps
  <2>2. got' \in [Ranks -> SUBSET Ranks]
    BY <1>1 DEF TypeOK
  <2>3. new \in [kind : Kinds, size : 0 .. LocalCapacity]
    BY CapacityType DEF Kinds
  <2>4. call' \in [Ranks -> [kind : Kinds, size : 0 .. LocalCapacity]]
    <3> HIDE DEF new
    <3> QED BY <1>1, <2>3 DEF TypeOK
  <2> QED BY <1>1, <2>1, <2>2, <2>4 DEF TypeOK, AttendPartial
<1>5. Heard'
  BY <1>1, HeardOnIssue
<1>6. OnPath(r)'
  BY <1>1, <1>2, <1>3 DEF OnPath, CallsOf
<1>7. OwnPart(r)' /\ Arrived(r)' /\ Remapped(r)'
  BY <1>2 DEF OwnPart, Arrived, Remapped, Gathering, InCall
<1>8. Counted(r)'
  <2>1. op'[r] = op[r] + 1 /\ IssuedInLayer(r) = 1 /\ IssuedInLayer(r)' = 2
    BY <1>1, <1>2 DEF IssuedInLayer, TypeOK
  <2> QED BY <1>1, <1>2, <2>1, CountedInLayer DEF RankInv
<1>9. Stored(r)'
  BY <1>1, <1>2, StoredInLayer DEF RankInv
<1> QED BY <1>4, <1>5, <1>6, <1>7, <1>8, <1>9 DEF RankInv

\* A step of a rank keeps the invariant.
LEMMA RankStepIInv ==
  ASSUME IInv, NEW r \in Ranks, RankStep(r)
  PROVE  IInv'
<1>1. TypeOK' /\ Heard' /\ RankInv(r)' /\ plan' = plan
  <2>1. CASE TakeBatch(r)
    BY <2>1, TakeBatchKeeps DEF TakeBatch
  <2>2. CASE WriteCache(r)
    BY <2>2, WriteCacheKeeps DEF WriteCache
  <2>3. CASE Remap(r)
    BY <2>3, RemapKeeps DEF Remap
  <2>4. CASE GatherLocal(r)
    BY <2>4, GatherLocalKeeps DEF GatherLocal
  <2>5. CASE AllGather(r)
    BY <2>5, AllGatherKeeps DEF AllGather
  <2>6. CASE LeaveCall(r)
    BY <2>6, LeaveCallKeeps DEF LeaveCall
  <2>7. CASE Attend(r)
    BY <2>7, AttendKeeps DEF Attend
  <2>8. CASE AttendPartial(r)
    BY <2>8, AttendPartialKeeps DEF AttendPartial
  <2> QED BY <2>1, <2>2, <2>3, <2>4, <2>5, <2>6, <2>7, <2>8 DEF RankStep
<1>2. ASSUME NEW s \in Ranks PROVE RankInv(s)'
  <2>1. CASE s # r
    BY <2>1, StepOfOne, KeptKeeps DEF IInv
  <2> QED BY <1>1, <2>1
<1>3. Continues'
  BY <1>1, PlanKept DEF IInv
<1> QED BY <1>1, <1>2, <1>3 DEF IInv
\* What a rank receives in a gather is the part of a rank that waits in it too.
LEMMA TransferFills ==
  ASSUME IInv, NEW src \in Ranks, NEW dst \in Ranks, Transfer(src, dst),
         call[dst].kind = "ckv"
  PROVE  /\ gathered' \in
              [Ranks -> [0 .. DcpSize * LocalCapacity - 1 -> Records \cup {Blank}]]
         /\ \A k \in Wanted(Current(dst)) : Owner(k[2]) \in got[dst] \cup {src} =>
              gathered'[dst][Slot(Current(dst), dst, k[1], k[2])]
                = <<layer[dst], k[1], k[2]>>
<1> DEFINE b == Current(dst)
           size == call[src].size
           room == 0 .. DcpSize * LocalCapacity - 1
           arena == [i \in room |-> IF i \div size = src THEN local[src][i % size]
                                    ELSE gathered[dst][i]]
<1>1. /\ TypeOK /\ Heard /\ RankInv(src) /\ RankInv(dst)
      /\ InCall(dst) /\ op[src] = op[dst] /\ src \notin got[dst]
      /\ call[src] = call[dst]
  BY DEF IInv, Transfer
<1>2. gathered' = [gathered EXCEPT ![dst] = arena]
  <2>1. DOMAIN gathered[dst] = room
    BY <1>1 DEF TypeOK
  <2> QED BY <1>1, <2>1 DEF Transfer
<1>3. InCall(src)
  <2>1. IssuedBefore(batch[dst]) < op[dst] /\ batch[dst] \in Nat \ {0}
    BY <1>1, InCallPlace DEF RankInv
  <2>2. IssuedBefore(batch[dst]) \in Nat /\ op[dst] \in Nat
    BY <1>1, <2>1, IssuedNext DEF TypeOK
  <2>3. op[src] # 0 /\ ~ (op[dst] > op[src])
    BY <1>1, <2>1, <2>2
  <2> QED BY <1>1, <2>3 DEF Heard
<1>4. batch[src] = batch[dst] /\ layer[src] = layer[dst] /\ Current(src) = b
  BY <1>1, <1>3, SamePlace DEF RankInv, Current
<1>5. /\ b \in Batches /\ Gathers(b) /\ size = Padded(b)
  <2>1. b \in Batches /\ call[dst] \in CallsOf(b)
    BY <1>1, InCallPlace DEF RankInv
  <2>2. Gathers(b) /\ call[dst] = [kind |-> "ckv", size |-> Padded(b)]
    BY <2>1 DEF CallsOf
  <2> QED BY <1>1, <2>1, <2>2
<1>6. /\ size \in Nat \ {0} /\ size <= LocalCapacity /\ LocalCapacity \in Nat
      /\ DcpSize \in Nat \ {0}
  <2>1. Padded(b) \in Nat /\ Padded(b) # 0 /\ Padded(b) <= LocalCapacity
    BY <1>5, RankZero, SizesAreCommon, EligibleIsCommon
  <2> HIDE DEF b, size
  <2> QED BY <1>5, <2>1, CapacityType, SizesAssumption
<1>7. arena \in [room -> Records \cup {Blank}]
  <2>1. ASSUME NEW i \in room
        PROVE  arena[i] = (IF i \div size = src THEN local[src][i % size]
                           ELSE gathered[dst][i])
               /\ i % size \in 0 .. LocalCapacity - 1
    <3>1. i \in Nat
      OBVIOUS
    <3> HIDE DEF size
    <3>2. i % size \in 0 .. size - 1
      BY <1>6, <3>1, DivMod
    <3>3. i % size \in 0 .. LocalCapacity - 1
      BY <1>6, <3>2
    <3> QED BY <3>3
  <2>2. /\ local[src] \in [0 .. LocalCapacity - 1 -> Records \cup {Blank}]
        /\ gathered[dst] \in [room -> Records \cup {Blank}]
    BY <1>1 DEF TypeOK
  <2>3. ASSUME NEW i \in room PROVE arena[i] \in Records \cup {Blank}
    <3> HIDE DEF size, arena, room
    <3> QED BY <2>1, <2>2
  <2> HIDE DEF size, room
  <2> QED BY <2>3
<1>8. gathered'[dst] = arena
  BY <1>1, <1>2 DEF TypeOK
<1>9. ASSUME NEW k \in Wanted(b), Owner(k[2]) \in got[dst] \cup {src}
      PROVE  arena[Slot(b, dst, k[1], k[2])] = <<layer[dst], k[1], k[2]>>
  <2> DEFINE slot == Slot(b, dst, k[1], k[2])
  <2>1. slot \div size = Owner(k[2]) /\ slot % size = Place(b, k)
    BY <1>5, WantedSlot
  <2>2. slot \in room
    BY <1>5, SlotInArena
  <2>3. CASE Owner(k[2]) = src
    <3>1. arena[slot] = local[src][Place(b, k)]
      BY <2>1, <2>2, <2>3
    <3>2. Gathering(src)
      BY <1>1, <1>3 DEF Gathering
    <3>3. local[src][Place(b, k)] = <<layer[src], k[1], k[2]>>
      BY <1>1, <1>4, <2>3, <3>2 DEF RankInv, OwnPart
    <3> HIDE DEF arena
    <3> QED BY <1>4, <3>1, <3>3
  <2>4. CASE Owner(k[2]) # src
    <3>1. arena[slot] = gathered[dst][slot]
      BY <2>1, <2>2, <2>4
    <3>2. Gathering(dst)
      BY <1>1 DEF Gathering
    <3>3. gathered[dst][slot] = <<layer[dst], k[1], k[2]>>
      BY <1>1, <1>9, <2>4, <3>2 DEF RankInv, Arrived
    <3> HIDE DEF arena
    <3> QED BY <3>1, <3>3
  <2> QED BY <2>3, <2>4
<1>10. gathered' \in [Ranks -> [room -> Records \cup {Blank}]]
  <2> HIDE DEF arena, room
  <2> QED BY <1>1, <1>2, <1>7 DEF TypeOK, room
<1> HIDE DEF arena
<1> QED BY <1>8, <1>9, <1>10

\* A transfer keeps the invariant.
LEMMA TransferIInv ==
  ASSUME IInv, NEW src \in Ranks, NEW dst \in Ranks, Transfer(src, dst)
  PROVE  IInv'
<1>1. /\ TypeOK /\ Heard /\ RankInv(dst) /\ plan' = plan /\ batch' = batch
      /\ layer' = layer /\ pc' = pc /\ cache' = cache /\ local' = local
      /\ selected' = selected /\ op' = op /\ call' = call
      /\ got' = [got EXCEPT ![dst] = @ \cup {src}]
      /\ pc[dst] = "collective"
  BY DEF IInv, Transfer, InCall
<1>2. got'[dst] = got[dst] \cup {src} /\ got' \in [Ranks -> SUBSET Ranks]
      /\ \A s \in Ranks : got[s] \subseteq got'[s]
  BY <1>1 DEF TypeOK
<1>3. TypeOK'
  <2>1. gathered' \in
          [Ranks -> [0 .. DcpSize * LocalCapacity - 1 -> Records \cup {Blank}]]
    <3>1. CASE call[dst].kind = "ckv"
      BY <3>1, TransferFills
    <3>2. CASE call[dst].kind # "ckv"
      BY <1>1, <3>2 DEF Transfer, TypeOK
    <3> QED BY <3>1, <3>2
  <2> QED BY <1>1, <1>2, <2>1 DEF TypeOK
<1>4. Heard'
  <2>1. \A s \in Ranks : InCall(s) => InCall(s)'
    BY <1>1 DEF InCall
  <2> QED BY <1>1, <1>2, <2>1, HeardStays
<1>5. /\ Current(dst)' = Current(dst)
      /\ InCall(dst)' = InCall(dst)
      /\ Gathering(dst)' = Gathering(dst)
      /\ IssuedInLayer(dst)' = IssuedInLayer(dst)
      /\ \A n : IssuedBefore(n)' = IssuedBefore(n)
      /\ \A n, q : LenAfter(n, q)' = LenAfter(n, q)
  BY <1>1 DEF Current, InCall, Gathering, IssuedInLayer, IssuedBefore, LenAfter
<1>6. RankInv(dst)'
  <2>1. OnPath(dst)'
    BY <1>1, <1>5 DEF RankInv, OnPath
  <2>2. Counted(dst)'
    BY <1>1, <1>5 DEF RankInv, Counted
  <2>3. Stored(dst)'
    BY <1>1, <1>5 DEF RankInv, Stored, Known
  <2>4. OwnPart(dst)' /\ Remapped(dst)'
    BY <1>1, <1>5 DEF RankInv, OwnPart, Remapped
  <2>5. Arrived(dst)'
    <3>1. CASE call[dst].kind = "ckv"
      <4>1. \A k \in Wanted(Current(dst)) : Owner(k[2]) \in got'[dst] =>
              gathered'[dst][Slot(Current(dst), dst, k[1], k[2])]
                = <<layer'[dst], k[1], k[2]>>
        <5>1. \A k \in Wanted(Current(dst)) : Owner(k[2]) \in got[dst] \cup {src} =>
                gathered'[dst][Slot(Current(dst), dst, k[1], k[2])]
                  = <<layer[dst], k[1], k[2]>>
          BY <3>1, TransferFills
        <5>2. layer'[dst] = layer[dst] /\ got'[dst] = got[dst] \cup {src}
          BY <1>1, <1>2
        <5> QED BY <5>1, <5>2
      <4> QED BY <1>5, <4>1 DEF Arrived
    <3>2. CASE call[dst].kind # "ckv"
      BY <1>1, <3>2 DEF Arrived, Gathering, InCall
    <3> QED BY <3>1, <3>2
  <2> QED BY <2>1, <2>2, <2>3, <2>4, <2>5 DEF RankInv
<1>7. ASSUME NEW s \in Ranks PROVE RankInv(s)'
  <2>1. CASE s # dst
    BY <1>1, <2>1, TransferOfOne, KeptKeeps DEF IInv
  <2> QED BY <1>6, <2>1
<1>8. Continues'
  BY <1>1, PlanKept DEF IInv
<1> QED BY <1>3, <1>4, <1>7, <1>8 DEF IInv

\* Every step keeps the invariant.
LEMMA StepIInv == IInv /\ [Next]_vars => IInv'
<1> SUFFICES ASSUME IInv, [Next]_vars PROVE IInv'
  OBVIOUS
<1>1. CASE Schedule
  BY <1>1, ScheduleIInv
<1>2. ASSUME NEW r \in Ranks, RankStep(r) PROVE IInv'
  BY <1>2, RankStepIInv
<1>3. ASSUME NEW src \in Ranks, NEW dst \in Ranks, Transfer(src, dst) PROVE IInv'
  BY <1>3, TransferIInv
<1>4. CASE UNCHANGED vars
  <2>1. \A s \in Ranks : Kept(s) /\ plan' = plan
    BY <1>4 DEF vars, Kept
  <2>2. \A s \in Ranks : RankInv(s)'
    BY <1>4, <2>1, KeptKeeps DEF IInv, vars
  <2>3. TypeOK'
    BY <1>4 DEF IInv, vars, TypeOK
  <2>4. Continues' /\ Heard'
    BY <1>4, PlanKept DEF IInv, vars, Heard, InCall
  <2> QED BY <2>2, <2>3, <2>4 DEF IInv
<1> QED BY <1>1, <1>2, <1>3, <1>4 DEF Next

\* Every reachable state satisfies the invariant.
LEMMA Inductive == Spec => []IInv
  BY InitIInv, StepIInv, PTL DEF Spec

-----------------------------------------------------------------------------
(***************************************************************************)
(* What follows from it.                                                   *)
(***************************************************************************)

\* Type correctness: no record is read or written outside the cache, the part
\* or the arena, whatever the batches and in whatever order the ranks run.
THEOREM GatherTypes == Spec => []TypeOK
<1>1. IInv => TypeOK
  BY DEF IInv
<1> QED BY <1>1, Inductive, PTL

\* Ranks that wait in collectives with the same number wait in the same one,
\* of the same size, although each chose its path and its padding by itself.
THEOREM CollectivesMatch == Spec => []CallsMatch
<1>1. IInv => CallsMatch
  BY SamePlace DEF IInv, RankInv, CallsMatch
<1> QED BY <1>1, Inductive, PTL

\* The attention kernel of the gather path reads the records of its own layer,
\* for exactly the tokens of its batch, in every interleaving of the ranks.
THEOREM LayersAttendOwn == Spec => []AttendsOwnRecords
<1>1. ASSUME IInv PROVE AttendsOwnRecords
  <2> SUFFICES ASSUME NEW r \in Ranks, pc[r] = "attend"
               PROVE  {gathered[r][i] : i \in selected[r]}
                        = {<<layer[r], k[1], k[2]>> : k \in Wanted(Current(r))}
    BY DEF AttendsOwnRecords
  <2> DEFINE W == Wanted(Current(r))
             slot(k) == Slot(Current(r), r, k[1], k[2])
  <2>1. OnPath(r) /\ Arrived(r) /\ Remapped(r)
    BY <1>1 DEF IInv, RankInv
  <2>2. selected[r] = {slot(k) : k \in W}
    BY <2>1 DEF Remapped
  <2>3. ASSUME NEW k \in W PROVE gathered[r][slot(k)] = <<layer[r], k[1], k[2]>>
    <3>1. Owner(k[2]) \in got[r]
      <4>1. k[2] \in Nat /\ got[r] = Ranks
        BY <2>1 DEF Wanted, Tokens, OnPath
      <4> QED BY <4>1, TokenRoundTrip
    <3> QED BY <2>1, <3>1 DEF Arrived
  <2> HIDE DEF W, slot
  <2>4. {gathered[r][i] : i \in {slot(k) : k \in W}} = {gathered[r][slot(k)] : k \in W}
    OBVIOUS
  <2>5. {gathered[r][slot(k)] : k \in W} = {<<layer[r], k[1], k[2]>> : k \in W}
    BY <2>3
  <2> QED BY <2>2, <2>4, <2>5 DEF W
<1> QED BY <1>1, Inductive, PTL
=============================================================================
