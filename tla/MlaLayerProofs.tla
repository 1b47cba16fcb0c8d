--------------------------- MODULE MlaLayerProofs ---------------------------
(***************************************************************************)
(* Proofs about a call of an MLA attention layer, for every group, batch   *)
(* and configuration.                                                      *)
(***************************************************************************)
EXTENDS MlaLayer, FiniteSetTheorems, SequenceTheorems, WellFoundedInduction,
        TLAPS

-----------------------------------------------------------------------------
(***************************************************************************)
(* Numbers.                                                                *)
(***************************************************************************)

\* Quotient and remainder are the only such pair.
LEMMA DivMod ==
  ASSUME NEW a \in Nat, NEW b \in Nat \ {0}
  PROVE  /\ a \div b \in Nat /\ a % b \in 0 .. b - 1
         /\ a = b * (a \div b) + (a % b)
  OBVIOUS

\* A quotient and its remainder are the only ones.
LEMMA DivUnique ==
  ASSUME NEW b \in Nat \ {0}, NEW q \in Nat, NEW r \in 0 .. b - 1
  PROVE  (b * q + r) \div b = q /\ (b * q + r) % b = r
  OBVIOUS

\* Multiplication is monotone.
LEMMA MulMono ==
  ASSUME NEW a \in Nat, NEW b \in Nat, NEW c \in Nat, a <= b
  PROVE  c * a <= c * b
  OBVIOUS

LEMMA MulStep ==
  ASSUME NEW a \in Nat, NEW b \in Nat, NEW c \in Nat, a < b
  PROVE  c * a + c <= c * b
<1>1. c * (a + 1) <= c * b
  BY MulMono, a + 1 <= b, a + 1 \in Nat
<1>2. c * (a + 1) = c * a + c
  OBVIOUS
<1> QED BY <1>1, <1>2

\* A set of numbers with 0 that is closed under successor has every number.
LEMMA SetInduction ==
  ASSUME NEW N, N \subseteq Nat, 0 \in N, \A n \in N : n + 1 \in N
  PROVE  N = Nat
<1> DEFINE R == OpToRel(<, Nat)
<1>1. IsWellFoundedOn(R, Nat)
  BY NatLessThanWellFounded
<1>2. ASSUME NEW x \in Nat, NEW y \in Nat, y < x PROVE <<y, x>> \in R
  BY <1>2 DEF OpToRel
<1> HIDE DEF R
<1>3. SUFFICES ASSUME Nat \ N # {} PROVE FALSE
  OBVIOUS
<1>4. PICK x \in Nat \ N : \A y \in Nat \ N : ~ (<<y, x>> \in R)
  BY <1>1, <1>3, WFMin
<1>5. x # 0 /\ x - 1 \in Nat /\ x - 1 < x /\ x = (x - 1) + 1
  BY <1>4
<1>6. x - 1 \in N
  BY <1>2, <1>4, <1>5
<1> QED BY <1>4, <1>5, <1>6

\* A set of numbers below a bound has a largest one.
LEMMA LargestIs ==
  ASSUME NEW S, S \subseteq Nat, S # {}, NEW m \in Nat, \A x \in S : x <= m
  PROVE  Max(S) \in S /\ \A x \in S : x <= Max(S)
<1> DEFINE N == {n \in Nat : \A U \in SUBSET Nat :
                   U # {} /\ (\A x \in U : x <= n) => \E y \in U : \A x \in U : x <= y}
<1>1. 0 \in N
  <2> SUFFICES ASSUME NEW U \in SUBSET Nat, U # {}, \A x \in U : x <= 0
               PROVE  \E y \in U : \A x \in U : x <= y
    OBVIOUS
  <2>1. PICK y \in U : TRUE
    OBVIOUS
  <2>2. \A x \in U : x <= y
    BY <2>1
  <2> QED BY <2>2
<1>2. ASSUME NEW n \in N PROVE n + 1 \in N
  <2> SUFFICES ASSUME NEW U \in SUBSET Nat, U # {}, \A x \in U : x <= n + 1
               PROVE  \E y \in U : \A x \in U : x <= y
    BY <1>2
  <2>1. CASE n + 1 \in U
    BY <2>1
  <2>2. CASE n + 1 \notin U
    <3>1. \A x \in U : x <= n
      BY <1>2, <2>2
    <3> QED BY <1>2, <3>1
  <2> QED BY <2>1, <2>2
<1>3. N = Nat
  BY <1>1, <1>2, SetInduction
<1>4. \E y \in S : \A x \in S : x <= y
  BY <1>3
<1>5. \E y \in S : \A x \in S : y >= x
  BY <1>4
<1>6. Max(S) \in S /\ \A x \in S : Max(S) >= x
  BY <1>5 DEF Max
<1> QED BY <1>6

LEMMA SmallerOf ==
  ASSUME NEW a \in Int, NEW b \in Int
  PROVE  Min({a, b}) = IF a <= b THEN a ELSE b
  BY DEF Min

LEMMA LargerOf ==
  ASSUME NEW a \in Int, NEW b \in Int
  PROVE  Max({a, b}) = IF a >= b THEN a ELSE b
  BY DEF Max

\* Rounding up covers, with less than one unit to spare.
LEMMA CdivCovers ==
  ASSUME NEW x \in Nat, NEW y \in Nat \ {0}
  PROVE  /\ Cdiv(x, y) \in Nat /\ x <= y * Cdiv(x, y)
         /\ y * Cdiv(x, y) <= x + y - 1
<1> DEFINE a == x + y - 1
           q == a \div y
<1>1. a \in Nat
  OBVIOUS
<1>2. q \in Nat /\ a % y \in 0 .. y - 1 /\ a = y * q + (a % y)
  BY <1>1, DivMod
<1>3. Cdiv(x, y) = q
  BY DEF Cdiv
<1>4. y * q \in Nat
  BY <1>2
<1> HIDE DEF q
<1> QED BY <1>2, <1>3, <1>4

-----------------------------------------------------------------------------
(***************************************************************************)
(* The sum over a group of marks one rank alone has set.                   *)
(***************************************************************************)
Pick(s) == CHOOSE x \in s : TRUE

LEMMA SmallerSet ==
  ASSUME NEW s, IsFiniteSet(s), NEW x \in s, NEW n \in Nat, Cardinality(s) <= n + 1
  PROVE  IsFiniteSet(s \ {x}) /\ Cardinality(s \ {x}) <= n
<1>1. /\ IsFiniteSet(s \ {x}) /\ Cardinality(s \ {x}) = Cardinality(s) - 1
      /\ Cardinality(s) \in Nat
  BY FS_RemoveElement, FS_CardinalityType
<1> QED BY <1>1

Marks(parts, k, S) == MapThenSumSet(LAMBDA s : parts[s].seen[k], S)

LEMMA OneMark ==
  ASSUME NEW S, IsFiniteSet(S), NEW parts, NEW k \in S,
         \A s \in S : parts[s].seen[k] = IF s = k THEN 1 ELSE 0
  PROVE  Marks(parts, k, S) = 1
<1> DEFINE Rec(h) == h = [s \in SUBSET S |->
                 IF s = {} THEN 0 ELSE parts[Pick(s)].seen[k] + h[s \ {Pick(s)}]]
           g == [s \in SUBSET S |-> IF k \in s THEN 1 ELSE 0]
<1>1. Marks(parts, k, S) = (CHOOSE h : Rec(h))[S]
  BY DEF Marks, MapThenSumSet, MapThenFoldSet, Pick
<1>2. ASSUME NEW s \in SUBSET S, s # {}
      PROVE  Pick(s) \in s /\ parts[Pick(s)].seen[k] = IF Pick(s) = k THEN 1 ELSE 0
  BY <1>2 DEF Pick
<1>3. Rec(g)
  <2>1. ASSUME NEW s \in SUBSET S, s # {}
        PROVE  g[s] = parts[Pick(s)].seen[k] + g[s \ {Pick(s)}]
    BY <1>2, <2>1
  <2>2. ASSUME NEW s \in SUBSET S, s = {}
        PROVE  g[s] = 0
    BY <2>2
  <2> QED BY <2>1, <2>2
<1>4. PICK h : h = (CHOOSE x : Rec(x))
  OBVIOUS
<1>5. Rec(h)
  BY <1>3, <1>4
<1>6. /\ h[{}] = 0
      /\ \A s \in SUBSET S : s # {} => h[s] = parts[Pick(s)].seen[k] + h[s \ {Pick(s)}]
  BY <1>5
<1> DEFINE N == {n \in Nat : \A s \in SUBSET S :
                    Cardinality(s) <= n => h[s] = IF k \in s THEN 1 ELSE 0}
<1> HIDE DEF Rec, g
<1>7. 0 \in N
  <2> SUFFICES ASSUME NEW s \in SUBSET S, Cardinality(s) <= 0
               PROVE  h[s] = IF k \in s THEN 1 ELSE 0
    OBVIOUS
  <2>1. s = {}
    BY FS_EmptySet, FS_Subset, FS_CardinalityType
  <2> QED BY <1>6, <2>1
<1>8. ASSUME NEW n \in N PROVE n + 1 \in N
  <2> SUFFICES ASSUME NEW s \in SUBSET S, Cardinality(s) <= n + 1
               PROVE  h[s] = IF k \in s THEN 1 ELSE 0
    BY <1>8
  <2>1. CASE s = {}
    BY <1>6, <2>1
  <2>2. CASE s # {}
    <3>1. IsFiniteSet(s) /\ Pick(s) \in s
      BY <1>2, <2>2, FS_Subset
    <3>2. Cardinality(s \ {Pick(s)}) <= n
      BY <1>8, <3>1, SmallerSet
    <3>3. h[s \ {Pick(s)}] = IF k \in s \ {Pick(s)} THEN 1 ELSE 0
      BY <1>8, <3>2
    <3>4. h[s] = parts[Pick(s)].seen[k] + h[s \ {Pick(s)}]
      BY <1>6, <2>2
    <3> QED BY <1>2, <2>2, <3>1, <3>3, <3>4
  <2> QED BY <2>1, <2>2
<1>9. N = Nat
  BY <1>7, <1>8, SetInduction
<1>10. Cardinality(S) \in Nat
  BY FS_CardinalityType
<1>11. h[S] = 1
  BY <1>9, <1>10
<1> QED BY <1>1, <1>4, <1>11
-----------------------------------------------------------------------------
(***************************************************************************)
(* The batch, which no step changes.                                       *)
(***************************************************************************)
Batch ==
  /\ dcp \in GroupSizes /\ sparse \in BOOLEAN
  /\ heads \in Nat \ {0} /\ path \in Paths
  /\ decodes \in Seq(1 .. MaxModelLen)
  /\ prefills \in Seq([context : Nat, query : Nat \ {0}])
  /\ \A p \in Prefills : SeqLen(p) <= MaxModelLen
  /\ Len(decodes) + Len(prefills) <= MaxNumSeqs
  /\ NumPrefillTokens \in 0 .. MaxBatched - Len(decodes)

batchAndPath == <<dcp, sparse, decodes, prefills, heads, path>>

LEMMA BatchHolds == Init => Batch
<1> SUFFICES ASSUME Init PROVE Batch
  OBVIOUS
<1>1. PICK case \in Cases :
        /\ dcp = case.dcp /\ sparse = case.sparse
        /\ decodes = case.decodes /\ prefills = case.prefills
        /\ heads = case.heads /\ path = case.path
  BY DEF Init
<1>2. QueryTokens(prefills) = QueryTokens(case.prefills)
  BY <1>1
<1>3. \A p \in Prefills :
        prefills[p].context + prefills[p].query <= MaxModelLen
  BY <1>1, CasesAssumption DEF Prefills
<1> QED BY <1>1, <1>2, <1>3, CasesAssumption DEF Batch, NumPrefillTokens, SeqLen

\* The sizes a batch has.
LEMMA Sizes ==
  ASSUME Batch
  PROVE  /\ dcp \in Nat \ {0} /\ heads \in Nat \ {0}
         /\ T \in Nat /\ T <= MaxBatched
         /\ HeadAlign \in Nat \ {0} /\ MaxBatched \in Nat \ {0}
         /\ ProjectRows \in Nat \ {0}
         /\ InputHeads \in Nat \ {0} /\ heads * dcp = InputHeads
         /\ KernelHeads \in Nat \ {0} /\ InputHeads <= KernelHeads
         /\ heads <= InputHeads
         /\ IsFiniteSet(Group) /\ 0 \in Group
         /\ \A r \in Group : r \in Nat /\ r * heads \in Nat
                             /\ r * heads + heads <= InputHeads
<1>1. dcp \in Nat \ {0} /\ heads \in Nat \ {0}
  BY GeometryAssumption DEF Batch
<1>2. T \in Nat /\ T <= MaxBatched
  <2>1. Len(decodes) \in Nat
    BY DEF Batch
  <2>2. MaxBatched \in Nat
    BY PathsAssumption
  <2>3. NumPrefillTokens \in Nat /\ NumPrefillTokens <= MaxBatched - Len(decodes)
    BY <2>1, <2>2 DEF Batch
  <2> QED BY <2>1, <2>2, <2>3 DEF T, NumMqaTokens
<1>3. /\ HeadAlign \in Nat \ {0} /\ MaxBatched \in Nat \ {0}
      /\ ProjectRows \in Nat \ {0}
  BY PathsAssumption
<1>4. InputHeads \in Nat \ {0} /\ heads * dcp = InputHeads
  BY <1>1 DEF InputHeads
<1>5. KernelHeads \in Nat /\ InputHeads <= KernelHeads
  <2>1. Cdiv(InputHeads, HeadAlign) \in Nat
        /\ InputHeads <= HeadAlign * Cdiv(InputHeads, HeadAlign)
    BY <1>3, <1>4, CdivCovers
  <2>2. KernelHeads = HeadAlign * Cdiv(InputHeads, HeadAlign)
    BY <1>3, <2>1 DEF KernelHeads
  <2> QED BY <1>3, <2>1, <2>2
<1>6. IsFiniteSet(Group) /\ 0 \in Group
  BY <1>1, FS_Interval DEF Group
<1>7. ASSUME NEW r \in Group
      PROVE  r \in Nat /\ r * heads \in Nat /\ r * heads + heads <= InputHeads
  <2>1. r \in Nat /\ r < dcp
    BY <1>1 DEF Group
  <2>2. heads * r + heads <= heads * dcp
    BY <1>1, <2>1, MulStep
  <2>3. heads * r = r * heads /\ heads * r \in Nat
    BY <1>1, <2>1
  <2> QED BY <1>4, <2>1, <2>2, <2>3
<1>8. heads <= InputHeads
  BY <1>1, <1>6, <1>7
<1> QED BY <1>1, <1>2, <1>3, <1>4, <1>5, <1>6, <1>7, <1>8

\* The longest query of a batch is a number.
LEMMA LongestQuery ==
  ASSUME Batch
  PROVE  MaxQueryLen \in Nat \ {0}
<1> DEFINE S == {1} \cup {prefills[p].query : p \in Prefills}
<1>1. \A p \in Prefills : /\ prefills[p].query \in Nat \ {0}
                          /\ prefills[p].context \in Nat
                          /\ prefills[p].query <= MaxModelLen
  <2> TAKE p \in Prefills
  <2>1. prefills[p] \in [context : Nat, query : Nat \ {0}]
    <3>1. prefills \in Seq([context : Nat, query : Nat \ {0}])
      BY DEF Batch
    <3>2. p \in 1 .. Len(prefills)
      BY DEF Prefills
    <3> QED BY <3>1, <3>2, ElementOfSeq
  <2>2. prefills[p].context + prefills[p].query <= MaxModelLen
    BY DEF Batch, SeqLen
  <2>3. MaxModelLen \in Nat
    BY GeometryAssumption
  <2> QED BY <2>1, <2>2, <2>3
<1>2. MaxModelLen \in Nat \ {0}
  BY GeometryAssumption
<1>3. S \subseteq Nat \ {0} /\ S # {} /\ \A x \in S : x <= MaxModelLen
  BY <1>1, <1>2
<1>4. MaxQueryLen = Max(S)
  BY DEF MaxQueryLen
<1> HIDE DEF S
<1>5. Max(S) \in S
  BY <1>2, <1>3, LargestIs
<1> QED BY <1>3, <1>4, <1>5

\* A batch whose records are gathered is not one for the decode kernel.
LEMMA GatherIsPrefill ==
  ASSUME Batch, CkvUsed
  PROVE  ~DecodeKernel /\ dcp > 1
<1>1. MaxQueryLen > MinGather
  BY DEF CkvUsed, GatherPrepared
<1>2. MinGather \in Nat \ {0} /\ SpecMaxQ <= MinGather /\ SpecMaxQ \in Nat
  BY PathsAssumption
<1> QED BY <1>1, <1>2, LongestQuery DEF DecodeKernel, CkvUsed

\* What a batch that takes the workspace is.
LEMMA WorkspaceBatch ==
  ASSUME Batch, WorkspaceGather
  PROVE  ProjectBefore /\ ~CkvUsed /\ dcp > 1
<1>1. ProjectBefore /\ ~CkvUsed /\ dcp > 1
  BY DEF WorkspaceGather, ProjectBefore, OnDemandProjection
<1> QED BY <1>1
-----------------------------------------------------------------------------
(***************************************************************************)
(* What the memory holds at each stage of the absorbed kernels.            *)
(***************************************************************************)
Cell(m, kind, i) ==
  IF m.kind = kind /\ i \in DOMAIN m.cells THEN m.cells[i] ELSE Garbage

\* The rows exchanged so far are in their places, with all heads.
Spread ==
  \A r \in Group : \A row \in Nat : \A h \in AllHeads :
    row < rows =>
      Cell(mem[r]["query"], "query", row * KernelHeads + h) = Query(row, h)

\* The chunk in hand is packed behind them, a rank's own heads only.
Packed ==
  \A r \in Group : \A k, j \in Nat :
    k < ChunkRows /\ j < heads =>
      Cell(mem[r]["query"], "query", PackOffset + k * heads + j)
        = Query(rows + k, r * heads + j)

\* Scratch has the chunk of every rank.
Exchanged ==
  \A r, s \in Group : \A k, j \in Nat :
    k < ChunkRows /\ j < heads =>
      Cell(mem[r]["scratch"], "query", <<s, k, j>>) = Query(rows + k, s * heads + j)

\* The queries a communicator of its own has brought.
Brought ==
  \A r \in Group : \A row \in Rows : \A h \in PlannedHeads(r) :
    Cell(mem[r]["fresh"], "query", <<row, h>>) = Query(row, h)

\* The kernel finds every query where it looks for it.
Loaded ==
  \A r \in Group : \A row \in Rows : \A h \in PlannedHeads(r) :
    Cell(mem[r]["query"], "query", QueryCell(r, row, h)) = Query(row, h)

\* The keys a rank's kernel has seen, and those of the whole group.
Share(r) == [s \in Group |-> IF s = r \/ CkvUsed THEN 1 ELSE 0]
Whole == [s \in Group |-> 1]
Weights(h) == IF ProjectBefore THEN <<h>> ELSE <<>>

Partial ==
  \A r \in Group : \A row \in Rows : \A h \in PlannedHeads(r) :
    Cell(mem[r][at], "result", <<row, h>>) = Result(row, h, Share(r), <<>>)

Mergeable ==
  \A r \in Group : \A row \in Rows : \A h \in AllHeads :
    Cell(mem[r][at], "result", <<row, h>>) = Result(row, h, Share(r), Weights(h))

Merged ==
  \A r \in Group : \A row \in Rows : \A h \in OwnHeads(r) :
    Cell(mem[r][at], "result", <<row, h>>) = Result(row, h, Whole, Weights(h))

Chunked ==
  stage \in {"pack", "swap", "spread"} =>
    /\ WorkspaceGather /\ ChunkCapacity > 0
    /\ rows \in 0 .. T /\ (stage # "pack" => rows < T)
    /\ Spread

InHand ==
  /\ stage = "idle" => rows = 0
  /\ stage = "swap" => Packed
  /\ stage = "spread" => Exchanged
  /\ stage = "load" =>
       \/ at = "query" /\ WorkspaceGather /\ rows = T /\ Spread
       \/ at = "fresh" /\ ~WorkspaceGather /\ Brought
  /\ stage = "attend" => Loaded
  /\ stage = "project" => ProjectBefore /\ dcp > 1 /\ ~CkvUsed /\ Partial
  /\ stage = "merge" => dcp > 1 /\ ~CkvUsed /\ Mergeable
  /\ stage = "finish" => Merged

\* The inductive invariant of the absorbed kernels.
MqaInv == Batch /\ MqaTypeOK /\ Chunked /\ InHand /\ HeadsRight
-----------------------------------------------------------------------------
LEMMA BatchStays ==
  ASSUME UNCHANGED batchAndPath
  PROVE  /\ Batch => Batch'
         /\ Group' = Group /\ T' = T /\ Rows' = Rows
         /\ InputHeads' = InputHeads /\ KernelHeads' = KernelHeads
         /\ AllHeads' = AllHeads /\ ChunkCapacity' = ChunkCapacity
         /\ CkvUsed' <=> CkvUsed
         /\ ProjectBefore' <=> ProjectBefore
         /\ WorkspaceGather' <=> WorkspaceGather
         /\ \A r : OwnHeads(r)' = OwnHeads(r)
<1>1. Group' = Group /\ Prefills' = Prefills
  BY DEF batchAndPath, Group, Prefills
<1>2. NumPrefillTokens' = NumPrefillTokens
  BY DEF batchAndPath, NumPrefillTokens
<1>3. T' = T
  BY <1>2 DEF batchAndPath, T, NumMqaTokens
<1>4. Rows' = Rows
  BY <1>3 DEF Rows
<1>5. InputHeads' = InputHeads
  BY DEF batchAndPath, InputHeads
<1>6. KernelHeads' = KernelHeads
  BY <1>5 DEF KernelHeads
<1>7. AllHeads' = AllHeads
  BY <1>5 DEF AllHeads
<1>8. ChunkCapacity' = ChunkCapacity
  BY <1>5, <1>6 DEF ChunkCapacity, ScratchSize
<1>9. MaxQueryLen' = MaxQueryLen
  BY <1>1 DEF batchAndPath, MaxQueryLen
<1>10. CkvUsed' <=> CkvUsed
  BY <1>3, <1>9 DEF batchAndPath, CkvUsed, GatherPrepared
<1>11. /\ UseA2a' <=> UseA2a
       /\ UseB12x' <=> UseB12x
       /\ OnDemandProjection' <=> OnDemandProjection
  BY <1>3, <1>9 DEF batchAndPath, UseA2a, UseB12x, SmallBatch, OnDemandProjection
<1>12. ProjectBefore' <=> ProjectBefore
  BY <1>10, <1>11 DEF ProjectBefore
<1>13. WorkspaceGather' <=> WorkspaceGather
  BY <1>3, <1>11, <1>12 DEF batchAndPath, WorkspaceGather
<1>14. Batch => Batch'
  BY <1>1, <1>2 DEF batchAndPath, Batch, SeqLen
<1>15. \A r : OwnHeads(r)' = OwnHeads(r)
  BY DEF batchAndPath, OwnHeads
<1> QED BY <1>1, <1>3, <1>4, <1>5, <1>6, <1>7, <1>8, <1>10, <1>12, <1>13, <1>14, <1>15

\* What follows for the places of queries and the form of results.
LEMMA PlacesStay ==
  ASSUME UNCHANGED batchAndPath
  PROVE  /\ \A r : PlannedHeads(r)' = PlannedHeads(r) /\ Share(r)' = Share(r)
         /\ \A h : Weights(h)' = Weights(h)
         /\ \A r, row, h : QueryCell(r, row, h)' = QueryCell(r, row, h)
         /\ Whole' = Whole
<1>1. \A r : FirstHead(r)' = FirstHead(r)
  BY BatchStays DEF batchAndPath, FirstHead
<1>2. QueryStride' = QueryStride
  BY BatchStays DEF batchAndPath, QueryStride
<1>3. \A r, row, h : QueryCell(r, row, h)' = QueryCell(r, row, h)
  BY <1>1, <1>2 DEF QueryCell
<1>4. \A r : PlannedHeads(r)' = PlannedHeads(r)
  BY BatchStays DEF PlannedHeads
<1>5. (\A r : Share(r)' = Share(r)) /\ Whole' = Whole
  BY BatchStays DEF Share, Whole
<1>6. \A h : Weights(h)' = Weights(h)
  BY BatchStays DEF Weights
<1> QED BY <1>3, <1>4, <1>5, <1>6

\* What a region holds after it was written, and that the others stay.
LEMMA PutWrites ==
  ASSUME MqaTypeOK, NEW region \in Regions, NEW content, Put(region, content)
  PROVE  /\ DOMAIN mem' = Group
         /\ \A r \in Group :
              /\ DOMAIN mem'[r] = Regions
              /\ mem'[r][region] = content[r]
              /\ \A g \in Regions : g # region => mem'[r][g] = mem[r][g]
  BY DEF MqaTypeOK, Put

LEMMA CellIs ==
  ASSUME NEW kind, NEW cells, NEW i \in DOMAIN cells,
         NEW m, m = [kind |-> kind, cells |-> cells]
  PROVE  Cell(m, kind, i) = cells[i]
  BY DEF Cell

LEMMA ReadIs ==
  ASSUME NEW r, NEW region, NEW kind, NEW i
  PROVE  Read(r, region, kind, i) = Cell(mem[r][region], kind, i)
  BY DEF Read, Cell

LEMMA RegionNames ==
  /\ "query" \in Regions /\ "dense" \in Regions
  /\ "scratch" \in Regions /\ "fresh" \in Regions
  BY DEF Regions

\* The queries of the batch go to every rank that plans for them.
LEMMA ShareQueryStep ==
  ASSUME MqaInv, UNCHANGED batchAndPath, ShareQuery
  PROVE  MqaInv'
<1> DEFINE brought(r) == IF dcp = 1 \/ CkvUsed THEN OwnHeads(r) ELSE AllHeads
           copy(r) == [i \in Rows \X brought(r) |-> Query(i[1], i[2])]
           content == [r \in Group |-> [kind |-> "query", cells |-> copy(r)]]
<1>1. /\ ~WorkspaceGather /\ rows = 0 /\ rows' = rows
      /\ at' = "fresh" /\ stage' = "load"
      /\ Put("fresh", content) /\ UNCHANGED output
  BY DEF ShareQuery, MqaInv, InHand
<1>2. \A r \in Group : PlannedHeads(r) \subseteq brought(r)
  <2> TAKE r \in Group
  <2>1. CASE dcp = 1 /\ ~CkvUsed
    <3>1. r = 0 /\ heads \in Nat
      BY <2>1, Sizes DEF Group, MqaInv
    <3>2. OwnHeads(r) = AllHeads
      BY <2>1, <3>1 DEF OwnHeads, AllHeads, InputHeads
    <3> QED BY <2>1, <3>2 DEF PlannedHeads
  <2> QED BY <2>1 DEF PlannedHeads
<1> HIDE DEF brought
<1>3. \A r \in Group : mem'[r]["fresh"] = [kind |-> "query", cells |-> copy(r)]
  <2> HIDE DEF copy
  <2> QED BY <1>1, PutWrites, RegionNames DEF MqaInv
<1>4. Brought'
  <2> SUFFICES ASSUME NEW r \in Group, NEW row \in Rows, NEW h \in PlannedHeads(r)
               PROVE  Cell(mem'[r]["fresh"], "query", <<row, h>>) = Query(row, h)
    BY BatchStays, PlacesStay DEF Brought
  <2>1. <<row, h>> \in DOMAIN copy(r) /\ copy(r)[<<row, h>>] = Query(row, h)
    BY <1>2
  <2> HIDE DEF copy
  <2>2. mem'[r]["fresh"] = [kind |-> "query", cells |-> copy(r)]
    BY <1>3
  <2>3. PICK m : m = mem'[r]["fresh"]
    OBVIOUS
  <2>4. PICK f : f = copy(r)
    OBVIOUS
  <2>5. Cell(m, "query", <<row, h>>) = f[<<row, h>>]
    BY <2>1, <2>2, <2>3, <2>4, CellIs
  <2> QED BY <2>1, <2>3, <2>4, <2>5
<1>5. MqaTypeOK'
  <2>1. DOMAIN mem' = Group /\ \A r \in Group : DOMAIN mem'[r] = Regions
    BY <1>1, PutWrites, RegionNames DEF MqaInv
  <2> QED BY <1>1, <2>1, BatchStays DEF MqaInv, MqaTypeOK, batchAndPath, Regions, Stages
<1> QED BY <1>1, <1>4, <1>5, BatchStays DEF MqaInv, Chunked, InHand, HeadsRight

LEMMA BeginWorkspaceStep ==
  ASSUME MqaInv, UNCHANGED batchAndPath, BeginWorkspace
  PROVE  MqaInv'
<1>1. /\ WorkspaceGather /\ rows = 0 /\ UNCHANGED <<mem, at, rows, output>>
      /\ \/ stage' = "pack" /\ ChunkCapacity > 0
         \/ stage' = "failed"
  BY DEF BeginWorkspace, MqaInv, InHand
<1>2. MqaTypeOK'
  BY <1>1, BatchStays DEF MqaInv, MqaTypeOK, batchAndPath, Stages
<1>3. Spread'
  BY <1>1 DEF Spread
<1>4. 0 \in 0 .. T
  BY Sizes DEF MqaInv
<1> QED BY <1>1, <1>2, <1>3, <1>4, BatchStays DEF MqaInv, Chunked, InHand, HeadsRight
-----------------------------------------------------------------------------
(***************************************************************************)
(* The exchange of the queries through scratch, chunk by chunk.            *)
(***************************************************************************)

\* Cells written over others: the new ones are found first.
LEMMA Overlay ==
  ASSUME NEW m, NEW f, NEW n, n = [kind |-> "query", cells |-> Over(f, m.cells)], NEW i
  PROVE  /\ i \in DOMAIN f => Cell(n, "query", i) = f[i]
         /\ i \notin DOMAIN f /\ Cell(m, "query", i) # Garbage
              => Cell(n, "query", i) = Cell(m, "query", i)
<1> DEFINE g == Over(f, m.cells)
<1>1. g = [x \in (DOMAIN f) \cup (DOMAIN m.cells) |->
             IF x \in DOMAIN f THEN f[x] ELSE m.cells[x]]
  BY DEF Over
<1>2. n.kind = "query" /\ n.cells = g
  OBVIOUS
<1> HIDE DEF g
<1>3. i \in DOMAIN f => i \in DOMAIN g /\ g[i] = f[i]
  BY <1>1
<1>4. i \notin DOMAIN f /\ i \in DOMAIN m.cells => i \in DOMAIN g /\ g[i] = m.cells[i]
  BY <1>1
<1> QED BY <1>2, <1>3, <1>4 DEF Cell

LEMMA QueryIsNoGarbage ==
  ASSUME NEW row, NEW h
  PROVE  Query(row, h) # Garbage
<1>1. Query(row, h).kind = "query" /\ Garbage.kind = "garbage"
  BY DEF Query, Garbage
<1> QED BY <1>1

\* A chunk has rows, and no more than are left.
LEMMA ChunkSize ==
  ASSUME Batch, ChunkCapacity > 0, rows \in 0 .. T, rows < T
  PROVE  ChunkRows \in Nat \ {0} /\ rows + ChunkRows <= T
<1>1. T \in Nat /\ rows \in Nat /\ MaxBatched \in Nat
      /\ KernelHeads \in Nat /\ InputHeads \in Nat \ {0}
  BY Sizes
<1>2. ScratchSize \in Nat
  BY <1>1 DEF ScratchSize
<1>3. ChunkCapacity \in Nat
  <2>1. InputHeads * 9 \in Nat \ {0}
    BY <1>1
  <2> QED BY <1>2, <2>1, DivMod DEF ChunkCapacity
<1>4. ChunkRows = IF ChunkCapacity <= T - rows THEN ChunkCapacity ELSE T - rows
  BY <1>1, <1>3, SmallerOf DEF ChunkRows
<1> QED BY <1>1, <1>3, <1>4

\* A row's cells end before the next row begins.
LEMMA RowsApart ==
  ASSUME Batch, NEW a \in Nat, NEW b \in Nat, a < b, NEW h \in AllHeads
  PROVE  /\ a * KernelHeads + h \in Nat
         /\ a * KernelHeads + h < b * KernelHeads
         /\ h \in Nat /\ h < KernelHeads
<1>1. KernelHeads \in Nat /\ InputHeads \in Nat /\ InputHeads <= KernelHeads
  BY Sizes
<1>2. h \in Nat /\ h < KernelHeads
  BY <1>1 DEF AllHeads
<1>3. KernelHeads * a + KernelHeads <= KernelHeads * b
  BY <1>1, MulStep
<1>4. KernelHeads * a = a * KernelHeads /\ KernelHeads * b = b * KernelHeads
      /\ a * KernelHeads \in Nat /\ b * KernelHeads \in Nat
  BY <1>1
<1> QED BY <1>1, <1>2, <1>3, <1>4

LEMMA PackedPlace ==
  ASSUME Batch, NEW n \in Nat, NEW k \in Nat, k < n, NEW j \in Nat, j < heads
  PROVE  /\ k * heads + j \in 0 .. n * heads - 1
         /\ (k * heads + j) \div heads = k /\ (k * heads + j) % heads = j
<1>1. heads \in Nat \ {0}
  BY Sizes
<1>2. heads * k + heads <= heads * n
  BY <1>1, MulStep
<1>3. heads * k = k * heads /\ heads * n = n * heads /\ k * heads \in Nat
      /\ n * heads \in Nat
  BY <1>1
<1>4. j \in 0 .. heads - 1
  BY <1>1
<1>5. (heads * k + j) \div heads = k /\ (heads * k + j) % heads = j
  BY <1>1, <1>4, DivUnique
<1> QED BY <1>1, <1>2, <1>3, <1>5

LEMMA PackChunkStep ==
  ASSUME MqaInv, UNCHANGED batchAndPath, PackChunk
  PROVE  MqaInv'
<1>1. /\ Batch /\ MqaTypeOK /\ WorkspaceGather /\ ChunkCapacity > 0
      /\ rows \in 0 .. T /\ Spread
      /\ rows' = rows /\ output' = output /\ stage = "pack"
  BY DEF PackChunk, MqaInv, Chunked
<1>2. T \in Nat /\ rows \in Nat /\ KernelHeads \in Nat /\ heads \in Nat \ {0}
  BY <1>1, Sizes
<1>3. CASE rows = T
  <2>1. stage' = "load" /\ at' = "query" /\ mem' = mem
    BY <1>3 DEF PackChunk
  <2>2. Spread'
    BY <1>1, <2>1, BatchStays DEF Spread, Query
  <2>3. MqaTypeOK'
    BY <1>1, <2>1, BatchStays DEF MqaTypeOK, batchAndPath, Stages, Regions
  <2> QED BY <1>1, <1>3, <2>1, <2>2, <2>3, BatchStays
          DEF MqaInv, Chunked, InHand, HeadsRight
<1>4. CASE rows # T
  <2> DEFINE packed == [r \in Group |->
               [i \in PackOffset .. PackOffset + ChunkRows * heads - 1 |->
                  Query(rows + (i - PackOffset) \div heads,
                        r * heads + ((i - PackOffset) % heads))]]
             content == [r \in Group |->
               [kind |-> "query", cells |-> Over(packed[r], mem[r]["query"].cells)]]
  <2>1. stage' = "swap" /\ at' = at /\ Put("query", content)
    BY <1>4 DEF PackChunk
  <2>2. rows < T /\ ChunkRows \in Nat \ {0} /\ rows + ChunkRows <= T
    BY <1>1, <1>2, <1>4, ChunkSize
  <2>3. PackOffset \in Nat /\ PackOffset = rows * KernelHeads
    BY <1>2 DEF PackOffset
  <2>4. \A r \in Group : \A k, j \in Nat :
          k < ChunkRows /\ j < heads =>
            /\ PackOffset + k * heads + j \in DOMAIN packed[r]
            /\ packed[r][PackOffset + k * heads + j] = Query(rows + k, r * heads + j)
    <3> SUFFICES ASSUME NEW r \in Group, NEW k \in Nat, NEW j \in Nat,
                        k < ChunkRows, j < heads
                 PROVE  /\ PackOffset + k * heads + j \in DOMAIN packed[r]
                        /\ packed[r][PackOffset + k * heads + j]
                             = Query(rows + k, r * heads + j)
      OBVIOUS
    <3> DEFINE i == PackOffset + k * heads + j
    <3>1. /\ k * heads + j \in 0 .. ChunkRows * heads - 1
          /\ (k * heads + j) \div heads = k /\ (k * heads + j) % heads = j
      BY <1>1, <2>2, PackedPlace
    <3>2. ChunkRows * heads \in Nat /\ k * heads \in Nat
      BY <1>2, <2>2
    <3>3. /\ i \in PackOffset .. PackOffset + ChunkRows * heads - 1
          /\ i - PackOffset = k * heads + j
      BY <2>3, <3>1, <3>2
    <3>4. /\ rows + (i - PackOffset) \div heads = rows + k
          /\ r * heads + ((i - PackOffset) % heads) = r * heads + j
      BY <3>1, <3>3
    <3> HIDE DEF i
    <3>5. i \in DOMAIN packed[r] /\ packed[r][i] = Query(rows + k, r * heads + j)
      BY <3>3, <3>4
    <3> QED BY <3>5 DEF i
  <2>5. \A r \in Group : \A i : i \in DOMAIN packed[r] => i >= PackOffset /\ i \in Int
    BY <1>2, <2>2, <2>3
  <2>6. /\ \A r \in Group : mem'[r]["query"] =
             [kind |-> "query", cells |-> Over(packed[r], mem[r]["query"].cells)]
        /\ DOMAIN mem' = Group /\ \A r \in Group : DOMAIN mem'[r] = Regions
    <3> HIDE DEF packed
    <3> QED BY <1>1, <2>1, PutWrites, RegionNames
  <2> HIDE DEF packed, content
  <2>7. \A r \in Group : \A i :
          /\ i \in DOMAIN packed[r] => Cell(mem'[r]["query"], "query", i) = packed[r][i]
          /\ i \notin DOMAIN packed[r] /\ Cell(mem[r]["query"], "query", i) # Garbage
               => Cell(mem'[r]["query"], "query", i) = Cell(mem[r]["query"], "query", i)
    <3> TAKE r \in Group
    <3> TAKE i
    <3>1. PICK m : m = mem[r]["query"]
      OBVIOUS
    <3>2. PICK n : n = mem'[r]["query"]
      OBVIOUS
    <3>3. n = [kind |-> "query", cells |-> Over(packed[r], m.cells)]
      BY <2>6, <3>1, <3>2
    <3>4. /\ i \in DOMAIN packed[r] => Cell(n, "query", i) = packed[r][i]
          /\ i \notin DOMAIN packed[r] /\ Cell(m, "query", i) # Garbage
               => Cell(n, "query", i) = Cell(m, "query", i)
      BY <3>3, Overlay
    <3> QED BY <3>1, <3>2, <3>4
  <2>8. Spread'
    <3> SUFFICES ASSUME NEW r \in Group, NEW row \in Nat, NEW h \in AllHeads, row < rows
                 PROVE  Cell(mem'[r]["query"], "query", row * KernelHeads + h)
                          = Query(row, h)
      BY <1>1, BatchStays DEF Spread
    <3>1. /\ row * KernelHeads + h \in Nat
          /\ row * KernelHeads + h < PackOffset
      BY <1>1, <1>2, <2>3, RowsApart
    <3>2. row * KernelHeads + h \notin DOMAIN packed[r]
      BY <2>3, <2>5, <3>1
    <3>3. Cell(mem[r]["query"], "query", row * KernelHeads + h) = Query(row, h)
      BY <1>1 DEF Spread
    <3> QED BY <2>7, <3>2, <3>3, QueryIsNoGarbage
  <2>9. ChunkRows' = ChunkRows /\ PackOffset' = PackOffset
    BY <1>1, BatchStays DEF ChunkRows, PackOffset
  <2>10. Packed'
    <3> SUFFICES ASSUME NEW r \in Group, NEW k \in Nat, NEW j \in Nat,
                        k < ChunkRows, j < heads
                 PROVE  Cell(mem'[r]["query"], "query", PackOffset + k * heads + j)
                          = Query(rows + k, r * heads + j)
      BY <1>1, <2>9, BatchStays DEF Packed, batchAndPath
    <3> QED BY <2>4, <2>7
  <2>11. MqaTypeOK'
    BY <1>1, <2>1, <2>6, BatchStays DEF MqaTypeOK, batchAndPath, Stages
  <2> QED BY <1>1, <2>1, <2>2, <2>8, <2>10, <2>11, BatchStays
          DEF MqaInv, Chunked, InHand, HeadsRight
<1> QED BY <1>3, <1>4
LEMMA ExchangeChunkStep ==
  ASSUME MqaInv, UNCHANGED batchAndPath, ExchangeChunk
  PROVE  MqaInv'
<1> DEFINE copy == [i \in Group \X (0 .. ChunkRows - 1) \X (0 .. heads - 1) |->
                      Read(i[1], "query", "query", PackOffset + i[2] * heads + i[3])]
           content == [r \in Group |-> [kind |-> "query", cells |-> copy]]
<1>1. /\ Batch /\ MqaTypeOK /\ WorkspaceGather /\ ChunkCapacity > 0
      /\ rows \in 0 .. T /\ rows < T /\ Spread /\ Packed
      /\ UNCHANGED <<at, rows, output>> /\ stage = "swap" /\ stage' = "spread"
      /\ Put("scratch", content)
  BY DEF ExchangeChunk, MqaInv, Chunked, InHand
<1>2. T \in Nat /\ rows \in Nat /\ heads \in Nat \ {0}
      /\ ChunkRows \in Nat \ {0} /\ rows + ChunkRows <= T
  BY <1>1, Sizes, ChunkSize
<1>3. ASSUME NEW s \in Group, NEW k \in Nat, NEW j \in Nat, k < ChunkRows, j < heads
      PROVE  /\ <<s, k, j>> \in DOMAIN copy
             /\ copy[<<s, k, j>>] = Query(rows + k, s * heads + j)
  <2>1. k \in 0 .. ChunkRows - 1 /\ j \in 0 .. heads - 1
    BY <1>2, <1>3
  <2>2. /\ <<s, k, j>> \in DOMAIN copy
        /\ copy[<<s, k, j>>] = Read(s, "query", "query", PackOffset + k * heads + j)
    BY <2>1
  <2>3. Cell(mem[s]["query"], "query", PackOffset + k * heads + j)
          = Query(rows + k, s * heads + j)
    BY <1>1, <1>3 DEF Packed
  <2>4. Read(s, "query", "query", PackOffset + k * heads + j)
          = Cell(mem[s]["query"], "query", PackOffset + k * heads + j)
    BY ReadIs
  <2> HIDE DEF copy
  <2> QED BY <2>2, <2>3, <2>4
<1> HIDE DEF copy
<1>4. /\ \A r \in Group : mem'[r]["scratch"] = [kind |-> "query", cells |-> copy]
      /\ \A r \in Group : mem'[r]["query"] = mem[r]["query"]
      /\ DOMAIN mem' = Group /\ \A r \in Group : DOMAIN mem'[r] = Regions
  BY <1>1, PutWrites, RegionNames
<1> HIDE DEF content
<1>5. Spread'
  BY <1>1, <1>4, BatchStays DEF Spread
<1>6. ChunkRows' = ChunkRows
  BY <1>1, BatchStays DEF ChunkRows
<1>7. Exchanged'
  <2> SUFFICES ASSUME NEW r \in Group, NEW s \in Group, NEW k \in Nat, NEW j \in Nat,
                      k < ChunkRows, j < heads
               PROVE  Cell(mem'[r]["scratch"], "query", <<s, k, j>>)
                        = Query(rows + k, s * heads + j)
    BY <1>1, <1>6, BatchStays DEF Exchanged, batchAndPath
  <2>1. PICK m : m = mem'[r]["scratch"]
    OBVIOUS
  <2>2. <<s, k, j>> \in DOMAIN copy /\ copy[<<s, k, j>>] = Query(rows + k, s * heads + j)
    BY <1>3
  <2>3. PICK i : i = <<s, k, j>>
    OBVIOUS
  <2>4. Cell(m, "query", i) = copy[i]
    BY <1>4, <2>1, <2>2, <2>3, CellIs
  <2> QED BY <2>1, <2>2, <2>3, <2>4
<1>8. MqaTypeOK'
  BY <1>1, <1>4, BatchStays DEF MqaTypeOK, batchAndPath, Stages
<1> QED BY <1>1, <1>5, <1>7, <1>8, BatchStays
        DEF MqaInv, Chunked, InHand, HeadsRight

\* A row and head, from the place of their cell.
LEMMA SpreadPlace ==
  ASSUME Batch, NEW row \in Nat, NEW h \in AllHeads, NEW i, i = row * KernelHeads + h
  PROVE  /\ i \in Nat
         /\ i % KernelHeads = h /\ i \div KernelHeads = row
         /\ h \div heads \in Group /\ h % heads \in Nat /\ h % heads < heads
         /\ (h \div heads) * heads + (h % heads) = h
<1>1. /\ KernelHeads \in Nat \ {0} /\ heads \in Nat \ {0} /\ dcp \in Nat \ {0}
      /\ InputHeads \in Nat /\ InputHeads <= KernelHeads /\ InputHeads = heads * dcp
  BY Sizes
<1>2. h \in 0 .. KernelHeads - 1 /\ h \in Nat /\ h < InputHeads
  BY <1>1 DEF AllHeads
<1>3. row * KernelHeads = KernelHeads * row /\ KernelHeads * row \in Nat
  BY <1>1
<1>4. i \in Nat /\ i = KernelHeads * row + h
  BY <1>2, <1>3
<1>5. i % KernelHeads = h /\ i \div KernelHeads = row
  BY <1>1, <1>2, <1>4, DivUnique
<1> DEFINE q == h \div heads
<1>6. q \in Nat /\ h % heads \in 0 .. heads - 1 /\ h = heads * q + (h % heads)
  BY <1>1, <1>2, DivMod
<1> HIDE DEF q
<1>7. heads * q \in Nat /\ heads * q = q * heads
  BY <1>1, <1>6
<1>8. q < dcp
  <2> SUFFICES ASSUME dcp <= q PROVE FALSE
    BY <1>1, <1>6
  <2>1. heads * dcp <= heads * q
    BY <1>1, <1>6, MulMono
  <2> QED BY <1>1, <1>2, <1>6, <1>7, <2>1
<1>9. q \in Group
  BY <1>1, <1>6, <1>8 DEF Group
<1> DEFINE j == h % heads
<1>10. q \in Group /\ j \in Nat /\ j < heads /\ q * heads + j = h
  <2> HIDE DEF j
  <2>1. j \in 0 .. heads - 1 /\ h = heads * q + j
    BY <1>6 DEF j
  <2> QED BY <1>1, <1>7, <1>9, <2>1
<1> HIDE DEF j
<1> QED BY <1>4, <1>5, <1>10 DEF q, j

LEMMA SpreadChunkStep ==
  ASSUME MqaInv, UNCHANGED batchAndPath, SpreadChunk
  PROVE  MqaInv'
<1> DEFINE cell(i) == <<(i % KernelHeads) \div heads,
                        i \div KernelHeads - rows,
                        (i % KernelHeads) % heads>>
           target == {i \in rows * KernelHeads .. (rows + ChunkRows) * KernelHeads - 1 :
                        i % KernelHeads < InputHeads}
           moved == [r \in Group |->
                       [i \in target |-> Read(r, "scratch", "query", cell(i))]]
           content == [r \in Group |->
             [kind |-> "query", cells |-> Over(moved[r], mem[r]["query"].cells)]]
<1>1. /\ Batch /\ MqaTypeOK /\ WorkspaceGather /\ ChunkCapacity > 0
      /\ rows \in 0 .. T /\ rows < T /\ Spread /\ Exchanged
      /\ UNCHANGED <<at, output>> /\ rows' = rows + ChunkRows
      /\ stage = "spread" /\ stage' = "pack"
      /\ Put("query", content)
  BY DEF SpreadChunk, MqaInv, Chunked, InHand
<1>2. /\ T \in Nat /\ T <= MaxBatched /\ MaxBatched \in Nat
      /\ rows \in Nat /\ heads \in Nat \ {0} /\ KernelHeads \in Nat \ {0}
      /\ InputHeads \in Nat
      /\ ChunkRows \in Nat \ {0} /\ rows + ChunkRows <= T
  BY <1>1, Sizes, ChunkSize
<1>3. ASSUME NEW r \in Group, NEW row \in Nat, NEW h \in AllHeads, NEW i,
             i = row * KernelHeads + h, rows <= row, row < rows + ChunkRows
      PROVE  i \in DOMAIN moved[r] /\ moved[r][i] = Query(row, h)
  <2>1. /\ i \in Nat /\ i % KernelHeads = h /\ i \div KernelHeads = row
        /\ h \div heads \in Group /\ h % heads \in Nat /\ h % heads < heads
        /\ (h \div heads) * heads + (h % heads) = h
    <3> HIDE DEF moved, target, cell, content
    <3> QED BY <1>1, <1>3, SpreadPlace
  <2>2. i < (rows + ChunkRows) * KernelHeads
    <3> HIDE DEF moved, target, cell, content
    <3>1. rows + ChunkRows \in Nat
      BY <1>2
    <3> QED BY <1>1, <1>3, <3>1, RowsApart
  <2>3. rows * KernelHeads <= i
    <3>1. KernelHeads * rows <= KernelHeads * row
      BY <1>2, <1>3, MulMono
    <3>2. /\ KernelHeads * rows = rows * KernelHeads
          /\ KernelHeads * row = row * KernelHeads
          /\ rows * KernelHeads \in Nat /\ row * KernelHeads \in Nat /\ h \in Nat
      BY <1>2 DEF AllHeads
    <3> QED BY <1>3, <3>1, <3>2
  <2>4. h < InputHeads
    BY <1>2 DEF AllHeads
  <2>5. i \in target
    <3>1. rows * KernelHeads \in Int /\ (rows + ChunkRows) * KernelHeads \in Int
      BY <1>2
    <3> QED BY <2>1, <2>2, <2>3, <2>4, <3>1
  <2>6. cell(i) = <<h \div heads, row - rows, h % heads>>
    BY <2>1
  <2>7. /\ i \in DOMAIN moved[r]
        /\ moved[r][i] = Read(r, "scratch", "query", cell(i))
    BY <2>5
  <2>8. row - rows \in Nat /\ row - rows < ChunkRows /\ rows + (row - rows) = row
    BY <1>2, <1>3
  <2> HIDE DEF moved, target
  <2>9. Cell(mem[r]["scratch"], "query", <<h \div heads, row - rows, h % heads>>)
          = Query(rows + (row - rows), (h \div heads) * heads + (h % heads))
    BY <1>1, <2>1, <2>8 DEF Exchanged
  <2>10. Read(r, "scratch", "query", cell(i))
           = Cell(mem[r]["scratch"], "query", cell(i))
    BY ReadIs
  <2> QED BY <2>1, <2>6, <2>7, <2>8, <2>9, <2>10
<1>4. \A r \in Group : \A i \in DOMAIN moved[r] : i \in Int /\ rows * KernelHeads <= i
  BY <1>2
<1> HIDE DEF target, cell
<1>5. /\ \A r \in Group : mem'[r]["query"] =
           [kind |-> "query", cells |-> Over(moved[r], mem[r]["query"].cells)]
      /\ DOMAIN mem' = Group /\ \A r \in Group : DOMAIN mem'[r] = Regions
  <2> HIDE DEF moved
  <2> QED BY <1>1, PutWrites, RegionNames
<1> HIDE DEF moved, content
<1>6. Spread'
  <2> SUFFICES ASSUME NEW r \in Group, NEW row \in Nat, NEW h \in AllHeads,
                      row < rows + ChunkRows
               PROVE  Cell(mem'[r]["query"], "query", row * KernelHeads + h)
                        = Query(row, h)
    BY <1>1, BatchStays DEF Spread
  <2>1. PICK m : m = mem[r]["query"]
    OBVIOUS
  <2>2. PICK n : n = mem'[r]["query"]
    OBVIOUS
  <2>3. PICK i : i = row * KernelHeads + h
    OBVIOUS
  <2>4. n = [kind |-> "query", cells |-> Over(moved[r], m.cells)]
    BY <1>5, <2>1, <2>2
  <2>5. /\ i \in DOMAIN moved[r] => Cell(n, "query", i) = moved[r][i]
        /\ i \notin DOMAIN moved[r] /\ Cell(m, "query", i) # Garbage
             => Cell(n, "query", i) = Cell(m, "query", i)
    BY <2>4, Overlay
  <2>6. CASE rows <= row
    <3>1. i \in DOMAIN moved[r] /\ moved[r][i] = Query(row, h)
      BY <1>3, <2>3, <2>6
    <3> QED BY <2>2, <2>3, <2>5, <3>1
  <2>7. CASE row < rows
    <3>1. i \in Nat /\ i < rows * KernelHeads
      BY <1>1, <1>2, <2>3, <2>7, RowsApart
    <3>2. i \notin DOMAIN moved[r]
      <4>1. rows * KernelHeads \in Int
        BY <1>2
      <4> QED BY <1>4, <3>1, <4>1
    <3>3. Cell(m, "query", i) = Query(row, h)
      BY <1>1, <2>1, <2>3, <2>7 DEF Spread
    <3> QED BY <2>2, <2>3, <2>5, <3>2, <3>3, QueryIsNoGarbage
  <2> QED BY <1>2, <2>6, <2>7
<1>7. rows' \in 0 .. T /\ rows' \in 0 .. MaxBatched
  BY <1>1, <1>2
<1>8. MqaTypeOK'
  BY <1>1, <1>5, <1>7, BatchStays DEF MqaTypeOK, batchAndPath, Stages
<1> QED BY <1>1, <1>6, <1>7, <1>8, BatchStays
        DEF MqaInv, Chunked, InHand, HeadsRight
-----------------------------------------------------------------------------
(***************************************************************************)
(* The kernels: where they look for a query, and what they make of it.     *)
(***************************************************************************)

\* The place of a query, and the query of a place.
LEMMA QueryPlace ==
  ASSUME Batch, NEW r \in Group, NEW row \in Rows, NEW h \in PlannedHeads(r),
         NEW i, i = QueryCell(r, row, h)
  PROVE  /\ i \in QueryCells(r) /\ i \div QueryStride = row
         /\ (i % QueryStride) + FirstHead(r) = h
<1>1. /\ heads \in Nat \ {0} /\ KernelHeads \in Nat \ {0} /\ InputHeads \in Nat
      /\ InputHeads <= KernelHeads /\ r \in Nat /\ r * heads \in Nat /\ T \in Nat
  BY Sizes
<1>2. row \in Nat
  BY <1>1 DEF Rows
<1>3. QueryStride \in Nat \ {0} /\ FirstHead(r) \in Nat
  BY <1>1 DEF QueryStride, FirstHead
<1>4. h \in Nat /\ h - FirstHead(r) \in 0 .. QueryStride - 1
  <2>1. CASE CkvUsed
    BY <1>1, <2>1 DEF PlannedHeads, OwnHeads, FirstHead, QueryStride
  <2>2. CASE ~CkvUsed
    <3>1. FirstHead(r) = 0
      <4>1. dcp = 1 => r = 0
        BY DEF Group
      <4> QED BY <1>1, <2>2, <4>1 DEF FirstHead
    <3> QED BY <1>1, <2>2, <3>1 DEF PlannedHeads, AllHeads, QueryStride
  <2> QED BY <2>1, <2>2
<1> DEFINE q == QueryStride
           f == FirstHead(r)
           j == h - f
<1>5. i = row * q + h - f
  BY DEF QueryCell
<1>6. i \in QueryCells(r)
  BY DEF QueryCells
<1>7. q \in Nat \ {0} /\ f \in Nat /\ j \in 0 .. q - 1 /\ h = j + f
  BY <1>3, <1>4
<1> HIDE DEF q, f, j
<1>8. row * q = q * row /\ q * row \in Nat
  BY <1>2, <1>7
<1>9. i = q * row + j
  BY <1>5, <1>7, <1>8
<1>10. i \div q = row /\ i % q = j
  BY <1>2, <1>7, <1>9, DivUnique
<1> QED BY <1>6, <1>7, <1>10 DEF q, f

LEMMA LoadQueryStep ==
  ASSUME MqaInv, UNCHANGED batchAndPath, LoadQuery
  PROVE  MqaInv'
<1>1. /\ Batch /\ MqaTypeOK /\ UNCHANGED <<at, rows, output>>
      /\ stage = "load" /\ stage' = "attend"
      /\ \/ at = "query" /\ WorkspaceGather /\ rows = T /\ Spread
         \/ at = "fresh" /\ ~WorkspaceGather /\ Brought
  BY DEF LoadQuery, MqaInv, InHand
<1>2. CASE at = "query" /\ WorkspaceGather /\ rows = T /\ Spread
  <2>1. mem' = mem
    BY <1>2 DEF LoadQuery, Alias
  <2>2. MqaTypeOK'
    BY <1>1, <2>1, BatchStays DEF MqaTypeOK, batchAndPath, Stages
  <2>3. Loaded'
    <3> SUFFICES ASSUME NEW r \in Group, NEW row \in Rows, NEW h \in PlannedHeads(r)
                 PROVE  Cell(mem[r]["query"], "query", QueryCell(r, row, h))
                          = Query(row, h)
      BY <2>1, BatchStays, PlacesStay DEF Loaded
    <3>1. ~CkvUsed /\ dcp > 1
      BY <1>1, <1>2, WorkspaceBatch
    <3>2. /\ KernelHeads \in Nat /\ InputHeads \in Nat /\ T \in Nat
          /\ dcp \in Nat
      BY <1>1, Sizes
    <3>3. row \in Nat /\ row < T /\ h \in AllHeads /\ h \in Nat
      BY <3>1, <3>2 DEF PlannedHeads, AllHeads, Rows
    <3>4. QueryCell(r, row, h) = row * KernelHeads + h
      <4>1. QueryStride = KernelHeads /\ FirstHead(r) = 0
        BY <3>1, <3>2 DEF QueryStride, FirstHead
      <4>2. row * KernelHeads \in Nat
        BY <3>2, <3>3
      <4> QED BY <3>3, <4>1, <4>2 DEF QueryCell
    <3> QED BY <1>2, <3>3, <3>4 DEF Spread
  <2> QED BY <1>1, <2>2, <2>3, BatchStays DEF MqaInv, Chunked, InHand, HeadsRight
<1>3. CASE at = "fresh" /\ ~WorkspaceGather /\ Brought
  <2> DEFINE copy(r) == [i \in QueryCells(r) |->
                           Read(r, at, "query", <<i \div QueryStride,
                                                  (i % QueryStride) + FirstHead(r)>>)]
             content == [r \in Group |-> [kind |-> "query", cells |-> copy(r)]]
  <2>1. Put("query", content)
    BY <1>3 DEF LoadQuery, Alias
  <2>2. /\ \A r \in Group : mem'[r]["query"] = [kind |-> "query", cells |-> copy(r)]
        /\ DOMAIN mem' = Group /\ \A r \in Group : DOMAIN mem'[r] = Regions
    <3> HIDE DEF copy
    <3> QED BY <1>1, <2>1, PutWrites, RegionNames
  <2>3. ASSUME NEW r \in Group, NEW row \in Rows, NEW h \in PlannedHeads(r),
               NEW i, i = QueryCell(r, row, h)
        PROVE  i \in DOMAIN copy(r) /\ copy(r)[i] = Query(row, h)
    <3>1. /\ i \in QueryCells(r) /\ i \div QueryStride = row
          /\ (i % QueryStride) + FirstHead(r) = h
      <4> HIDE DEF copy, content
      <4> QED BY <1>1, <2>3, QueryPlace
    <3>2. i \in DOMAIN copy(r) /\ copy(r)[i] = Read(r, at, "query", <<row, h>>)
      BY <3>1
    <3> HIDE DEF copy
    <3>3. Read(r, at, "query", <<row, h>>) = Cell(mem[r][at], "query", <<row, h>>)
      BY <1>3, ReadIs, RegionNames
    <3>4. Cell(mem[r][at], "query", <<row, h>>) = Query(row, h)
      BY <1>3 DEF Brought
    <3> QED BY <3>2, <3>3, <3>4
  <2> HIDE DEF copy, content
  <2>4. Loaded'
    <3> SUFFICES ASSUME NEW r \in Group, NEW row \in Rows, NEW h \in PlannedHeads(r)
                 PROVE  Cell(mem'[r]["query"], "query", QueryCell(r, row, h))
                          = Query(row, h)
      BY BatchStays, PlacesStay DEF Loaded
    <3>1. PICK m : m = mem'[r]["query"]
      OBVIOUS
    <3>2. PICK i : i = QueryCell(r, row, h)
      OBVIOUS
    <3>3. PICK f : f = copy(r)
      OBVIOUS
    <3>4. i \in DOMAIN f /\ f[i] = Query(row, h)
      BY <2>3, <3>2, <3>3
    <3>5. m = [kind |-> "query", cells |-> f]
      BY <2>2, <3>1, <3>3
    <3>6. Cell(m, "query", i) = f[i]
      BY <3>4, <3>5, CellIs
    <3> QED BY <3>1, <3>2, <3>4, <3>6
  <2>5. MqaTypeOK'
    BY <1>1, <2>2, BatchStays DEF MqaTypeOK, batchAndPath, Stages
  <2> QED BY <1>1, <2>4, <2>5, BatchStays DEF MqaInv, Chunked, InHand, HeadsRight
<1> QED BY <1>1, <1>2, <1>3
\* The longest sequence is a bound on every decode.
LEMMA LongestCovers ==
  ASSUME Batch, NEW d \in 1 .. Len(decodes)
  PROVE  decodes[d] \in Nat /\ LongestSeq \in Nat /\ decodes[d] <= LongestSeq
<1> DEFINE S == {decodes[e] : e \in 1 .. Len(decodes)} \cup {SeqLen(p) : p \in Prefills}
<1>1. MaxModelLen \in Nat
  BY GeometryAssumption
<1>2. \A e \in 1 .. Len(decodes) : decodes[e] \in 1 .. MaxModelLen
  <2>1. decodes \in Seq(1 .. MaxModelLen)
    BY DEF Batch
  <2> QED BY <2>1, ElementOfSeq
<1>3. \A p \in Prefills : SeqLen(p) \in Nat /\ SeqLen(p) <= MaxModelLen
  <2> TAKE p \in Prefills
  <2>1. prefills[p] \in [context : Nat, query : Nat \ {0}]
    <3>1. prefills \in Seq([context : Nat, query : Nat \ {0}])
      BY DEF Batch
    <3>2. p \in 1 .. Len(prefills)
      BY DEF Prefills
    <3> QED BY <3>1, <3>2, ElementOfSeq
  <2> QED BY <2>1 DEF Batch, SeqLen
<1>4. S \subseteq Nat /\ decodes[d] \in S /\ \A x \in S : x <= MaxModelLen
  BY <1>1, <1>2, <1>3
<1>5. LongestSeq = Max(S)
  BY DEF LongestSeq
<1> HIDE DEF S
<1>6. Max(S) \in S /\ \A x \in S : x <= Max(S)
  BY <1>1, <1>4, LargestIs
<1> QED BY <1>4, <1>5, <1>6

\* No rank's share of a sequence is longer than whole rounds of the deal would
\* make it.
LEMMA ShareFits ==
  ASSUME Batch, NEW len \in Nat, NEW long \in Nat, len <= long, NEW r \in Group
  PROVE  Layout(dcp)!LocalLen(len, r)
           <= IF dcp > 1 THEN Cdiv(long, dcp * Run) * Run ELSE long
<1> DEFINE S == dcp * Run
           q == len \div S
           rest == len % S
           over == IF rest > r * Run THEN rest - r * Run ELSE 0
           share == IF over < Run THEN over ELSE Run
           c == Cdiv(long, S)
<1>1. /\ dcp \in Nat \ {0} /\ r \in Nat /\ Run \in Nat \ {0}
      /\ S \in Nat \ {0} /\ r * Run \in Nat
  <2>1. dcp \in Nat \ {0} /\ r \in Nat /\ Run \in Nat \ {0}
    BY Sizes, GeometryAssumption
  <2> QED BY <2>1
<1>2. Layout(dcp)!LocalLen(len, r) = q * Run + share
  BY DEF Layout!LocalLen, Layout!Stride
<1>3. q \in Nat /\ rest \in 0 .. S - 1 /\ len = S * q + rest
  <2> HIDE DEF S
  <2> QED BY <1>1, DivMod
<1>4. c \in Nat /\ long <= S * c
  <2> HIDE DEF S
  <2> QED BY <1>1, CdivCovers
<1>5. over \in Nat /\ over <= rest
  <2> HIDE DEF S, rest
  <2> QED BY <1>1, <1>3
<1>6. share \in Nat /\ share <= Run /\ share <= rest
  <2> HIDE DEF over, S, rest
  <2> QED BY <1>1, <1>3, <1>5
<1>7. S * q \in Nat /\ q * Run \in Nat /\ c * Run \in Nat /\ S * c \in Nat
  <2> HIDE DEF q, c, S
  <2> QED BY <1>1, <1>3, <1>4
<1>8. CASE dcp = 1
  <2>1. q * Run = S * q
    <3>1. S = Run
      BY <1>1, <1>8
    <3> HIDE DEF q, S
    <3> QED BY <1>1, <1>3, <3>1
  <2> HIDE DEF S, q, rest, over, share, c
  <2> QED BY <1>2, <1>3, <1>6, <1>7, <1>8, <2>1
<1>9. CASE dcp > 1
  <2> HIDE DEF S, q, rest, over, share, c
  <2>1. CASE rest = 0
    <3>1. q <= c
      <4> SUFFICES ASSUME c < q PROVE FALSE
        BY <1>3, <1>4
      <4>1. S * c + S <= S * q
        BY <1>1, <1>3, <1>4, MulStep
      <4> QED BY <1>1, <1>3, <1>4, <1>7, <4>1
    <3>2. Run * q <= Run * c
      BY <1>1, <1>3, <1>4, <3>1, MulMono
    <3>3. Run * q = q * Run /\ Run * c = c * Run
      BY <1>1, <1>3, <1>4
    <3>4. share = 0
      BY <1>6, <2>1
    <3>5. q * Run + share <= c * Run
      BY <1>7, <3>2, <3>3, <3>4
    <3> QED BY <1>2, <1>9, <3>5 DEF c, S
  <2>2. CASE rest # 0
    <3>1. q < c
      <4> SUFFICES ASSUME c <= q PROVE FALSE
        BY <1>3, <1>4
      <4>1. S * c <= S * q
        BY <1>1, <1>3, <1>4, MulMono
      <4> QED BY <1>1, <1>3, <1>4, <1>7, <2>2, <4>1
    <3>2. Run * q + Run <= Run * c
      BY <1>1, <1>3, <1>4, <3>1, MulStep
    <3>3. Run * q = q * Run /\ Run * c = c * Run
      BY <1>1, <1>3, <1>4
    <3>4. q * Run + share <= c * Run
      BY <1>1, <1>6, <1>7, <3>2, <3>3
    <3> QED BY <1>2, <1>9, <3>4 DEF c, S
  <2> QED BY <2>1, <2>2
<1> QED BY <1>1, <1>8, <1>9

LEMMA BoundHolds ==
  ASSUME Batch, NEW r \in Group
  PROVE  BoundReaches(r)
<1> SUFFICES ASSUME NEW d \in 1 .. Len(decodes)
             PROVE  Layout(dcp)!LocalLen(decodes[d], r) <= DecodeMaxLen
  BY DEF BoundReaches
<1>1. decodes[d] \in Nat /\ LongestSeq \in Nat /\ decodes[d] <= LongestSeq
  BY LongestCovers
<1> QED BY <1>1, ShareFits DEF DecodeMaxLen
\* What the kernel of a rank makes of a query it finds.
LEMMA AttendedIs ==
  ASSUME Batch, NEW r \in Group, NEW row, NEW h
  PROVE  Attended(r, Query(row, h)) = Result(row, h, Share(r), <<>>)
<1>1. BoundReaches(r)
  BY BoundHolds
<1>2. CkvUsed => ~DecodeKernel
  BY GatherIsPrefill
<1>3. [s \in Group |-> IF s = r \/ (CkvUsed /\ ~DecodeKernel) THEN 1 ELSE 0] = Share(r)
  BY <1>2 DEF Share
<1>4. PICK query : query = Query(row, h)
  OBVIOUS
<1>5. query.kind = "query" /\ query.row = row /\ query.head = h
  BY <1>4 DEF Query
<1>6. Attended(r, query) = Result(row, h, Share(r), <<>>)
  BY <1>1, <1>3, <1>5 DEF Attended
<1> QED BY <1>4, <1>6

\* A rank's own heads are among those it plans for.
LEMMA OwnArePlanned ==
  ASSUME Batch, NEW r \in Group
  PROVE  OwnHeads(r) \subseteq PlannedHeads(r) /\ OwnHeads(r) \subseteq AllHeads
<1>1. /\ heads \in Nat \ {0} /\ InputHeads \in Nat /\ r * heads \in Nat
      /\ r * heads + heads <= InputHeads
  BY Sizes
<1>2. OwnHeads(r) \subseteq AllHeads
  BY <1>1 DEF OwnHeads, AllHeads
<1> QED BY <1>2 DEF PlannedHeads

\* With the records gathered, or none to gather, a rank sees every key.
LEMMA ShareIsWhole ==
  ASSUME Batch, dcp = 1 \/ CkvUsed, NEW r \in Group
  PROVE  Share(r) = Whole
<1>1. CASE CkvUsed
  BY <1>1 DEF Share, Whole
<1>2. CASE dcp = 1
  <2>1. Group = {0}
    BY <1>2 DEF Group
  <2>2. \A s \in Group : s = r
    BY <2>1
  <2> QED BY <2>2 DEF Share, Whole
<1> QED BY <1>1, <1>2

LEMMA AttendStep ==
  ASSUME MqaInv, UNCHANGED batchAndPath, Attend
  PROVE  MqaInv'
<1> DEFINE cells(r) == [i \in Rows \X PlannedHeads(r) |->
                   Attended(r, Read(r, "query", "query", QueryCell(r, i[1], i[2])))]
           result(r) == [kind |-> "result", cells |-> cells(r)]
<1>1. /\ Batch /\ MqaTypeOK /\ Loaded /\ stage = "attend"
      /\ UNCHANGED <<rows, output>>
      /\ at' = OutRegion
      /\ mem' = [r \in Group |->
                   [mem[r] EXCEPT !["scratch"] = result(r), ![OutRegion] = result(r)]]
      /\ stage' = IF ProjectBefore THEN "project"
                  ELSE IF dcp > 1 /\ ~CkvUsed THEN "merge" ELSE "finish"
  BY DEF Attend, MqaInv, InHand
<1>2. ASSUME NEW r \in Group, NEW row \in Rows, NEW h \in PlannedHeads(r), NEW i,
             i = <<row, h>>
      PROVE  i \in DOMAIN cells(r) /\ cells(r)[i] = Result(row, h, Share(r), <<>>)
  <2>1. Cell(mem[r]["query"], "query", QueryCell(r, row, h)) = Query(row, h)
    BY <1>1 DEF Loaded
  <2>2. Read(r, "query", "query", QueryCell(r, row, h)) = Query(row, h)
    BY <2>1, ReadIs
  <2>3. i \in DOMAIN cells(r) /\ cells(r)[i] = Attended(r, Query(row, h))
    BY <1>2, <2>2
  <2> HIDE DEF cells
  <2> QED BY <1>1, <2>3, AttendedIs
<1> HIDE DEF cells
<1>3. OutRegion \in Regions /\ at' \in Regions
  BY <1>1 DEF OutRegion, Regions
<1>4. /\ \A r \in Group : mem'[r][at'] = [kind |-> "result", cells |-> cells(r)]
      /\ DOMAIN mem' = Group /\ \A r \in Group : DOMAIN mem'[r] = Regions
  BY <1>1, <1>3, RegionNames DEF MqaTypeOK
<1> HIDE DEF result
<1>5. \A r \in Group : \A row \in Rows : \A h \in PlannedHeads(r) :
        Cell(mem'[r][at'], "result", <<row, h>>) = Result(row, h, Share(r), <<>>)
  <2> TAKE r \in Group
  <2> TAKE row \in Rows
  <2> TAKE h \in PlannedHeads(r)
  <2>1. PICK m : m = mem'[r][at']
    OBVIOUS
  <2>2. PICK i : i = <<row, h>>
    OBVIOUS
  <2>3. PICK f : f = cells(r)
    OBVIOUS
  <2>4. i \in DOMAIN f /\ f[i] = Result(row, h, Share(r), <<>>)
    BY <1>2, <2>2, <2>3
  <2>5. m = [kind |-> "result", cells |-> f]
    BY <1>4, <2>1, <2>3
  <2>6. Cell(m, "result", i) = f[i]
    BY <2>4, <2>5, CellIs
  <2> QED BY <2>1, <2>2, <2>4, <2>6
<1>6. MqaTypeOK'
  BY <1>1, <1>3, <1>4, BatchStays DEF MqaTypeOK, batchAndPath, Stages
<1>7. CASE ProjectBefore
  <2>1. stage' = "project" /\ dcp > 1 /\ ~CkvUsed
    BY <1>1, <1>7 DEF ProjectBefore, OnDemandProjection
  <2>2. Partial'
    BY <1>5, BatchStays, PlacesStay DEF Partial
  <2> QED BY <1>1, <1>6, <1>7, <2>1, <2>2, BatchStays
          DEF MqaInv, Chunked, InHand, HeadsRight, batchAndPath
<1>8. CASE ~ProjectBefore /\ dcp > 1 /\ ~CkvUsed
  <2>1. stage' = "merge"
    BY <1>1, <1>8
  <2>2. \A r \in Group : PlannedHeads(r) = AllHeads
    BY <1>8 DEF PlannedHeads
  <2>3. \A h : Weights(h) = <<>>
    BY <1>8 DEF Weights
  <2>4. Mergeable'
    BY <1>5, <2>2, <2>3, BatchStays, PlacesStay DEF Mergeable
  <2> QED BY <1>1, <1>6, <1>8, <2>1, <2>4, BatchStays
          DEF MqaInv, Chunked, InHand, HeadsRight, batchAndPath
<1>9. CASE ~ProjectBefore /\ ~(dcp > 1 /\ ~CkvUsed)
  <2>1. stage' = "finish" /\ (dcp = 1 \/ CkvUsed)
    <3>1. dcp \in Nat \ {0}
      BY <1>1, Sizes
    <3> QED BY <1>1, <1>9, <3>1
  <2>2. \A r \in Group : OwnHeads(r) \subseteq PlannedHeads(r) /\ Share(r) = Whole
    BY <1>1, <2>1, OwnArePlanned, ShareIsWhole
  <2>3. \A h : Weights(h) = <<>>
    BY <1>9 DEF Weights
  <2>4. \A r \in Group : \A row \in Rows : \A h \in OwnHeads(r) :
          Cell(mem'[r][at'], "result", <<row, h>>) = Result(row, h, Whole, Weights(h))
    BY <1>5, <2>2, <2>3
  <2>5. Merged'
    <3>1. \A r : OwnHeads(r)' = OwnHeads(r)
      BY BatchStays
    <3>2. (\A h : Weights(h)' = Weights(h)) /\ Whole' = Whole
      BY PlacesStay
    <3>3. Rows' = Rows /\ Group' = Group
      BY BatchStays
    <3> QED BY <2>4, <3>1, <3>2, <3>3 DEF Merged
  <2> QED BY <1>1, <1>6, <2>1, <2>5, BatchStays
          DEF MqaInv, Chunked, InHand, HeadsRight
<1> QED BY <1>7, <1>8, <1>9
-----------------------------------------------------------------------------
(***************************************************************************)
(* Projections, before the merge or after it.                              *)
(***************************************************************************)

\* A result that has met no weights meets those of one head.
LEMMA WeighIs ==
  ASSUME NEW row, NEW h, NEW seen
  PROVE  Weigh(Result(row, h, seen, <<>>), h) = Result(row, h, seen, <<h>>)
<1>1. PICK value : value = Result(row, h, seen, <<>>)
  OBVIOUS
<1>2. /\ value = [kind |-> "result", row |-> row, head |-> h, seen |-> seen,
                  proj |-> <<>>]
      /\ value.kind = "result"
  BY <1>1 DEF Result
<1>3. Append(<<>>, h) = <<h>>
  OBVIOUS
<1>4. Weigh(value, h) = [value EXCEPT !.proj = Append(value.proj, h)]
  BY <1>2 DEF Weigh
<1>5. [value EXCEPT !.proj = Append(value.proj, h)]
        = [kind |-> "result", row |-> row, head |-> h, seen |-> seen, proj |-> <<h>>]
  BY <1>2, <1>3
<1> QED BY <1>1, <1>4, <1>5 DEF Result

\* The chunks of a projection reach every row.
LEMMA ChunksReach == Batch => Rows \subseteq Projected
<1> SUFFICES ASSUME Batch, NEW row \in Rows PROVE row \in Projected
  OBVIOUS
<1> DEFINE c == row \div ProjectRows
           last == (T - 1) \div ProjectRows
<1>1. /\ T \in Nat /\ ProjectRows \in Nat \ {0} /\ row \in Nat
      /\ row <= T - 1 /\ T - 1 \in Nat
  <2>1. T \in Nat /\ ProjectRows \in Nat \ {0}
    BY Sizes
  <2>2. row \in 0 .. T - 1
    BY DEF Rows
  <2> HIDE DEF c, last
  <2> QED BY <2>1, <2>2
<1>2. /\ c \in Nat /\ row % ProjectRows \in 0 .. ProjectRows - 1
      /\ row = ProjectRows * c + (row % ProjectRows)
  BY <1>1, DivMod
<1>3. /\ last \in Nat /\ (T - 1) % ProjectRows \in 0 .. ProjectRows - 1
      /\ T - 1 = ProjectRows * last + ((T - 1) % ProjectRows)
  BY <1>1, DivMod
<1> HIDE DEF c, last
<1>4. /\ ProjectRows * c \in Nat /\ ProjectRows * last \in Nat
      /\ c * ProjectRows = ProjectRows * c
      /\ (c + 1) * ProjectRows = ProjectRows * c + ProjectRows
  BY <1>1, <1>2, <1>3
<1>5. c <= last
  <2> SUFFICES ASSUME last < c PROVE FALSE
    BY <1>2, <1>3
  <2>1. ProjectRows * last + ProjectRows <= ProjectRows * c
    BY <1>1, <1>2, <1>3, MulStep
  <2> QED BY <1>1, <1>2, <1>3, <1>4, <2>1
<1>6. c \in 0 .. last
  BY <1>2, <1>3, <1>5
<1>7. row \in c * ProjectRows .. Min({(c + 1) * ProjectRows, T}) - 1
  <2>1. Min({(c + 1) * ProjectRows, T})
          = IF (c + 1) * ProjectRows <= T THEN (c + 1) * ProjectRows ELSE T
    BY <1>1, <1>4, SmallerOf
  <2> QED BY <1>1, <1>2, <1>4, <2>1
<1> QED BY <1>6, <1>7 DEF Projected, last

\* A projected region, from the partial results.
LEMMA ProjectionIs ==
  ASSUME Batch, Partial, ProjectBefore, ~CkvUsed,
         NEW r \in Group, NEW row \in Rows, NEW h \in AllHeads
  PROVE  Weigh(Read(r, at, "result", <<row, h>>), h)
           = Result(row, h, Share(r), Weights(h))
<1>1. h \in PlannedHeads(r)
  BY DEF PlannedHeads
<1>2. Cell(mem[r][at], "result", <<row, h>>) = Result(row, h, Share(r), <<>>)
  BY <1>1 DEF Partial
<1>3. Read(r, at, "result", <<row, h>>) = Cell(mem[r][at], "result", <<row, h>>)
  BY DEF Read, Cell
<1>4. Weights(h) = <<h>>
  BY DEF Weights
<1> QED BY <1>2, <1>3, <1>4, WeighIs

\* Results of every row and head in a region make the batch mergeable.
LEMMA MergeableFrom ==
  ASSUME UNCHANGED batchAndPath, NEW cells,
         \A r \in Group : mem'[r][at'] = [kind |-> "result", cells |-> cells[r]],
         \A r \in Group : \A i \in Rows \X AllHeads :
            i \in DOMAIN cells[r]
            /\ cells[r][i] = Result(i[1], i[2], Share(r), Weights(i[2]))
  PROVE  Mergeable'
<1> SUFFICES ASSUME NEW r \in Group, NEW row \in Rows, NEW h \in AllHeads
             PROVE  Cell(mem'[r][at'], "result", <<row, h>>)
                      = Result(row, h, Share(r), Weights(h))
  <2>1. Group' = Group /\ Rows' = Rows /\ AllHeads' = AllHeads
    BY BatchStays
  <2>2. (\A r : Share(r)' = Share(r)) /\ (\A h : Weights(h)' = Weights(h))
    BY PlacesStay
  <2> QED BY <2>1, <2>2 DEF Mergeable
<1>1. PICK m : m = mem'[r][at']
  OBVIOUS
<1>2. PICK i : i = <<row, h>>
  OBVIOUS
<1>3. i \in Rows \X AllHeads /\ i[1] = row /\ i[2] = h
  BY <1>2
<1>4. PICK f : f = cells[r]
  OBVIOUS
<1>5. i \in DOMAIN f /\ f[i] = Result(row, h, Share(r), Weights(h))
  BY <1>3, <1>4
<1>6. m = [kind |-> "result", cells |-> f]
  BY <1>1, <1>4
<1>7. Cell(m, "result", i) = f[i]
  BY <1>5, <1>6, CellIs
<1> QED BY <1>1, <1>2, <1>5, <1>7

LEMMA ProjectFreshStep ==
  ASSUME MqaInv, UNCHANGED batchAndPath, ProjectFresh
  PROVE  MqaInv'
<1> DEFINE product == [r \in Group |-> [i \in Rows \X AllHeads |->
                         IF i[1] \in Projected
                         THEN Weigh(Read(r, at, "result", i), i[2]) ELSE Garbage]]
           content == [r \in Group |-> [kind |-> "result", cells |-> product[r]]]
<1>1. /\ Batch /\ MqaTypeOK /\ ProjectBefore /\ dcp > 1 /\ ~CkvUsed /\ Partial
      /\ UNCHANGED <<rows, output>> /\ at' = "fresh"
      /\ stage' = "merge" /\ stage = "project"
      /\ Put("fresh", content)
  BY DEF ProjectFresh, MqaInv, InHand
<1>2. \A r \in Group : \A i \in Rows \X AllHeads :
        i \in DOMAIN product[r]
        /\ product[r][i] = Result(i[1], i[2], Share(r), Weights(i[2]))
  <2> TAKE r \in Group
  <2> TAKE i \in Rows \X AllHeads
  <2>1. i[1] \in Rows /\ i[2] \in AllHeads /\ i = <<i[1], i[2]>>
    OBVIOUS
  <2>2. i[1] \in Projected
    BY <1>1, <2>1, ChunksReach
  <2>3. /\ i \in DOMAIN product[r]
        /\ product[r][i] = Weigh(Read(r, at, "result", i), i[2])
    BY <2>2
  <2> HIDE DEF product
  <2>4. PICK a, b : i = <<a, b>> /\ a \in Rows /\ b \in AllHeads /\ a = i[1] /\ b = i[2]
    BY <2>1
  <2>5. Weigh(Read(r, at, "result", <<a, b>>), b) = Result(a, b, Share(r), Weights(b))
    BY <1>1, <2>4, ProjectionIs
  <2> QED BY <2>3, <2>4, <2>5
<1>3. /\ \A r \in Group : mem'[r][at'] = [kind |-> "result", cells |-> product[r]]
      /\ DOMAIN mem' = Group /\ \A r \in Group : DOMAIN mem'[r] = Regions
  <2> HIDE DEF product
  <2> QED BY <1>1, PutWrites, RegionNames
<1> HIDE DEF product, content
<1>4. Mergeable'
  BY <1>2, <1>3, MergeableFrom
<1>5. MqaTypeOK'
  BY <1>1, <1>3, BatchStays DEF MqaTypeOK, batchAndPath, Stages, Regions
<1> QED BY <1>1, <1>4, <1>5, BatchStays
        DEF MqaInv, Chunked, InHand, HeadsRight, batchAndPath

LEMMA ProjectInWorkspaceStep ==
  ASSUME MqaInv, UNCHANGED batchAndPath, ProjectInWorkspace
  PROVE  MqaInv'
<1>1. /\ Batch /\ MqaTypeOK /\ ProjectBefore /\ dcp > 1 /\ ~CkvUsed /\ Partial
      /\ UNCHANGED <<rows, output>> /\ stage = "project"
  BY DEF ProjectInWorkspace, MqaInv, InHand
<1>2. CASE stage' = "failed"
  <2>1. mem' = mem /\ at' = at
    BY <1>2 DEF ProjectInWorkspace
  <2>2. MqaTypeOK'
    BY <1>1, <1>2, <2>1, BatchStays DEF MqaTypeOK, batchAndPath, Stages
  <2> QED BY <1>1, <1>2, <2>2, BatchStays DEF MqaInv, Chunked, InHand, HeadsRight
<1>3. CASE stage' # "failed"
  <2> DEFINE input == [r \in Group |->
               [i \in Rows \X AllHeads |-> Read(r, at, "result", i)]]
             product == [r \in Group |->
               [i \in Rows \X AllHeads |-> Weigh(input[r][i], i[2])]]
  <2>1. /\ at' = "scratch" /\ stage' = "merge"
        /\ mem' = [r \in Group |-> [mem[r] EXCEPT
                     !["query"] = [kind |-> "result", cells |-> input[r]],
                     !["scratch"] = [kind |-> "result", cells |-> product[r]]]]
    BY <1>3 DEF ProjectInWorkspace
  <2>2. \A r \in Group : \A i \in Rows \X AllHeads :
          i \in DOMAIN product[r]
          /\ product[r][i] = Result(i[1], i[2], Share(r), Weights(i[2]))
    <3> TAKE r \in Group
    <3> TAKE i \in Rows \X AllHeads
    <3>1. /\ i \in DOMAIN product[r]
          /\ product[r][i] = Weigh(Read(r, at, "result", i), i[2])
      OBVIOUS
    <3> HIDE DEF product, input
    <3>2. PICK a, b : i = <<a, b>> /\ a \in Rows /\ b \in AllHeads /\ a = i[1] /\ b = i[2]
      OBVIOUS
    <3>3. Weigh(Read(r, at, "result", <<a, b>>), b) = Result(a, b, Share(r), Weights(b))
      BY <1>1, <3>2, ProjectionIs
    <3> QED BY <3>1, <3>2, <3>3
  <2> HIDE DEF product, input
  <2>3. /\ \A r \in Group : mem'[r][at'] = [kind |-> "result", cells |-> product[r]]
        /\ DOMAIN mem' = Group /\ \A r \in Group : DOMAIN mem'[r] = Regions
    BY <1>1, <2>1, RegionNames DEF MqaTypeOK
  <2>4. Mergeable'
    BY <2>2, <2>3, MergeableFrom
  <2>5. MqaTypeOK'
    BY <1>1, <2>1, <2>3, BatchStays DEF MqaTypeOK, batchAndPath, Stages, Regions
  <2> QED BY <1>1, <2>1, <2>4, <2>5, BatchStays
          DEF MqaInv, Chunked, InHand, HeadsRight, batchAndPath
<1> QED BY <1>2, <1>3
-----------------------------------------------------------------------------
(***************************************************************************)
(* The merge of the partial results and the end of the call.               *)
(***************************************************************************)
LEMMA ResultFields ==
  ASSUME NEW row, NEW h, NEW seen, NEW proj, NEW v, v = Result(row, h, seen, proj)
  PROVE  /\ v.kind = "result" /\ v.row = row /\ v.head = h
         /\ v.seen = seen /\ v.proj = proj
  BY DEF Result

LEMMA CombinedIs ==
  ASSUME Batch, Mergeable, ~CkvUsed, NEW row \in Rows, NEW h \in AllHeads
  PROVE  Combined(row, h) = Result(row, h, Whole, Weights(h))
<1> DEFINE parts == [s \in Group |-> Read(s, at, "result", <<row, h>>)]
           same == \A s \in Group :
                     parts[s].kind = "result" /\ parts[s].row = parts[0].row
                       /\ parts[s].head = parts[0].head /\ parts[s].proj = parts[0].proj
           sum == [k \in Group |-> Marks(parts, k, Group)]
<1>1. Combined(row, h) =
        IF ~same THEN Garbage
        ELSE Result(parts[0].row, parts[0].head, sum, parts[0].proj)
  BY DEF Combined, Marks
<1>2. \A s \in Group : parts[s] = Result(row, h, Share(s), Weights(h))
  BY DEF Mergeable, Read, Cell
<1> HIDE DEF parts
<1>3. \A s \in Group : /\ parts[s].kind = "result" /\ parts[s].row = row
                       /\ parts[s].head = h /\ parts[s].proj = Weights(h)
                       /\ parts[s].seen = Share(s)
  BY <1>2, ResultFields
<1>4. IsFiniteSet(Group) /\ 0 \in Group
  BY Sizes
<1>5. \A k \in Group : Marks(parts, k, Group) = 1
  <2> TAKE k \in Group
  <2>1. \A s \in Group : parts[s].seen[k] = IF s = k THEN 1 ELSE 0
    <3> TAKE s \in Group
    <3>1. Share(s)[k] = IF s = k THEN 1 ELSE 0
      BY DEF Share
    <3>2. parts[s].seen = Share(s)
      BY <1>3
    <3> QED BY <3>1, <3>2
  <2> QED BY <1>4, <2>1, OneMark
<1>6. sum = Whole
  BY <1>5 DEF Whole
<1>7. same
  BY <1>3, <1>4
<1> QED BY <1>1, <1>3, <1>4, <1>6, <1>7

LEMMA MergePartialsStep ==
  ASSUME MqaInv, UNCHANGED batchAndPath, MergePartials
  PROVE  MqaInv'
<1>1. /\ Batch /\ MqaTypeOK /\ dcp > 1 /\ ~CkvUsed /\ Mergeable
      /\ UNCHANGED <<rows, output>> /\ stage = "merge"
  BY DEF MergePartials, MqaInv, InHand
<1>2. CASE stage' = "failed"
  <2>1. mem' = mem /\ at' = at
    BY <1>2 DEF MergePartials
  <2>2. MqaTypeOK'
    BY <1>1, <1>2, <2>1, BatchStays DEF MqaTypeOK, batchAndPath, Stages
  <2> QED BY <1>1, <1>2, <2>2, BatchStays DEF MqaInv, Chunked, InHand, HeadsRight
<1>3. CASE stage' # "failed"
  <2> DEFINE content == [r \in Group |-> MergedRows(r)]
  <2>1. PICK region \in {"fresh", "query"} :
          at' = region /\ stage' = "finish" /\ Put(region, content)
    BY <1>3 DEF MergePartials
  <2>2. /\ \A r \in Group : mem'[r][at'] = MergedRows(r)
        /\ DOMAIN mem' = Group /\ \A r \in Group : DOMAIN mem'[r] = Regions
    BY <1>1, <2>1, PutWrites, RegionNames
  <2>3. Merged'
    <3> SUFFICES ASSUME NEW r \in Group, NEW row \in Rows, NEW h \in OwnHeads(r)
                 PROVE  Cell(mem'[r][at'], "result", <<row, h>>)
                          = Result(row, h, Whole, Weights(h))
      <4>1. \A r : OwnHeads(r)' = OwnHeads(r)
        BY BatchStays
      <4>2. (\A h : Weights(h)' = Weights(h)) /\ Whole' = Whole
        BY PlacesStay
      <4>3. Rows' = Rows /\ Group' = Group
        BY BatchStays
      <4> QED BY <4>1, <4>2, <4>3 DEF Merged
    <3>1. PICK m : m = mem'[r][at']
      OBVIOUS
    <3>2. PICK i : i = <<row, h>>
      OBVIOUS
    <3>3. PICK f : f = [j \in Rows \X OwnHeads(r) |-> Combined(j[1], j[2])]
      OBVIOUS
    <3>4. m = [kind |-> "result", cells |-> f]
      BY <2>2, <3>1, <3>3 DEF MergedRows, KeptHeads
    <3>5. i \in DOMAIN f /\ f[i] = Combined(row, h)
      BY <3>2, <3>3
    <3>6. h \in AllHeads
      BY <1>1, OwnArePlanned
    <3>7. Combined(row, h) = Result(row, h, Whole, Weights(h))
      BY <1>1, <3>6, CombinedIs
    <3>8. Cell(m, "result", i) = f[i]
      BY <3>4, <3>5, CellIs
    <3> QED BY <3>1, <3>2, <3>5, <3>7, <3>8
  <2>4. MqaTypeOK'
    BY <1>1, <2>1, <2>2, BatchStays DEF MqaTypeOK, batchAndPath, Stages, Regions
  <2> QED BY <1>1, <2>1, <2>3, <2>4, BatchStays DEF MqaInv, Chunked, InHand, HeadsRight
<1> QED BY <1>2, <1>3

\* The path ends.
LEMMA FinishStep ==
  ASSUME MqaInv, UNCHANGED batchAndPath, Finish
  PROVE  MqaInv'
<1> DEFINE own == [r \in Group |-> [i \in Rows \X OwnHeads(r) |->
                     IF ProjectBefore THEN Read(r, at, "result", i)
                     ELSE Weigh(Read(r, at, "result", i), i[2])]]
<1>1. /\ Batch /\ MqaTypeOK /\ Merged
      /\ UNCHANGED <<mem, at, rows>> /\ stage = "finish" /\ stage' = "done"
      /\ output' = [r \in Group |-> Over(own[r], output[r])]
  BY DEF Finish, MqaInv, InHand
<1>2. ASSUME NEW r \in Group, NEW row \in Rows, NEW h \in OwnHeads(r),
             NEW i, i = <<row, h>>
      PROVE  i \in DOMAIN own[r] /\ own[r][i] = Finished(row, h)
  <2>1. i \in Rows \X OwnHeads(r) /\ i[2] = h
    BY <1>2
  <2>2. /\ i \in DOMAIN own[r]
        /\ own[r][i] = IF ProjectBefore THEN Read(r, at, "result", i)
                       ELSE Weigh(Read(r, at, "result", i), h)
    BY <2>1
  <2> HIDE DEF own
  <2>3. Cell(mem[r][at], "result", i) = Result(row, h, Whole, Weights(h))
    BY <1>1, <1>2 DEF Merged
  <2>4. Read(r, at, "result", i) = Result(row, h, Whole, Weights(h))
    BY <2>3 DEF Read, Cell
  <2>5. Finished(row, h) = Result(row, h, Whole, <<h>>)
    BY DEF Finished, Whole
  <2>6. CASE ProjectBefore
    BY <2>2, <2>4, <2>5, <2>6 DEF Weights
  <2>7. CASE ~ProjectBefore
    <3>1. Weights(h) = <<>>
      BY <2>7 DEF Weights
    <3> QED BY <2>2, <2>4, <2>5, <2>7, <3>1, WeighIs
  <2> QED BY <2>6, <2>7
<1> HIDE DEF own
<1>3. HeadsRight'
  <2> SUFFICES ASSUME NEW r \in Group, NEW row \in Rows, NEW h \in OwnHeads(r)
               PROVE  output'[r][<<row, h>>] = Finished(row, h)
    <3>1. \A r : OwnHeads(r)' = OwnHeads(r)
      BY BatchStays
    <3>2. Rows' = Rows /\ Group' = Group
      BY BatchStays
    <3>3. \A row, h : Finished(row, h)' = Finished(row, h)
      BY <3>2 DEF Finished, Result
    <3> QED BY <3>1, <3>2, <3>3 DEF HeadsRight
  <2>1. PICK i : i = <<row, h>>
    OBVIOUS
  <2>2. PICK f, g : f = own[r] /\ g = output[r]
    OBVIOUS
  <2>3. i \in DOMAIN f /\ f[i] = Finished(row, h)
    BY <1>2, <2>1, <2>2
  <2>4. Over(f, g)[i] = f[i]
    BY <2>3 DEF Over
  <2>5. output'[r] = Over(f, g)
    BY <1>1, <2>2
  <2> QED BY <2>1, <2>3, <2>4, <2>5
<1>4. MqaTypeOK'
  BY <1>1, BatchStays DEF MqaTypeOK, batchAndPath, Stages
<1> QED BY <1>1, <1>3, <1>4, BatchStays DEF MqaInv, Chunked, InHand
-----------------------------------------------------------------------------
\* Every step of the sparse path.
LEMMA MqaStep ==
  ASSUME MqaInv, MqaNext
  PROVE  MqaInv'
<1>1. UNCHANGED batchAndPath
  BY DEF MqaNext, ShareQuery, BeginWorkspace, PackChunk, ExchangeChunk, SpreadChunk,
         LoadQuery, Attend, ProjectFresh, ProjectInWorkspace, MergePartials, Finish,
         batchVars, batchAndPath
<1>2. CASE ShareQuery
  BY <1>1, <1>2, ShareQueryStep
<1>3. CASE BeginWorkspace
  BY <1>1, <1>3, BeginWorkspaceStep
<1>4. CASE PackChunk
  BY <1>1, <1>4, PackChunkStep
<1>5. CASE ExchangeChunk
  BY <1>1, <1>5, ExchangeChunkStep
<1>6. CASE SpreadChunk
  BY <1>1, <1>6, SpreadChunkStep
<1>7. CASE LoadQuery
  BY <1>1, <1>7, LoadQueryStep
<1>8. CASE Attend
  BY <1>1, <1>8, AttendStep
<1>9. CASE ProjectFresh
  BY <1>1, <1>9, ProjectFreshStep
<1>10. CASE ProjectInWorkspace
  BY <1>1, <1>10, ProjectInWorkspaceStep
<1>11. CASE MergePartials
  BY <1>1, <1>11, MergePartialsStep
<1>12. CASE Finish
  BY <1>1, <1>12, FinishStep
<1> QED BY <1>2, <1>3, <1>4, <1>5, <1>6, <1>7, <1>8, <1>9, <1>10, <1>11, <1>12
        DEF MqaNext

\* A step that leaves the absorbed kernels alone.
LEMMA MqaRests ==
  ASSUME MqaInv, UNCHANGED <<batchVars, mqaVars>>
  PROVE  MqaInv'
<1>1. /\ UNCHANGED batchAndPath
      /\ UNCHANGED <<mem, at, rows, stage, output>>
  BY DEF batchVars, mqaVars, batchAndPath
<1>2. MqaTypeOK'
  BY <1>1, BatchStays DEF MqaInv, MqaTypeOK, batchAndPath
<1>3. /\ (\A r : OwnHeads(r)' = OwnHeads(r)) /\ Rows' = Rows /\ Group' = Group
      /\ AllHeads' = AllHeads /\ KernelHeads' = KernelHeads
  BY <1>1, BatchStays
<1>4. /\ \A r : PlannedHeads(r)' = PlannedHeads(r) /\ Share(r)' = Share(r)
      /\ \A h : Weights(h)' = Weights(h)
      /\ \A r, row, h : QueryCell(r, row, h)' = QueryCell(r, row, h)
      /\ Whole' = Whole
  BY <1>1, PlacesStay
<1>5. ChunkRows' = ChunkRows /\ PackOffset' = PackOffset
  BY <1>1, BatchStays DEF ChunkRows, PackOffset
<1>6. (Spread => Spread') /\ (Exchanged => Exchanged') /\ (Packed => Packed')
  BY <1>1, <1>3, <1>5 DEF Spread, Exchanged, Packed, batchAndPath
<1>7. (Brought => Brought') /\ (Loaded => Loaded')
  BY <1>1, <1>3, <1>4 DEF Brought, Loaded
<1>8. (Partial => Partial') /\ (Mergeable => Mergeable') /\ (Merged => Merged')
  BY <1>1, <1>3, <1>4 DEF Partial, Mergeable, Merged
<1>9. HeadsRight'
  <2>1. \A row, h : Finished(row, h)' = Finished(row, h)
    BY <1>3 DEF Finished, Result
  <2> QED BY <1>1, <1>3, <2>1 DEF MqaInv, HeadsRight
<1>10. Chunked'
  BY <1>1, <1>6, BatchStays DEF MqaInv, Chunked
<1>11. InHand'
  BY <1>1, <1>6, <1>7, <1>8, BatchStays DEF MqaInv, InHand, batchAndPath
<1>12. Batch'
  BY <1>1, BatchStays DEF MqaInv
<1> QED BY <1>2, <1>9, <1>10, <1>11, <1>12 DEF MqaInv

\* The sparse path starts as MqaInv says.
LEMMA MqaStarts == Init => MqaInv
<1> SUFFICES ASSUME Init PROVE MqaInv
  OBVIOUS
<1>1. Batch
  BY BatchHolds
<1>2. stage = "idle" /\ rows = 0 /\ MqaInit
  BY DEF Init, MqaInit
<1>3. MqaTypeOK
  BY <1>1, <1>2, PathsAssumption DEF Batch, MqaInit, MqaTypeOK, Regions, Stages
<1> QED BY <1>1, <1>2, <1>3 DEF MqaInv, Chunked, InHand, HeadsRight

\* Whichever way the absorbed kernels take, through whichever of the borrowed
\* buffers, for every group, batch, head count and configuration that keeps to
\* the scheduler's limits: a call that ends leaves each rank, for each row and
\* each head of its own, with the result made from that row's and that head's
\* query and every rank's keys once, multiplied once with that head's weights.
THEOREM HeadsAreRight == Spec => []HeadsRight
<1>1. Init => MqaInv
  BY MqaStarts
<1>2. MqaInv /\ [Next]_vars => MqaInv'
  <2> SUFFICES ASSUME MqaInv, [Next]_vars PROVE MqaInv'
    OBVIOUS
  <2>1. CASE ForwardMqa
    BY <2>1, MqaStep DEF ForwardMqa
  <2>2. CASE ForwardMha
    BY <2>2, MqaRests DEF ForwardMha, ChunkNext
  <2>3. CASE UNCHANGED vars
    BY <2>3, MqaRests DEF vars
  <2> QED BY <2>1, <2>2, <2>3 DEF Next
<1>3. MqaInv => HeadsRight
  BY DEF MqaInv
<1> QED BY <1>1, <1>2, <1>3, PTL DEF Spec
-----------------------------------------------------------------------------
(***************************************************************************)
(* The types of a layer.                                                   *)
(***************************************************************************)
LEMMA GroupStays ==
  ASSUME UNCHANGED batchVars
  PROVE  Group' = Group /\ WorkspaceRows' = WorkspaceRows
  BY DEF batchVars, Group, WorkspaceRows

LEMMA ChunkTypeStep ==
  ASSUME ChunkTypeOK, ChunkNext
  PROVE  ChunkTypeOK'
<1>1. UNCHANGED batchVars
  BY DEF ChunkNext
<1>2. Group' = Group /\ WorkspaceRows' = WorkspaceRows
  BY <1>1, GroupStays
<1>3. CASE RunNewTokens
  <2>1. /\ UNCHANGED <<workspace, chunk, strided, prefix, spare>>
        /\ step' \in Steps
        /\ attended' = attended \/ DOMAIN attended' = Group
    BY <1>3 DEF RunNewTokens, Steps
  <2> QED BY <1>2, <2>1 DEF ChunkTypeOK
<1>4. CASE GatherChunk
  <2>1. UNCHANGED <<strided, prefix, spare, attended>>
    BY <1>4 DEF GatherChunk
  <2>2. step' \in Steps /\ chunk' \in Nat
    BY <1>4 DEF GatherChunk, ChunkTypeOK, Steps
  <2>3. /\ DOMAIN workspace' = Group
        /\ \A r \in Group : DOMAIN workspace'[r] = 0 .. WorkspaceRows - 1
    BY <1>4 DEF GatherChunk, ChunkTypeOK
  <2> QED BY <1>2, <2>1, <2>2, <2>3 DEF ChunkTypeOK
<1>5. CASE Exchange
  <2>1. UNCHANGED <<chunk, strided, prefix, spare, attended>> /\ step' \in Steps
    BY <1>5 DEF Exchange, Steps
  <2>2. /\ DOMAIN workspace' = Group
        /\ \A r \in Group : DOMAIN workspace'[r] = 0 .. WorkspaceRows - 1
    BY <1>5 DEF Exchange
  <2> QED BY <1>2, <2>1, <2>2 DEF ChunkTypeOK
<1>6. CASE AttendChunk
  <2> DEFINE result == IF strided THEN "padded" ELSE "dense"
             pair == MatchStrides(prefix.layout, result)
             into == IF spare = "none" THEN "dense" ELSE spare
             merged == [r \in Group |-> [p \in Prefills |->
                          prefix.keys[r][p] \o KeysOf(workspace[r], chunk, p)]]
             kept == IF Readable(pair) THEN merged ELSE Nothing
  <2>1. /\ UNCHANGED <<workspace, strided, attended>>
        /\ \/ step' = "failed" /\ UNCHANGED <<chunk, prefix, spare>>
           \/ /\ step' = "gather" /\ chunk' = chunk + 1
              /\ \/ prefix' = [keys |-> merged, layout |-> result] /\ UNCHANGED spare
                 \/ prefix' = [keys |-> kept, layout |-> into] /\ spare' = pair[1]
    BY <1>6 DEF AttendChunk
  <2>2. result \in Layouts /\ pair[1] \in Layouts \cup {"none"}
        /\ into \in Layouts \cup {"none"}
    BY DEF ChunkTypeOK, MatchStrides, Layouts
  <2> HIDE DEF result, pair, into, merged, kept
  <2>3. step' \in Steps /\ chunk' \in Nat
    BY <2>1 DEF ChunkTypeOK, Steps
  <2>4. prefix'.layout \in Layouts \cup {"none"} /\ spare' \in Layouts \cup {"none"}
    BY <2>1, <2>2 DEF ChunkTypeOK
  <2> QED BY <1>2, <2>1, <2>3, <2>4 DEF ChunkTypeOK
<1>7. CASE MergeContext
  <2>1. /\ UNCHANGED <<workspace, chunk, strided, prefix, spare>>
        /\ step' \in Steps /\ DOMAIN attended' = Group
    BY <1>7 DEF MergeContext, Steps
  <2> QED BY <1>2, <2>1 DEF ChunkTypeOK
<1> QED BY <1>3, <1>4, <1>5, <1>6, <1>7 DEF ChunkNext

\* The chunked prefill and the absorbed kernels keep their workspaces, result
\* buffers, stages and row counts within their types on every configuration.
THEOREM LayerTypes == Spec => []TypeOK
<1> DEFINE I == MqaInv /\ ChunkTypeOK
<1>1. Init => I
  <2> SUFFICES ASSUME Init PROVE ChunkTypeOK
    BY MqaStarts
  <2>1. ChunkInit
    BY DEF Init
  <2> QED BY <2>1 DEF ChunkInit, ChunkTypeOK, Steps, Nothing
<1>2. I /\ [Next]_vars => I'
  <2> SUFFICES ASSUME MqaInv, ChunkTypeOK, [Next]_vars PROVE MqaInv' /\ ChunkTypeOK'
    OBVIOUS
  <2>1. CASE ForwardMqa
    <3>1. MqaInv' /\ UNCHANGED batchVars /\ UNCHANGED chunkVars
      BY <2>1, MqaStep DEF ForwardMqa, MqaNext
    <3> QED BY <3>1, GroupStays DEF ChunkTypeOK, chunkVars
  <2>2. CASE ForwardMha
    BY <2>2, MqaRests, ChunkTypeStep DEF ForwardMha, ChunkNext
  <2>3. CASE UNCHANGED vars
    <3>1. MqaInv' /\ UNCHANGED batchVars /\ UNCHANGED chunkVars
      BY <2>3, MqaRests DEF vars
    <3> QED BY <3>1, GroupStays DEF ChunkTypeOK, chunkVars
  <2> QED BY <2>1, <2>2, <2>3 DEF Next
<1>3. I => TypeOK
  BY DEF MqaInv, TypeOK
<1> QED BY <1>1, <1>2, <1>3, PTL DEF Spec

-----------------------------------------------------------------------------
(***************************************************************************)
(* Sequences put together, and the sums that say where each begins.        *)
(***************************************************************************)
SumRec(c, n, lens) == c = [p \in 0 .. n |-> IF p = 0 THEN 0 ELSE c[p - 1] + lens[p]]

\* Sums of the first lengths.
LEMMA CuSumIs ==
  ASSUME NEW n \in Nat, NEW lens \in [1 .. n -> Nat]
  PROVE  /\ CuSum(lens) \in [0 .. n -> Nat] /\ CuSum(lens)[0] = 0
         /\ \A p \in 1 .. n : CuSum(lens)[p] = CuSum(lens)[p - 1] + lens[p]
<1> DEFINE Has(m) == m <= n => \E c \in [0 .. m -> Nat] : SumRec(c, m, lens)
           N == {m \in Nat : Has(m)}
<1>1. 0 \in N
  <2>1. [p \in 0 .. 0 |-> 0] \in [0 .. 0 -> Nat]
    OBVIOUS
  <2>2. SumRec([p \in 0 .. 0 |-> 0], 0, lens)
    BY DEF SumRec
  <2> QED BY <2>1, <2>2
<1>2. ASSUME NEW m \in N PROVE m + 1 \in N
  <2> SUFFICES ASSUME m + 1 <= n
               PROVE  \E c \in [0 .. m + 1 -> Nat] : SumRec(c, m + 1, lens)
    <3>1. Has(m + 1)
      OBVIOUS
    <3> HIDE DEF Has
    <3> QED BY <1>2, <3>1
  <2>1. PICK c \in [0 .. m -> Nat] : SumRec(c, m, lens)
    BY <1>2
  <2> DEFINE d == [p \in 0 .. m + 1 |-> IF p = m + 1 THEN c[m] + lens[m + 1] ELSE c[p]]
  <2>2. d \in [0 .. m + 1 -> Nat]
    BY <1>2, <2>1
  <2>3. \A p \in 0 .. m : c[p] = IF p = 0 THEN 0 ELSE c[p - 1] + lens[p]
    BY <2>1 DEF SumRec
  <2>4. \A p \in 0 .. m + 1 : d[p] = IF p = 0 THEN 0 ELSE d[p - 1] + lens[p]
    <3> TAKE p \in 0 .. m + 1
    <3>1. CASE p = m + 1
      BY <1>2, <3>1
    <3>2. CASE p # m + 1
      <4>1. p \in 0 .. m /\ d[p] = c[p]
        BY <1>2, <3>2
      <4>2. p # 0 => p - 1 \in 0 .. m /\ d[p - 1] = c[p - 1]
        BY <1>2, <3>2
      <4> QED BY <2>3, <4>1, <4>2
    <3> QED BY <3>1, <3>2
  <2>5. d = [p \in 0 .. m + 1 |-> IF p = 0 THEN 0 ELSE d[p - 1] + lens[p]]
    BY <2>4
  <2> HIDE DEF d
  <2>6. SumRec(d, m + 1, lens)
    BY <2>5 DEF SumRec
  <2> QED BY <2>2, <2>6
<1>3. N = Nat
  BY <1>1, <1>2, SetInduction
<1>4. PICK c \in [0 .. n -> Nat] : SumRec(c, n, lens)
  <2>1. Has(n)
    <3> HIDE DEF Has
    <3> QED BY <1>3
  <2> QED BY <2>1
<1>5. Len(lens) = n
  OBVIOUS
<1>6. CuSum(lens) = CHOOSE x : SumRec(x, n, lens)
  BY <1>5 DEF CuSum, SumRec
<1>7. PICK cu : cu = CuSum(lens)
  OBVIOUS
<1>8. SumRec(cu, n, lens)
  BY <1>4, <1>6, <1>7
<1>9. /\ DOMAIN cu = 0 .. n
      /\ \A p \in 0 .. n : cu[p] = IF p = 0 THEN 0 ELSE cu[p - 1] + lens[p]
  BY <1>8 DEF SumRec
<1>10. /\ DOMAIN c = 0 .. n
       /\ \A p \in 0 .. n : c[p] = IF p = 0 THEN 0 ELSE c[p - 1] + lens[p]
  BY <1>4 DEF SumRec
<1> DEFINE E == {m \in Nat : m <= n => cu[m] = c[m]}
<1>11. 0 \in E
  BY <1>9, <1>10
<1>12. ASSUME NEW m \in E PROVE m + 1 \in E
  <2> SUFFICES ASSUME m + 1 <= n PROVE cu[m + 1] = c[m + 1]
    BY <1>12
  <2>1. m + 1 \in 0 .. n /\ m + 1 # 0 /\ (m + 1) - 1 = m /\ cu[m] = c[m]
    BY <1>12
  <2> QED BY <1>9, <1>10, <2>1
<1>13. E = Nat
  BY <1>11, <1>12, SetInduction
<1>14. \A p \in 0 .. n : cu[p] = c[p]
  BY <1>13
<1>15. cu = [p \in 0 .. n |-> cu[p]]
  BY <1>8 DEF SumRec
<1>16. cu \in [0 .. n -> Nat]
  BY <1>14, <1>15
<1>17. cu[0] = 0 /\ \A p \in 1 .. n : cu[p] = cu[p - 1] + lens[p]
  BY <1>9
<1> QED BY <1>7, <1>16, <1>17

FlatRec(f, n, seqs) ==
  f = [k \in 1 .. n |-> IF k = 1 THEN seqs[k] ELSE f[k - 1] \o seqs[k]]

Flattened(f, n, seqs) ==
  /\ FlattenSeq(seqs) = f[n] /\ f[1] = seqs[1]
  /\ \A k \in 1 .. n : k # 1 => f[k] = f[k - 1] \o seqs[k]

\* Sequences one after the other, front to back.
LEMMA FlattenIs ==
  ASSUME NEW A, NEW n \in Nat \ {0}, NEW seqs \in [1 .. n -> Seq(A)]
  PROVE  \E f \in [1 .. n -> Seq(A)] : Flattened(f, n, seqs)
<1> DEFINE Has(m) == m + 1 <= n =>
                   \E f \in [1 .. m + 1 -> Seq(A)] : FlatRec(f, m + 1, seqs)
           N == {m \in Nat : Has(m)}
<1>1. 0 \in N
  <2> DEFINE f == [k \in 1 .. 0 + 1 |-> seqs[1]]
  <2>1. f \in [1 .. 0 + 1 -> Seq(A)]
    OBVIOUS
  <2>2. FlatRec(f, 0 + 1, seqs)
    BY DEF FlatRec
  <2> HIDE DEF f
  <2> QED BY <2>1, <2>2
<1>2. ASSUME NEW m \in N PROVE m + 1 \in N
  <2> SUFFICES ASSUME (m + 1) + 1 <= n
               PROVE  \E f \in [1 .. (m + 1) + 1 -> Seq(A)] : FlatRec(f, (m + 1) + 1, seqs)
    BY <1>2
  <2>1. m \in Nat /\ m + 1 <= n /\ m + 1 \in 1 .. m + 1 /\ m + 2 \in 1 .. n
    BY <1>2
  <2>2. PICK f \in [1 .. m + 1 -> Seq(A)] : FlatRec(f, m + 1, seqs)
    BY <1>2, <2>1
  <2>3. f[m + 1] \in Seq(A) /\ seqs[m + 2] \in Seq(A)
    BY <2>1, <2>2
  <2>4. PICK both : both = f[m + 1] \o seqs[m + 2] /\ both \in Seq(A)
    BY <2>3, ConcatProperties
  <2> DEFINE g == [k \in 1 .. m + 2 |-> IF k = m + 2 THEN both ELSE f[k]]
  <2>5. g \in [1 .. m + 2 -> Seq(A)]
    BY <2>1, <2>2, <2>4
  <2>6. \A k \in 1 .. m + 1 : f[k] = IF k = 1 THEN seqs[k] ELSE f[k - 1] \o seqs[k]
    BY <2>2 DEF FlatRec
  <2>7. \A k \in 1 .. m + 2 : g[k] = IF k = 1 THEN seqs[k] ELSE g[k - 1] \o seqs[k]
    <3> TAKE k \in 1 .. m + 2
    <3>1. CASE k = m + 2
      <4>1. k # 1 /\ k - 1 = m + 1 /\ g[k] = both /\ g[k - 1] = f[m + 1]
        BY <2>1, <3>1
      <4> QED BY <2>4, <3>1, <4>1
    <3>2. CASE k # m + 2
      <4>1. k \in 1 .. m + 1 /\ g[k] = f[k]
        BY <2>1, <3>2
      <4>2. k # 1 => g[k - 1] = f[k - 1]
        BY <2>1, <3>2
      <4> QED BY <2>6, <4>1, <4>2
    <3> QED BY <3>1, <3>2
  <2>8. DOMAIN g = 1 .. m + 2 /\ g = [k \in 1 .. m + 2 |-> g[k]]
    OBVIOUS
  <2> HIDE DEF g
  <2>9. FlatRec(g, m + 2, seqs)
    BY <2>7, <2>8 DEF FlatRec
  <2>10. (m + 1) + 1 = m + 2
    BY <2>1
  <2> QED BY <2>5, <2>9, <2>10
<1>3. N = Nat
  BY <1>1, <1>2, SetInduction
<1>4. n - 1 \in Nat /\ (n - 1) + 1 = n
  OBVIOUS
<1>5. \E f \in [1 .. n -> Seq(A)] : FlatRec(f, n, seqs)
  <2>1. Has(n - 1)
    <3> HIDE DEF Has
    <3> QED BY <1>3, <1>4
  <2> QED BY <1>4, <2>1
<1> HIDE DEF N
<1>6. Len(seqs) = n
  OBVIOUS
<1>7. FlattenSeq(seqs) = (CHOOSE x : FlatRec(x, n, seqs))[n]
  BY <1>6 DEF FlattenSeq, FlatRec
<1>8. PICK f : f = CHOOSE x : FlatRec(x, n, seqs)
  OBVIOUS
<1>9. FlatRec(f, n, seqs)
  BY <1>5, <1>8
<1>10. /\ DOMAIN f = 1 .. n
       /\ \A k \in 1 .. n : f[k] = IF k = 1 THEN seqs[k] ELSE f[k - 1] \o seqs[k]
  BY <1>9 DEF FlatRec
<1> DEFINE E == {m \in Nat : m + 1 <= n => f[m + 1] \in Seq(A)}
<1>11. 0 \in E
  <2>1. 1 \in 1 .. n /\ seqs[1] \in Seq(A)
    OBVIOUS
  <2> QED BY <1>10, <2>1
<1>12. ASSUME NEW m \in E PROVE m + 1 \in E
  <2> SUFFICES ASSUME (m + 1) + 1 <= n PROVE f[(m + 1) + 1] \in Seq(A)
    BY <1>12
  <2>1. /\ (m + 1) + 1 \in 1 .. n /\ (m + 1) + 1 # 1 /\ ((m + 1) + 1) - 1 = m + 1
        /\ f[m + 1] \in Seq(A)
    BY <1>12
  <2>2. seqs[(m + 1) + 1] \in Seq(A)
    BY <2>1
  <2>3. f[m + 1] \o seqs[(m + 1) + 1] \in Seq(A)
    BY <2>1, <2>2, ConcatProperties
  <2> QED BY <1>10, <2>1, <2>3
<1>13. E = Nat
  BY <1>11, <1>12, SetInduction
<1>14. \A k \in 1 .. n : f[k] \in Seq(A)
  <2> TAKE k \in 1 .. n
  <2>1. k - 1 \in Nat /\ (k - 1) + 1 = k
    OBVIOUS
  <2>2. k - 1 \in E
    <3> HIDE DEF E
    <3> QED BY <1>13, <2>1
  <2> QED BY <2>1, <2>2
<1>15. f = [k \in 1 .. n |-> f[k]]
  BY <1>9 DEF FlatRec
<1>16. f \in [1 .. n -> Seq(A)]
  BY <1>14, <1>15
<1>17. 1 \in 1 .. n
  OBVIOUS
<1>18. Flattened(f, n, seqs)
  BY <1>7, <1>8, <1>10, <1>17 DEF Flattened
<1> QED BY <1>16, <1>18

-----------------------------------------------------------------------------
\* A sequence with every element of a set, each once.
Once(s, X) ==
  /\ s \in Seq(X)
  /\ \A x \in X : \E i \in 1 .. Len(s) : s[i] = x
  /\ \A i, j \in 1 .. Len(s) : s[i] = s[j] => i = j

\* No element: the empty sequence.
LEMMA OnceNone ==
  ASSUME NEW X, X = {}
  PROVE  Once(<<>>, X)
  BY DEF Once

Tokens(p, a, last) == {<<p, tok>> : tok \in a .. last}

\* A sequence with each of the tokens a .. last of a prefill once has their number.
LEMMA OnceLen ==
  ASSUME NEW s, NEW a \in Nat, NEW len \in Nat, NEW last \in Int,
         last = a + len - 1, NEW p, Once(s, Tokens(p, a, last))
  PROVE  Len(s) = len /\ ToSet(s) = Tokens(p, a, last)
<1>0. PICK X : X = Tokens(p, a, last) /\ Once(s, X)
  OBVIOUS
<1>1. s \in Seq(X) /\ Len(s) \in Nat /\ DOMAIN s = 1 .. Len(s)
  BY <1>0 DEF Once
<1>2. \A i \in 1 .. Len(s) : s[i] \in X
  BY <1>1
<1>3. ToSet(s) = X
  <2>1. ToSet(s) = {s[i] : i \in 1 .. Len(s)}
    BY <1>1 DEF ToSet
  <2>2. \A x \in X : \E i \in 1 .. Len(s) : s[i] = x
    BY <1>0 DEF Once
  <2> QED BY <1>2, <2>1, <2>2
<1> DEFINE f == [i \in 1 .. Len(s) |-> s[i][2]]
<1>4. \A i \in 1 .. Len(s) : s[i] = <<p, s[i][2]>> /\ s[i][2] \in a .. last
  BY <1>0, <1>2 DEF Tokens
<1>5. f \in Bijection(1 .. Len(s), a .. last)
  <2>1. f \in [1 .. Len(s) -> a .. last]
    BY <1>4
  <2>2. \A i, j \in 1 .. Len(s) : f[i] = f[j] => i = j
    <3> TAKE i, j \in 1 .. Len(s)
    <3> HAVE f[i] = f[j]
    <3>1. s[i][2] = s[j][2]
      OBVIOUS
    <3>2. s[i] = s[j]
      BY <1>4, <3>1
    <3> QED BY <1>0, <3>2 DEF Once
  <2>3. \A t \in a .. last : \E i \in 1 .. Len(s) : f[i] = t
    <3> TAKE t \in a .. last
    <3>1. <<p, t>> \in X
      BY <1>0 DEF Tokens
    <3>2. PICK i \in 1 .. Len(s) : s[i] = <<p, t>>
      BY <1>0, <3>1 DEF Once
    <3>3. f[i] = t
      BY <3>2
    <3> QED BY <3>3
  <2> HIDE DEF f
  <2>4. f \in Injection(1 .. Len(s), a .. last)
    BY <2>1, <2>2 DEF Injection, IsInjective
  <2>5. f \in Surjection(1 .. Len(s), a .. last)
    BY <2>1, <2>3 DEF Surjection
  <2> QED BY <2>4, <2>5 DEF Bijection
<1> HIDE DEF f
<1>6. ExistsBijection(1 .. Len(s), a .. last)
  BY <1>5 DEF ExistsBijection
<1>7. /\ IsFiniteSet(1 .. Len(s)) /\ Cardinality(1 .. Len(s)) = Len(s)
      /\ Cardinality(a .. last) = len
  <2>1. /\ IsFiniteSet(1 .. Len(s))
        /\ Cardinality(1 .. Len(s)) = IF 1 > Len(s) THEN 0 ELSE Len(s) - 1 + 1
    <3>1. 1 \in Int /\ Len(s) \in Int
      BY <1>1
    <3> QED BY <3>1, FS_Interval
  <2>2. Cardinality(a .. last) = IF a > last THEN 0 ELSE last - a + 1
    <3>1. a \in Int /\ last \in Int
      OBVIOUS
    <3> QED BY <3>1, FS_Interval
  <2> QED BY <1>1, <2>1, <2>2
<1>8. Cardinality(a .. last) = Cardinality(1 .. Len(s))
  BY <1>6, <1>7, FS_Bijection
<1> QED BY <1>0, <1>3, <1>7, <1>8

\* Two sequences of disjoint sets, one after the other.
LEMMA OnceConcat ==
  ASSUME NEW X, NEW Y, NEW s, NEW t, Once(s, X), Once(t, Y), X \cap Y = {},
         NEW Z, Z = X \cup Y
  PROVE  Once(s \o t, Z)
<1>1. s \in Seq(Z) /\ t \in Seq(Z) /\ Len(s) \in Nat /\ Len(t) \in Nat
  BY SeqMonotonic DEF Once
<1>2. /\ s \o t \in Seq(Z) /\ Len(s \o t) = Len(s) + Len(t)
      /\ \A i \in 1 .. Len(s) + Len(t) :
           (s \o t)[i] = IF i <= Len(s) THEN s[i] ELSE t[i - Len(s)]
  BY <1>1, ConcatProperties
<1>3. PICK u : u = s \o t
  OBVIOUS
<1>4. \A i \in 1 .. Len(s) : s[i] \in X /\ u[i] = s[i] /\ i \in 1 .. Len(u)
  <2> TAKE i \in 1 .. Len(s)
  <2>1. s[i] \in X
    BY DEF Once
  <2>2. i \in 1 .. Len(s) + Len(t) /\ i <= Len(s)
    BY <1>1
  <2> QED BY <1>2, <1>3, <2>1, <2>2
<1>5. \A i \in 1 .. Len(t) :
        t[i] \in Y /\ u[Len(s) + i] = t[i] /\ Len(s) + i \in 1 .. Len(u)
  <2> TAKE i \in 1 .. Len(t)
  <2>1. t[i] \in Y
    BY DEF Once
  <2>2. /\ Len(s) + i \in 1 .. Len(s) + Len(t) /\ ~ (Len(s) + i <= Len(s))
        /\ (Len(s) + i) - Len(s) = i
    BY <1>1
  <2> QED BY <1>2, <1>3, <2>1, <2>2
<1>6. \A i \in 1 .. Len(u) :
        \/ i \in 1 .. Len(s)
        \/ i - Len(s) \in 1 .. Len(t) /\ u[i] = t[i - Len(s)] /\ ~ (i \in 1 .. Len(s))
  BY <1>1, <1>2, <1>3
<1>7. \A z \in Z : \E i \in 1 .. Len(u) : u[i] = z
  <2> TAKE z \in Z
  <2>1. CASE z \in X
    <3>1. PICK i \in 1 .. Len(s) : s[i] = z
      BY <2>1 DEF Once
    <3> QED BY <1>4, <3>1
  <2>2. CASE z \in Y
    <3>1. PICK i \in 1 .. Len(t) : t[i] = z
      BY <2>2 DEF Once
    <3> QED BY <1>5, <3>1
  <2> QED BY <2>1, <2>2
<1>8. \A i, j \in 1 .. Len(u) : u[i] = u[j] => i = j
  <2> SUFFICES ASSUME NEW i \in 1 .. Len(u), NEW j \in 1 .. Len(u), u[i] = u[j]
               PROVE  i = j
    OBVIOUS
  <2>1. CASE i \in 1 .. Len(s) /\ j \in 1 .. Len(s)
    BY <1>4, <2>1 DEF Once
  <2>2. CASE ~ (i \in 1 .. Len(s)) /\ ~ (j \in 1 .. Len(s))
    <3>1. PICK a \in 1 .. Len(t) : i - Len(s) = a /\ u[i] = t[a]
      BY <1>6, <2>2
    <3>2. PICK b \in 1 .. Len(t) : j - Len(s) = b /\ u[j] = t[b]
      BY <1>6, <2>2
    <3>3. a = b
      BY <3>1, <3>2 DEF Once
    <3>4. PICK l, m : l = Len(s) /\ m = Len(u)
      OBVIOUS
    <3>5. l \in Nat /\ m \in Nat /\ i \in 1 .. m /\ j \in 1 .. m /\ i - l = a /\ j - l = a
      BY <1>1, <1>2, <1>3, <3>1, <3>2, <3>3, <3>4
    <3>6. i = a + l /\ j = a + l
      BY <3>5
    <3> QED BY <3>6
  <2>3. CASE i \in 1 .. Len(s) /\ ~ (j \in 1 .. Len(s))
    <3>1. u[i] \in X
      BY <1>4, <2>3
    <3>2. u[j] \in Y
      BY <1>5, <1>6, <2>3
    <3> QED BY <3>1, <3>2
  <2>4. CASE ~ (i \in 1 .. Len(s)) /\ j \in 1 .. Len(s)
    <3>1. u[j] \in X
      BY <1>4, <2>4
    <3>2. u[i] \in Y
      BY <1>5, <1>6, <2>4
    <3> QED BY <3>1, <3>2
  <2> QED BY <2>1, <2>2, <2>3, <2>4
<1> QED BY <1>2, <1>3, <1>7, <1>8 DEF Once

\* Disjoint parts put together.
LEMMA FlattenOnce ==
  ASSUME NEW n \in Nat \ {0}, NEW seqs, NEW X, DOMAIN X = 1 .. n,
         seqs = [k \in 1 .. n |-> seqs[k]],
         \A k \in 1 .. n : Once(seqs[k], X[k]),
         \A k, l \in 1 .. n : k # l => X[k] \cap X[l] = {}
  PROVE  Once(FlattenSeq(seqs), UNION {X[k] : k \in 1 .. n})
<1> DEFINE A == UNION {X[k] : k \in 1 .. n}
           Up(m) == UNION {X[k] : k \in 1 .. m}
<1>1. \A k \in 1 .. n : X[k] \subseteq A
  OBVIOUS
<1>2. \A k \in 1 .. n : seqs[k] \in Seq(A)
  <2> TAKE k \in 1 .. n
  <2>1. seqs[k] \in Seq(X[k])
    BY DEF Once
  <2>2. X[k] \subseteq A
    BY <1>1
  <2> HIDE DEF A
  <2> QED BY <2>1, <2>2, SeqMonotonic
<1> HIDE DEF A
<1>3. seqs \in [1 .. n -> Seq(A)]
  BY <1>2
<1>3a. PICK f \in [1 .. n -> Seq(A)] : Flattened(f, n, seqs)
  BY <1>3, FlattenIs
<1>4. /\ FlattenSeq(seqs) = f[n] /\ f[1] = seqs[1]
      /\ \A k \in 1 .. n : k # 1 => f[k] = f[k - 1] \o seqs[k]
  BY <1>3a DEF Flattened
<1> DEFINE N == {m \in Nat : m + 1 <= n => Once(f[m + 1], Up(m + 1))}
<1>5. 0 \in N
  <2>1. Up(0 + 1) = X[1] /\ 1 \in 1 .. n
    OBVIOUS
  <2> HIDE DEF Up
  <2> QED BY <1>4, <2>1
<1>6. ASSUME NEW m \in N PROVE m + 1 \in N
  <2>0. m \in Nat /\ (m + 1 <= n => Once(f[m + 1], Up(m + 1)))
    <3> HIDE DEF Up
    <3> QED BY <1>6
  <2>1. (m + 1) + 1 <= n => Once(f[(m + 1) + 1], Up((m + 1) + 1))
    <3> SUFFICES ASSUME m + 2 <= n PROVE Once(f[m + 2], Up(m + 2))
      <4>1. (m + 1) + 1 = m + 2
        BY <2>0
      <4> HIDE DEF Up
      <4> QED BY <4>1
    <3>1. /\ m + 2 \in 1 .. n /\ m + 2 # 1 /\ (m + 2) - 1 = m + 1 /\ m + 1 <= n
      BY <2>0
    <3>2. f[m + 2] = f[m + 1] \o seqs[m + 2]
      BY <1>4, <3>1
    <3>3. Up(m + 2) = Up(m + 1) \cup X[m + 2]
      BY <2>0
    <3>4. Up(m + 1) \cap X[m + 2] = {}
      <4> SUFFICES ASSUME NEW k \in 1 .. m + 1 PROVE X[k] \cap X[m + 2] = {}
        OBVIOUS
      <4>1. k \in 1 .. n /\ k # m + 2
        BY <2>0, <3>1
      <4> QED BY <3>1, <4>1
    <3> HIDE DEF Up
    <3>5. Once(f[m + 1], Up(m + 1)) /\ Once(seqs[m + 2], X[m + 2])
      BY <2>0, <3>1
    <3>6. PICK old, part, before, new, both :
            /\ old = f[m + 1] /\ part = seqs[m + 2]
            /\ before = Up(m + 1) /\ new = X[m + 2] /\ both = Up(m + 2)
      OBVIOUS
    <3>7. Once(old \o part, both)
      BY <3>3, <3>4, <3>5, <3>6, OnceConcat
    <3> QED BY <3>2, <3>6, <3>7
  <2> HIDE DEF Up
  <2> QED BY <2>0, <2>1
<1>7. N = Nat
  <2> HIDE DEF N
  <2>1. N \subseteq Nat
    BY DEF N
  <2> QED BY <1>5, <1>6, <2>1, SetInduction
<1>8. Once(f[n], Up(n))
  <2>1. n - 1 \in Nat /\ (n - 1) + 1 = n
    OBVIOUS
  <2>2. n - 1 \in N
    <3> HIDE DEF N
    <3> QED BY <1>7, <2>1
  <2> HIDE DEF Up
  <2> QED BY <2>1, <2>2
<1> QED BY <1>4, <1>8

\* Each part is found where the sums say it begins.
Begins(c, n, seqs) ==
  c[0] = 0 /\ \A k \in 1 .. n : c[k] = c[k - 1] + Len(seqs[k])

PartsFound(all, c, n, seqs) ==
  \A k \in 1 .. n : SubSeq(all, c[k - 1] + 1, c[k]) = seqs[k]

\* Sequences laid end to end: part k of the result, between two of the sums of
\* lengths, is sequence k.
LEMMA FlattenParts ==
  ASSUME NEW A, NEW n \in Nat \ {0}, NEW seqs \in [1 .. n -> Seq(A)],
         NEW c \in [0 .. n -> Nat], Begins(c, n, seqs)
  PROVE  /\ FlattenSeq(seqs) \in Seq(A) /\ Len(FlattenSeq(seqs)) = c[n]
         /\ PartsFound(FlattenSeq(seqs), c, n, seqs)
<1>0. PICK f \in [1 .. n -> Seq(A)] : Flattened(f, n, seqs)
  BY FlattenIs
<1>1. /\ FlattenSeq(seqs) = f[n] /\ f[1] = seqs[1]
      /\ \A k \in 1 .. n : k # 1 => f[k] = f[k - 1] \o seqs[k]
  BY <1>0 DEF Flattened
<1>2. \A k \in 1 .. n :
        /\ c[k] \in Nat /\ c[k - 1] \in Nat
        /\ seqs[k] \in Seq(A) /\ Len(seqs[k]) \in Nat
        /\ f[k] \in Seq(A) /\ Len(f[k]) \in Nat
        /\ c[k] = c[k - 1] + Len(seqs[k])
  <2> TAKE k \in 1 .. n
  <2>1. k \in 0 .. n /\ k - 1 \in 0 .. n
    OBVIOUS
  <2>2. c[k] \in Nat /\ c[k - 1] \in Nat
    BY <2>1
  <2>3. c[k] = c[k - 1] + Len(seqs[k])
    BY DEF Begins
  <2>4. seqs[k] \in Seq(A) /\ f[k] \in Seq(A)
    OBVIOUS
  <2>5. Len(seqs[k]) \in Nat /\ Len(f[k]) \in Nat
    BY <2>4
  <2> QED BY <2>2, <2>3, <2>4, <2>5
<1> DEFINE Found(m) == /\ Len(f[m]) = c[m]
                       /\ \A k \in 1 .. m : \A j \in 1 .. Len(seqs[k]) :
                            c[k - 1] + j <= c[m] /\ f[m][c[k - 1] + j] = seqs[k][j]
           N == {m \in Nat : m + 1 <= n => Found(m + 1)}
<1>3. Found(1)
  <2>1. c[1] = Len(seqs[1]) /\ 1 \in 1 .. n /\ c[0] = 0 /\ Len(seqs[1]) \in Nat
    <3>1. 1 \in 1 .. n /\ 1 - 1 = 0 /\ c[0] = 0
      BY DEF Begins
    <3> QED BY <1>2, <3>1
  <2>2. \A k \in 1 .. 1 : k = 1 /\ k - 1 = 0
    OBVIOUS
  <2>3. \A j \in 1 .. Len(seqs[1]) : c[0] + j = j /\ j <= c[1]
    BY <2>1
  <2> QED BY <1>1, <2>1, <2>2, <2>3
<1>4. 0 \in N
  <2>1. Found(0 + 1)
    BY <1>3
  <2> HIDE DEF Found
  <2> QED BY <2>1
<1>5. ASSUME NEW m \in Nat, m + 2 <= n, Found(m + 1) PROVE Found(m + 2)
  <2>1. /\ m + 2 \in 1 .. n /\ m + 2 # 1 /\ (m + 2) - 1 = m + 1 /\ m + 1 \in 1 .. n
    <3> HIDE DEF Found
    <3> QED BY <1>5
  <2>a. PICK old, part, all : old = f[m + 1] /\ part = seqs[m + 2] /\ all = f[m + 2]
    OBVIOUS
  <2>b. PICK low, high : low = c[m + 1] /\ high = c[m + 2]
    OBVIOUS
  <2>2. /\ all = old \o part /\ high = low + Len(part)
        /\ old \in Seq(A) /\ part \in Seq(A) /\ Len(old) = low
        /\ low \in Nat /\ Len(part) \in Nat
    <3>1. f[m + 2] = f[m + 1] \o seqs[m + 2]
      BY <1>1, <2>1
    <3>2. c[m + 2] = c[m + 1] + Len(seqs[m + 2]) /\ seqs[m + 2] \in Seq(A)
          /\ Len(seqs[m + 2]) \in Nat
      BY <1>2, <2>1
    <3>3. f[m + 1] \in Seq(A) /\ c[m + 1] \in Nat /\ Len(f[m + 1]) = c[m + 1]
      BY <1>2, <1>5, <2>1
    <3> QED BY <2>a, <2>b, <3>1, <3>2, <3>3
  <2>3. /\ Len(all) = Len(old) + Len(part)
        /\ \A i \in 1 .. Len(old) + Len(part) :
             all[i] = IF i <= Len(old) THEN old[i] ELSE part[i - Len(old)]
    BY <2>2, ConcatProperties
  <2>4. /\ Len(all) = high
        /\ \A i \in 1 .. high : all[i] = IF i <= low THEN old[i] ELSE part[i - low]
    BY <2>2, <2>3
  <2>5. ASSUME NEW k \in 1 .. m + 2, NEW j \in 1 .. Len(seqs[k])
        PROVE  c[k - 1] + j <= high /\ all[c[k - 1] + j] = seqs[k][j]
    <3>1. k \in 1 .. n
      BY <1>5
    <3>2. PICK b : b = c[k - 1]
      OBVIOUS
    <3>3. b \in Nat /\ j \in Nat \ {0} /\ j <= Len(seqs[k])
      BY <1>2, <3>1, <3>2
    <3>4. CASE k = m + 2
      <4>1. b = low /\ part = seqs[k]
        BY <2>1, <2>a, <2>b, <3>2, <3>4
      <4>2. b + j <= high /\ ~ (b + j <= low) /\ b + j \in 1 .. high /\ (b + j) - low = j
        BY <2>2, <3>3, <4>1
      <4> QED BY <2>4, <3>2, <4>1, <4>2
    <3>5. CASE k # m + 2
      <4>1. k \in 1 .. m + 1
        BY <1>5, <3>5
      <4>2. b + j <= low /\ old[b + j] = seqs[k][j]
        BY <1>5, <2>a, <2>b, <3>2, <4>1
      <4>3. b + j \in 1 .. high /\ b + j <= high
        BY <2>2, <3>3, <4>2
      <4> QED BY <2>4, <3>2, <4>2, <4>3
    <3> QED BY <3>4, <3>5
  <2> QED BY <2>4, <2>5, <2>a, <2>b
<1>6. ASSUME NEW m \in N PROVE m + 1 \in N
  <2> HIDE DEF Found
  <2>1. (m + 1) + 1 = m + 2 /\ m \in Nat /\ (m + 2 <= n => m + 1 <= n)
    BY <1>6
  <2>2. m + 2 <= n => Found(m + 2)
    BY <1>5, <1>6, <2>1
  <2> QED BY <2>1, <2>2
<1>7. N = Nat
  <2> HIDE DEF N
  <2>1. N \subseteq Nat
    BY DEF N
  <2> QED BY <1>4, <1>6, <2>1, SetInduction
<1>8. Found(n)
  <2>1. n - 1 \in Nat /\ (n - 1) + 1 = n
    OBVIOUS
  <2>2. n - 1 \in N
    <3> HIDE DEF N
    <3> QED BY <1>7, <2>1
  <2> HIDE DEF Found
  <2> QED BY <2>1, <2>2
<1>9. PICK all : all = f[n]
  OBVIOUS
<1>10. all \in Seq(A) /\ Len(all) = c[n]
  BY <1>2, <1>8, <1>9
<1>11. ASSUME NEW k \in 1 .. n
       PROVE  SubSeq(all, c[k - 1] + 1, c[k]) = seqs[k]
  <2>1. PICK b, e, part : b = c[k - 1] /\ e = c[k] /\ part = seqs[k]
    OBVIOUS
  <2>2. b \in Nat /\ e \in Nat /\ part \in Seq(A) /\ Len(part) \in Nat /\ e = b + Len(part)
    BY <1>2, <2>1
  <2>3. \A j \in 1 .. Len(part) : all[b + j] = part[j]
    BY <1>8, <1>9, <2>1
  <2> HIDE DEF Found, N
  <2>4. \A i \in b + 1 .. e : all[i] \in A
    <3> TAKE i \in b + 1 .. e
    <3>1. PICK j : j = i - b
      OBVIOUS
    <3>2. j \in 1 .. Len(part) /\ b + j = i
      BY <2>2, <3>1
    <3>3. part[j] \in A
      BY <2>2, <3>2, ElementOfSeq
    <3> QED BY <2>3, <3>2, <3>3
  <2>5. PICK lo : lo = b + 1
    OBVIOUS
  <2>6. lo \in Int /\ e \in Int /\ (\A i \in lo .. e : all[i] \in A)
        /\ e - lo + 1 = Len(part)
    BY <2>2, <2>4, <2>5
  <2>7. PICK sub : sub = SubSeq(all, lo, e)
    OBVIOUS
  <2>8. /\ sub \in Seq(A)
        /\ Len(sub) = IF lo <= e THEN e - lo + 1 ELSE 0
        /\ \A i \in 1 .. e - lo + 1 : sub[i] = all[lo + i - 1]
    BY <2>6, <2>7, SubSeqProperties
  <2>9. Len(sub) = Len(part)
    BY <2>2, <2>5, <2>6, <2>8
  <2>10. \A i \in 1 .. Len(part) : sub[i] = part[i]
    <3> TAKE i \in 1 .. Len(part)
    <3>1. lo + i - 1 = b + i
      BY <2>2, <2>5
    <3> QED BY <2>3, <2>6, <2>8, <3>1
  <2>11. sub = part
    BY <2>2, <2>8, <2>9, <2>10, SeqEqual
  <2> QED BY <2>1, <2>5, <2>7, <2>11
<1> QED BY <1>1, <1>9, <1>10, <1>11 DEF PartsFound

-----------------------------------------------------------------------------
(***************************************************************************)
(* The deal of a prefill's tokens to the group, in coordinates: round q,   *)
(* rank s, place m of the run.                                             *)
(***************************************************************************)
At(tok, q, s, m) == tok = (dcp * Run) * q + (s * Run + m)

\* The deal's sizes are positive, and a place of a rank lies within its round.
LEMMA DealSizes ==
  ASSUME Batch
  PROVE  /\ dcp \in Nat \ {0} /\ Run \in Nat \ {0} /\ dcp * Run \in Nat \ {0}
         /\ \A s \in Group : /\ s \in Nat /\ s * Run \in Nat
                             /\ \A m \in 0 .. Run - 1 : s * Run + m \in 0 .. dcp * Run - 1
<1>1. dcp \in Nat \ {0} /\ Run \in Nat \ {0}
  BY Sizes, GeometryAssumption
<1>2. dcp * Run \in Nat \ {0}
  BY <1>1
<1>3. ASSUME NEW s \in Group, NEW m \in 0 .. Run - 1
      PROVE  s * Run + m \in 0 .. dcp * Run - 1
  <2>1. s \in Nat /\ s < dcp /\ m \in Nat /\ m < Run
    BY <1>1 DEF Group
  <2>2. Run * s + Run <= Run * dcp
    BY <1>1, <2>1, MulStep
  <2>3. Run * s = s * Run /\ Run * dcp = dcp * Run /\ s * Run \in Nat
    BY <1>1, <2>1
  <2> QED BY <1>1, <1>2, <2>1, <2>2, <2>3
<1>4. \A s \in Group : s \in Nat /\ s * Run \in Nat
  <2> TAKE s \in Group
  <2>1. s \in Nat
    BY <1>1 DEF Group
  <2> QED BY <1>1, <2>1
<1> QED BY <1>1, <1>2, <1>3, <1>4

\* No token has two places.
LEMMA OnePlace ==
  ASSUME Batch, NEW tok, NEW q \in Nat, NEW s \in Group, NEW m \in 0 .. Run - 1,
         NEW q2 \in Nat, NEW s2 \in Group, NEW m2 \in 0 .. Run - 1,
         At(tok, q, s, m), At(tok, q2, s2, m2)
  PROVE  q = q2 /\ s = s2 /\ m = m2
<1>0. PICK S, x, x2 : S = dcp * Run /\ x = s * Run + m /\ x2 = s2 * Run + m2
  OBVIOUS
<1>1. /\ S \in Nat \ {0} /\ x \in 0 .. S - 1 /\ x2 \in 0 .. S - 1
      /\ tok = S * q + x /\ tok = S * q2 + x2
  BY <1>0, DealSizes DEF At
<1>2. tok \div S = q /\ tok % S = x
  BY <1>1, DivUnique
<1>3. tok \div S = q2 /\ tok % S = x2
  BY <1>1, DivUnique
<1>4. Run \in Nat \ {0} /\ s \in Nat /\ s2 \in Nat
  BY DealSizes
<1>5. x = Run * s + m
  BY <1>0, <1>4
<1>6. x = Run * s2 + m2
  BY <1>0, <1>2, <1>3, <1>4
<1>7. x \div Run = s /\ x % Run = m
  BY <1>4, <1>5, DivUnique
<1>8. x \div Run = s2 /\ x % Run = m2
  BY <1>4, <1>6, DivUnique
<1> QED BY <1>2, <1>3, <1>7, <1>8

\* Every token has one.
LEMMA SomePlace ==
  ASSUME Batch, NEW tok \in Nat
  PROVE  \E q \in Nat, s \in Group, m \in 0 .. Run - 1 : At(tok, q, s, m)
<1>0. PICK S, q, x : S = dcp * Run /\ q = tok \div S /\ x = tok % S
  OBVIOUS
<1>1. S \in Nat \ {0} /\ dcp \in Nat \ {0} /\ Run \in Nat \ {0}
  BY <1>0, DealSizes
<1>2. q \in Nat /\ x \in 0 .. S - 1 /\ tok = S * q + x
  BY <1>0, <1>1, DivMod
<1>3. PICK s, m : s = x \div Run /\ m = x % Run
  OBVIOUS
<1>4. x \in Nat
  BY <1>1, <1>2
<1>5. s \in Nat /\ m \in 0 .. Run - 1 /\ x = Run * s + m
  BY <1>1, <1>3, <1>4, DivMod
<1>6. s < dcp
  <2> SUFFICES ASSUME dcp <= s PROVE FALSE
    BY <1>1, <1>5
  <2>1. Run * dcp <= Run * s
    BY <1>1, <1>5, MulMono
  <2>2. S = Run * dcp /\ Run * s \in Nat
    BY <1>0, <1>1, <1>5
  <2> QED BY <1>1, <1>2, <1>5, <2>1, <2>2
<1>7. s \in Group
  BY <1>1, <1>5, <1>6 DEF Group
<1>8. Run * s = s * Run
  BY <1>1, <1>5
<1>9. At(tok, q, s, m)
  BY <1>0, <1>2, <1>5, <1>8 DEF At
<1> QED BY <1>2, <1>5, <1>7, <1>9

\* A rank keeps it under the index its round and place make.
LEMMA PlaceOf ==
  ASSUME Batch, NEW l \in Nat, NEW s \in Group
  PROVE  \E q \in Nat, m \in 0 .. Run - 1 :
           l = Run * q + m /\ At(Layout(dcp)!GlobalPosition(l, s), q, s, m)
<1>0. PICK q, m : q = l \div Run /\ m = l % Run
  OBVIOUS
<1>1. Run \in Nat \ {0} /\ dcp * Run \in Nat \ {0} /\ s * Run \in Nat
  BY DealSizes
<1>2. q \in Nat /\ m \in 0 .. Run - 1 /\ l = Run * q + m
  BY <1>0, <1>1, DivMod
<1>3. Layout(dcp)!GlobalPosition(l, s) = q * (dcp * Run) + s * Run + m
  BY <1>0 DEF Layout!GlobalPosition, Layout!Stride
<1>4. q * (dcp * Run) = (dcp * Run) * q /\ (dcp * Run) * q \in Nat
  BY <1>1, <1>2
<1>5. At(Layout(dcp)!GlobalPosition(l, s), q, s, m)
  BY <1>1, <1>2, <1>3, <1>4 DEF At
<1> QED BY <1>2, <1>5

\* Row m of run q of rank s holds the token At names.
LEMMA PositionAt ==
  ASSUME Batch, NEW q \in Nat, NEW s \in Group, NEW m \in 0 .. Run - 1,
         NEW tok, At(tok, q, s, m)
  PROVE  /\ Run * q + m \in Nat
         /\ Layout(dcp)!GlobalPosition(Run * q + m, s) = tok
<1>1. Run \in Nat \ {0} /\ dcp * Run \in Nat \ {0} /\ s * Run \in Nat /\ m \in Nat
  BY DealSizes
<1>2. (Run * q + m) \div Run = q /\ (Run * q + m) % Run = m
  BY <1>1, DivUnique
<1>3. Layout(dcp)!GlobalPosition(Run * q + m, s) = q * (dcp * Run) + s * Run + m
  BY <1>2 DEF Layout!GlobalPosition, Layout!Stride
<1>4. q * (dcp * Run) = (dcp * Run) * q /\ (dcp * Run) * q \in Nat /\ Run * q \in Nat
  BY <1>1
<1>5. Run * q + m \in Nat
  BY <1>1, <1>4
<1>6. Layout(dcp)!GlobalPosition(Run * q + m, s) = tok
  BY <1>1, <1>3, <1>4 DEF At
<1> QED BY <1>5, <1>6

\* A token is among the first len just when its index is among those that its
\* rank keeps of them.
LEMMA KeptIsBelow ==
  ASSUME Batch, NEW len \in Nat, NEW q \in Nat, NEW s \in Group,
         NEW m \in 0 .. Run - 1, NEW tok, At(tok, q, s, m)
  PROVE  /\ Layout(dcp)!LocalLen(len, s) \in Nat
         /\ Run * q + m < Layout(dcp)!LocalLen(len, s) <=> tok < len
<1>0. PICK S, c, rest, x : S = dcp * Run /\ c = len \div S /\ rest = len % S /\ x = s * Run
  OBVIOUS
<1>1. /\ Run \in Nat \ {0} /\ S \in Nat \ {0} /\ x \in Nat /\ m \in Nat /\ m < Run
      /\ x + m \in 0 .. S - 1
  BY <1>0, DealSizes
<1>2. c \in Nat /\ rest \in 0 .. S - 1 /\ len = S * c + rest
  BY <1>0, <1>1, DivMod
<1>3. PICK over : over = IF rest > x THEN rest - x ELSE 0
  OBVIOUS
<1>4. PICK share : share = IF over < Run THEN over ELSE Run
  OBVIOUS
<1>5. Layout(dcp)!LocalLen(len, s) = c * Run + share
  BY <1>0, <1>3, <1>4 DEF Layout!LocalLen, Layout!Stride
<1>6. over \in Nat
  BY <1>1, <1>2, <1>3
<1>7. share \in Nat /\ share <= Run
  BY <1>1, <1>4, <1>6
<1>8. PICK a, b, d, e : a = Run * q /\ b = Run * c /\ d = S * q /\ e = S * c
  OBVIOUS
<1>9. a \in Nat /\ b \in Nat /\ d \in Nat /\ e \in Nat /\ c * Run = b
  BY <1>1, <1>2, <1>8
<1>10. tok = d + (x + m) /\ len = e + rest
  BY <1>0, <1>2, <1>8 DEF At
<1>11. a + m < b + share <=> tok < len
  <2>1. CASE q < c
    <3>1. d + S <= e /\ a + Run <= b
      BY <1>1, <1>2, <1>8, <2>1, MulStep
    <3> QED BY <1>1, <1>2, <1>7, <1>9, <1>10, <3>1
  <2>2. CASE c < q
    <3>1. e + S <= d /\ b + Run <= a
      BY <1>1, <1>2, <1>8, <2>2, MulStep
    <3> QED BY <1>1, <1>2, <1>7, <1>9, <1>10, <3>1
  <2>3. CASE q = c
    <3>1. a = b /\ d = e
      BY <1>8, <2>3
    <3>2. tok < len <=> x + m < rest
      BY <1>1, <1>2, <1>9, <1>10, <3>1
    <3>3. x + m < rest <=> m < over
      BY <1>1, <1>2, <1>3
    <3>4. m < over <=> m < share
      BY <1>1, <1>4, <1>6
    <3>5. a + m < b + share <=> m < share
      BY <1>1, <1>7, <1>9, <3>1
    <3> QED BY <3>2, <3>3, <3>4, <3>5
  <2> QED BY <1>2, <2>1, <2>2, <2>3
<1>12. Layout(dcp)!LocalLen(len, s) = b + share
  BY <1>5, <1>9
<1> QED BY <1>7, <1>8, <1>9, <1>11, <1>12

\* Whole rounds begin with a run of every rank.
LEMMA RoundBegins ==
  ASSUME Batch, NEW a \in Nat, NEW q \in Nat, NEW s \in Group,
         NEW m \in 0 .. Run - 1, NEW tok, At(tok, q, s, m)
  PROVE  /\ (dcp * Run) * a <= tok <=> a <= q
         /\ Run * a <= Run * q + m <=> a <= q
<1>0. PICK S, x : S = dcp * Run /\ x = s * Run + m
  OBVIOUS
<1>1. Run \in Nat \ {0} /\ S \in Nat \ {0} /\ x \in 0 .. S - 1 /\ m \in 0 .. Run - 1
  BY <1>0, DealSizes
<1>2. tok = S * q + x
  BY <1>0 DEF At
<1>3. PICK d, e, f, g : d = S * q /\ e = S * a /\ f = Run * q /\ g = Run * a
  OBVIOUS
<1>4. d \in Nat /\ e \in Nat /\ f \in Nat /\ g \in Nat
  BY <1>1, <1>3
<1>5. CASE a <= q
  <2>1. e <= d /\ g <= f
    BY <1>1, <1>3, <1>5, MulMono
  <2> QED BY <1>0, <1>1, <1>2, <1>3, <1>4, <1>5, <2>1
<1>6. CASE q < a
  <2>1. d + S <= e /\ f + Run <= g
    BY <1>1, <1>3, <1>6, MulStep
  <2>2. ~ (e <= d + x) /\ ~ (g <= f + m)
    BY <1>1, <1>4, <2>1
  <2> QED BY <1>0, <1>2, <1>3, <1>6, <2>2
<1> QED BY <1>5, <1>6

-----------------------------------------------------------------------------
(***************************************************************************)
(* Sums of lengths.                                                        *)
(***************************************************************************)
Sums(c, n, lens) == c[0] = 0 /\ \A k \in 1 .. n : c[k] = c[k - 1] + lens[k]

\* Cumulative sums never fall.
LEMMA SumsRise ==
  ASSUME NEW n \in Nat, NEW lens \in [1 .. n -> Nat], NEW c \in [0 .. n -> Nat],
         Sums(c, n, lens), NEW b \in 0 .. n, NEW a \in 0 .. b
  PROVE  c[a] <= c[b]
<1> DEFINE N == {m \in Nat : m <= n => \A k \in 0 .. m : c[k] <= c[m]}
<1>1. 0 \in N
  <2>1. \A k \in 0 .. 0 : k = 0
    OBVIOUS
  <2>2. c[0] \in Nat
    OBVIOUS
  <2> QED BY <2>1, <2>2
<1>2. ASSUME NEW m \in N PROVE m + 1 \in N
  <2> SUFFICES ASSUME m + 1 <= n, NEW k \in 0 .. m + 1 PROVE c[k] <= c[m + 1]
    BY <1>2
  <2>1. m \in Nat /\ m \in 0 .. n /\ m + 1 \in 1 .. n /\ m + 1 \in 0 .. n /\ (m + 1) - 1 = m
        /\ k \in 0 .. n
    BY <1>2
  <2>2. PICK x, y, z : x = c[m] /\ y = c[m + 1] /\ z = c[k]
    OBVIOUS
  <2>3. x \in Nat /\ y \in Nat /\ z \in Nat
    BY <2>1, <2>2
  <2>4. y = x + lens[m + 1] /\ lens[m + 1] \in Nat
    BY <2>1, <2>2 DEF Sums
  <2>5. CASE k = m + 1
    BY <2>2, <2>3, <2>5
  <2>6. CASE k # m + 1
    <3>1. k \in 0 .. m
      BY <2>1, <2>6
    <3>2. z <= x
      BY <1>2, <2>1, <2>2, <3>1
    <3> QED BY <2>2, <2>3, <2>4, <3>2
  <2> QED BY <2>5, <2>6
<1>3. N = Nat
  <2> HIDE DEF N
  <2>1. N \subseteq Nat
    BY DEF N
  <2> QED BY <1>1, <1>2, <2>1, SetInduction
<1>4. b \in Nat /\ b <= n
  OBVIOUS
<1>5. b \in N
  <2> HIDE DEF N
  <2> QED BY <1>3, <1>4
<1> QED BY <1>4, <1>5

\* A number below the whole is in no two parts.
LEMMA OnePart ==
  ASSUME NEW n \in Nat, NEW lens \in [1 .. n -> Nat], NEW c \in [0 .. n -> Nat],
         Sums(c, n, lens), NEW k \in 1 .. n, NEW q \in 1 .. n, NEW row \in Nat,
         c[k - 1] <= row, row < c[k], c[q - 1] <= row, row < c[q]
  PROVE  q = k
<1>1. ASSUME NEW a \in 1 .. n, NEW b \in 1 .. n, a < b, c[b - 1] <= row, row < c[a]
      PROVE  FALSE
  <2>1. a \in 0 .. b - 1 /\ b - 1 \in 0 .. n /\ a \in 0 .. n
    BY <1>1
  <2>2. c[a] <= c[b - 1]
    BY <2>1, SumsRise
  <2>3. PICK x, y : x = c[a] /\ y = c[b - 1]
    OBVIOUS
  <2>4. x \in Nat /\ y \in Nat
    BY <2>1, <2>3
  <2>5. x <= y /\ y <= row /\ row < x
    BY <1>1, <2>2, <2>3
  <2> QED BY <2>4, <2>5
<1>2. ~ (k < q) /\ ~ (q < k)
  BY <1>1
<1> QED BY <1>2

\* A whole without parts.
LEMMA NoPart ==
  ASSUME NEW n \in Nat, NEW lens \in [1 .. n -> Nat], NEW c \in [0 .. n -> Nat],
         Sums(c, n, lens), c[n] = 0, NEW k \in 1 .. n
  PROVE  lens[k] = 0
<1>1. k \in 0 .. n /\ n \in 0 .. n /\ k - 1 \in 0 .. n
  OBVIOUS
<1>2. c[k] <= c[n]
  BY <1>1, SumsRise
<1>3. c[k] \in Nat /\ c[k - 1] \in Nat /\ lens[k] \in Nat
  BY <1>1
<1>4. c[k] = c[k - 1] + lens[k]
  BY DEF Sums
<1> QED BY <1>2, <1>3, <1>4

\* Two wholes are the same only if no part of one is longer.
LEMMA SumsAgree ==
  ASSUME NEW n \in Nat, NEW lens \in [1 .. n -> Nat], NEW c \in [0 .. n -> Nat],
         Sums(c, n, lens), NEW more \in [1 .. n -> Nat], NEW d \in [0 .. n -> Nat],
         Sums(d, n, more), \A k \in 1 .. n : lens[k] <= more[k], c[n] = d[n],
         NEW k \in 1 .. n
  PROVE  lens[k] = more[k]
<1> DEFINE N == {m \in Nat : m <= n => \A a \in 0 .. m : c[a] + d[m] >= c[m] + d[a]}
<1>1. 0 \in N
  <2>1. \A a \in 0 .. 0 : a = 0
    OBVIOUS
  <2>2. c[0] \in Nat /\ d[0] \in Nat
    OBVIOUS
  <2> QED BY <2>1, <2>2
<1>2. ASSUME NEW m \in N PROVE m + 1 \in N
  <2> SUFFICES ASSUME m + 1 <= n, NEW a \in 0 .. m + 1
               PROVE  c[a] + d[m + 1] >= c[m + 1] + d[a]
    BY <1>2
  <2>1. m \in Nat /\ m \in 0 .. n /\ m + 1 \in 1 .. n /\ m + 1 \in 0 .. n /\ (m + 1) - 1 = m
        /\ a \in 0 .. n
    BY <1>2
  <2>2. PICK x, y, x1, y1, ca, da : /\ x = c[m] /\ y = d[m] /\ x1 = c[m + 1] /\ y1 = d[m + 1]
                                    /\ ca = c[a] /\ da = d[a]
    OBVIOUS
  <2>3. x \in Nat /\ y \in Nat /\ x1 \in Nat /\ y1 \in Nat /\ ca \in Nat /\ da \in Nat
    BY <2>1, <2>2
  <2>4. /\ x1 = x + lens[m + 1] /\ y1 = y + more[m + 1] /\ lens[m + 1] <= more[m + 1]
        /\ lens[m + 1] \in Nat /\ more[m + 1] \in Nat
    BY <2>1, <2>2 DEF Sums
  <2>5. CASE a = m + 1
    BY <2>2, <2>3, <2>5
  <2>6. CASE a # m + 1
    <3>1. a \in 0 .. m
      BY <2>1, <2>6
    <3>2. ca + y >= x + da
      BY <1>2, <2>1, <2>2, <3>1
    <3>3. PICK l, l1 : l = lens[m + 1] /\ l1 = more[m + 1]
      OBVIOUS
    <3>4. x1 = x + l /\ y1 = y + l1 /\ l <= l1 /\ l \in Nat /\ l1 \in Nat
      BY <2>4, <3>3
    <3>5. ca + y1 >= x1 + da
      BY <2>3, <3>2, <3>4
    <3> QED BY <2>2, <3>5
  <2> QED BY <2>5, <2>6
<1>3. N = Nat
  <2> HIDE DEF N
  <2>1. N \subseteq Nat
    BY DEF N
  <2> QED BY <1>1, <1>2, <2>1, SetInduction
<1>4. \A m \in 0 .. n : \A a \in 0 .. m : c[a] + d[m] >= c[m] + d[a]
  <2>1. \A m \in Nat : m \in N
    <3> HIDE DEF N
    <3> QED BY <1>3
  <2> QED BY <2>1
<1>5. PICK w, x, y, x1, y1 : /\ w = c[n] /\ x = c[k - 1] /\ y = d[k - 1]
                             /\ x1 = c[k] /\ y1 = d[k]
  OBVIOUS
<1>6. k \in 0 .. n /\ k - 1 \in 0 .. k /\ k - 1 \in 0 .. n /\ n \in 0 .. n /\ 0 \in 0 .. n
  OBVIOUS
<1>7. w \in Nat /\ x \in Nat /\ y \in Nat /\ x1 \in Nat /\ y1 \in Nat
  BY <1>5, <1>6
<1>8. x1 + w >= w + y1
  <2>1. c[k] + d[n] >= c[n] + d[k]
    BY <1>4, <1>6
  <2> QED BY <1>5, <2>1
<1>9. y >= x
  <2>1. c[0] + d[k - 1] >= c[k - 1] + d[0]
    BY <1>4, <1>6
  <2>2. c[0] = 0 /\ d[0] = 0
    BY DEF Sums
  <2> QED BY <1>5, <1>7, <2>1, <2>2
<1>10. x1 = x + lens[k] /\ y1 = y + more[k] /\ lens[k] <= more[k]
       /\ lens[k] \in Nat /\ more[k] \in Nat
  BY <1>5 DEF Sums
<1>11. PICK l, l1 : l = lens[k] /\ l1 = more[k]
  OBVIOUS
<1>12. x1 = x + l /\ y1 = y + l1 /\ l <= l1 /\ l \in Nat /\ l1 \in Nat
  BY <1>10, <1>11
<1>13. l = l1
  BY <1>7, <1>8, <1>9, <1>12
<1> QED BY <1>11, <1>13

\* Parts of which only the first few are not empty, and none longer than size.
LEMMA SumsBound ==
  ASSUME NEW n \in Nat, NEW lens \in [1 .. n -> Nat], NEW c \in [0 .. n -> Nat],
         Sums(c, n, lens), NEW few \in Nat, NEW size \in Nat,
         \A k \in 1 .. n : lens[k] <= size /\ (few < k => lens[k] = 0)
  PROVE  c[n] <= size * few
<1> DEFINE N == {m \in Nat : m <= n => /\ c[m] <= size * few
                                       /\ c[m] <= size * m}
<1>0. size * few \in Nat /\ size * 0 = 0
  OBVIOUS
<1>1. 0 \in N
  BY <1>0 DEF Sums
<1>2. ASSUME NEW m \in N PROVE m + 1 \in N
  <2> SUFFICES ASSUME m + 1 <= n
               PROVE  c[m + 1] <= size * few /\ c[m + 1] <= size * (m + 1)
    BY <1>2
  <2>1. m \in Nat /\ m \in 0 .. n /\ m + 1 \in 1 .. n /\ m + 1 \in 0 .. n /\ (m + 1) - 1 = m
    BY <1>2
  <2>2. PICK x, y, len, s : x = c[m] /\ y = c[m + 1] /\ len = lens[m + 1] /\ s = size * m
    OBVIOUS
  <2>3. x \in Nat /\ y \in Nat /\ len \in Nat /\ s \in Nat
    BY <2>1, <2>2
  <2>4. y = x + len
    BY <2>1, <2>2 DEF Sums
  <2>5. len <= size /\ (few < m + 1 => len = 0)
    BY <2>1, <2>2
  <2>6. x <= size * few /\ x <= s
    BY <1>2, <2>1, <2>2
  <2>7. size * (m + 1) = s + size
    BY <2>1, <2>2
  <2>8. y <= size * (m + 1)
    BY <2>3, <2>4, <2>5, <2>6, <2>7
  <2>9. y <= size * few
    <3>1. CASE few < m + 1
      BY <2>3, <2>4, <2>5, <2>6, <3>1
    <3>2. CASE m + 1 <= few
      <4>1. size * (m + 1) <= size * few
        BY <2>1, <3>2, MulMono
      <4>2. PICK u, v : u = size * (m + 1) /\ v = size * few
        OBVIOUS
      <4>3. u \in Nat /\ v \in Nat /\ y <= u /\ u <= v
        BY <1>0, <2>1, <2>8, <4>1, <4>2
      <4>4. y <= v
        BY <2>3, <4>3
      <4> QED BY <4>2, <4>4
    <3> QED BY <2>1, <3>1, <3>2
  <2> QED BY <2>2, <2>8, <2>9
<1>3. N = Nat
  <2> HIDE DEF N
  <2>1. N \subseteq Nat
    BY DEF N
  <2> QED BY <1>1, <1>2, <2>1, SetInduction
<1>4. n \in N
  <2> HIDE DEF N
  <2> QED BY <1>3
<1> QED BY <1>4

-----------------------------------------------------------------------------
(***************************************************************************)
(* The chunks, and the rounds of the deal that cover one.                  *)
(***************************************************************************)
LEMMA PrefillIs ==
  ASSUME Batch, NEW p \in Prefills
  PROVE  Context(p) \in Nat /\ prefills[p].query \in Nat \ {0}
         /\ SeqLen(p) = Context(p) + prefills[p].query
<1>1. prefills \in Seq([context : Nat, query : Nat \ {0}]) /\ p \in 1 .. Len(prefills)
  BY DEF Batch, Prefills
<1>2. prefills[p] \in [context : Nat, query : Nat \ {0}]
  BY <1>1, ElementOfSeq
<1> QED BY <1>2 DEF Context, SeqLen

\* The prefills are numbered, and no more than the builder's limit.
LEMMA PrefillCount ==
  ASSUME Batch
  PROVE  Len(prefills) \in Nat /\ Len(prefills) <= MaxNumSeqs /\ Prefills = 1 .. Len(prefills)
<1>1. Len(prefills) \in Nat /\ Len(decodes) \in Nat
  BY DEF Batch
<1>2. MaxNumSeqs \in Nat
  BY GeometryAssumption
<1> QED BY <1>1, <1>2 DEF Batch, Prefills

\* Prefills with cached tokens come first.
LEMMA ContextFirst ==
  ASSUME Batch, Ordered
  PROVE  /\ WithContext \in Nat /\ WithContext <= Len(prefills)
         /\ \A p \in Prefills : p <= WithContext <=> Context(p) > 0
<1> DEFINE K == {p \in Prefills : Context(p) > 0}
<1>0. PICK n : n = Len(prefills)
  OBVIOUS
<1>1. n \in Nat /\ Prefills = 1 .. n
  BY <1>0, PrefillCount
<1>2. \E k \in 0 .. n : K = 1 .. k
  <2>1. CASE K = {}
    BY <1>1, <2>1
  <2>2. CASE K # {}
    <3>1. K \subseteq Nat /\ \A x \in K : x <= n
      BY <1>1
    <3>2. PICK k : k = Max(K)
      OBVIOUS
    <3>3. k \in K /\ \A x \in K : x <= k
      <4> HIDE DEF K
      <4> QED BY <1>1, <2>2, <3>1, <3>2, LargestIs
    <3>4. \A p \in 1 .. k : p \in K
      <4> TAKE p \in 1 .. k
      <4>1. k \in Prefills /\ Context(k) > 0 /\ p \in Prefills
        BY <1>1, <3>3
      <4>2. Context(p) \in Nat /\ Context(k) \in Nat
        BY <4>1, PrefillIs
      <4>3. Context(p) # 0
        <5> SUFFICES ASSUME Context(p) = 0 PROVE FALSE
          OBVIOUS
        <5>1. p # k
          BY <4>1, <4>2
        <5>2. p < k
          BY <1>1, <4>1, <5>1
        <5> QED BY <4>1, <4>2, <5>2 DEF Ordered
      <4> QED BY <4>1, <4>2, <4>3
    <3>5. \A x \in K : x \in 1 .. k
      BY <1>1, <3>3
    <3>6. k \in 0 .. n
      BY <1>1, <3>3
    <3> HIDE DEF K
    <3> QED BY <3>4, <3>5, <3>6
  <2> QED BY <2>1, <2>2
<1>3. PICK k \in 0 .. n : K = 1 .. k
  BY <1>2
<1>4. WithContext = Cardinality(1 .. k)
  BY <1>3 DEF WithContext
<1>5. Cardinality(1 .. k) = k
  <2>1. Cardinality(1 .. k) = IF 1 > k THEN 0 ELSE k - 1 + 1
    <3>1. 1 \in Int /\ k \in Int
      BY <1>1
    <3> QED BY <3>1, FS_Interval
  <2> QED BY <1>1, <2>1
<1>6. WithContext = k
  BY <1>4, <1>5
<1>7. \A p \in Prefills : p <= k <=> Context(p) > 0
  <2> TAKE p \in Prefills
  <2>1. Context(p) > 0 <=> p \in K
    OBVIOUS
  <2> HIDE DEF K
  <2> QED BY <1>1, <1>3, <2>1
<1> HIDE DEF K
<1> QED BY <1>0, <1>1, <1>6, <1>7

\* The configured workspace has a page for every request.
LEMMA WorkspaceHolds ==
  WorkspaceSize \in Nat /\ PageSize * MaxNumSeqs <= WorkspaceSize
<1>1. /\ PageSize \in Nat \ {0} /\ MaxNumSeqs \in Nat \ {0}
      /\ MaxModelLen \in Nat \ {0} /\ WorkspaceCap \in Nat \ {0}
  BY GeometryAssumption
<1>2. PICK a, b, d : /\ a = 8 * MaxModelLen /\ b = 4 * MaxNumSeqs * PageSize
                     /\ d = MaxNumSeqs * PageSize
  OBVIOUS
<1>3. a \in Nat /\ b \in Nat /\ d \in Nat /\ PageSize * MaxNumSeqs = d
  <2>1. 4 * MaxNumSeqs \in Nat
    BY <1>1
  <2> QED BY <1>1, <1>2, <2>1
<1>4. PICK wanted : wanted = Max({a, b})
  OBVIOUS
<1>5. wanted \in Nat
  BY <1>3, <1>4, LargerOf
<1>6. PICK most : most = Min({wanted, WorkspaceCap})
  OBVIOUS
<1>7. most \in Nat
  BY <1>1, <1>5, <1>6, SmallerOf
<1>8. WorkspaceSize = Max({most, d})
  BY <1>2, <1>4, <1>6 DEF WorkspaceSize
<1> QED BY <1>3, <1>7, <1>8, LargerOf

\* A rank's share of a chunk is what it has of some whole rounds of the deal,
\* enough of them to cover the chunk; and as many chunks as there are prefills
\* with context fit the workspace.
LEMMA ChunkGeometry ==
  ASSUME Batch, Ordered, HasContext
  PROVE  /\ MaxContextChunk \in Nat \ {0} /\ LocalChunk \in Nat \ {0}
         /\ MaxContextChunk * WithContext <= WorkspaceSize
         /\ \E m \in Nat \ {0} :
              LocalChunk = Run * m /\ MaxContextChunk <= (dcp * Run) * m
<1>0. PICK S, W, size, z, pages :
        /\ S = dcp * Run /\ W = WithContext /\ size = WorkspaceSize /\ z = size \div W
        /\ pages = z \div PageSize
  OBVIOUS
<1>1. /\ W \in Nat \ {0} /\ W <= MaxNumSeqs /\ MaxNumSeqs \in Nat /\ PageSize \in Nat \ {0}
      /\ size \in Nat /\ PageSize * MaxNumSeqs <= size
      /\ S \in Nat \ {0} /\ Run \in Nat \ {0}
  <2>1. W \in Nat /\ W <= Len(prefills)
    BY <1>0, ContextFirst
  <2>2. W > 0
    BY <1>0 DEF HasContext
  <2>3. Len(prefills) \in Nat /\ Len(prefills) <= MaxNumSeqs /\ MaxNumSeqs \in Nat
    BY PrefillCount, GeometryAssumption
  <2>4. PageSize \in Nat \ {0}
    BY GeometryAssumption
  <2>5. size \in Nat /\ PageSize * MaxNumSeqs <= size
    BY <1>0, WorkspaceHolds
  <2>6. S \in Nat \ {0} /\ Run \in Nat \ {0}
    BY <1>0, DealSizes
  <2>7. W \in Nat \ {0} /\ W <= MaxNumSeqs
    BY <2>1, <2>2, <2>3
  <2> QED BY <2>3, <2>4, <2>5, <2>6, <2>7
<1>2. z \in Nat /\ size % W \in 0 .. W - 1 /\ size = W * z + (size % W)
  BY <1>0, <1>1, DivMod
<1>3. W * z <= size /\ W * z \in Nat
  BY <1>1, <1>2
<1>4. PageSize <= z
  <2> SUFFICES ASSUME z < PageSize PROVE FALSE
    BY <1>1, <1>2
  <2>1. W * z + W <= W * PageSize
    BY <1>1, <1>2, MulStep
  <2>2. PageSize * W <= PageSize * MaxNumSeqs
    BY <1>1, MulMono
  <2>3. PageSize * W = W * PageSize /\ PageSize * W \in Nat /\ PageSize * MaxNumSeqs \in Nat
    BY <1>1
  <2>4. PICK rest : rest = size % W
    OBVIOUS
  <2>5. rest \in Nat /\ rest < W /\ size = W * z + rest
    BY <1>1, <1>2, <2>4
  <2> QED BY <1>1, <1>3, <2>1, <2>2, <2>3, <2>5
<1>5. PICK over : over = z % PageSize
  OBVIOUS
<1>6. pages \in Nat /\ over \in 0 .. PageSize - 1 /\ z = PageSize * pages + over
  BY <1>0, <1>1, <1>2, <1>5, DivMod
<1>7. pages # 0
  <2> SUFFICES ASSUME pages = 0 PROVE FALSE
    OBVIOUS
  <2>1. PageSize * pages = 0
    BY <1>1
  <2> QED BY <1>1, <1>4, <1>6, <2>1
<1>8. PageSize * pages \in Nat /\ PageSize * pages <= z
  BY <1>1, <1>6
<1>9. MaxContextChunk = PageSize * pages
  <2>1. MaxContextChunk = pages * PageSize
    BY <1>0 DEF MaxContextChunk
  <2> QED BY <1>1, <1>6, <2>1
<1>10. MaxContextChunk * W <= size
  <2>1. W * MaxContextChunk <= W * z
    BY <1>1, <1>2, <1>8, <1>9, MulMono
  <2>2. W * MaxContextChunk = MaxContextChunk * W /\ MaxContextChunk * W \in Nat
    BY <1>1, <1>8, <1>9
  <2> QED BY <1>1, <1>3, <2>1, <2>2
<1>11. MaxContextChunk \in Nat \ {0}
  <2>1. PageSize * 1 <= PageSize * pages
    BY <1>1, <1>6, <1>7, MulMono
  <2> QED BY <1>1, <1>8, <1>9, <2>1
<1>12. PICK m : m = Cdiv(MaxContextChunk, S)
  OBVIOUS
<1>13. m \in Nat /\ MaxContextChunk <= S * m
  BY <1>1, <1>11, <1>12, CdivCovers
<1>14. m # 0
  <2> SUFFICES ASSUME m = 0 PROVE FALSE
    OBVIOUS
  <2>1. S * m = 0
    BY <1>1
  <2> QED BY <1>11, <1>13, <2>1
<1>15. LocalChunk = Run * m
  <2>1. LocalChunk = m * Run
    BY <1>0, <1>12 DEF LocalChunk
  <2> QED BY <1>1, <1>13, <2>1
<1>16. LocalChunk \in Nat \ {0}
  <2>1. Run * 1 <= Run * m
    BY <1>1, <1>13, <1>14, MulMono
  <2>2. Run * m \in Nat
    BY <1>1, <1>13
  <2> QED BY <1>1, <1>15, <2>1, <2>2
<1>17. m \in Nat \ {0}
  BY <1>13, <1>14
<1>18. MaxContextChunk <= (dcp * Run) * m
  BY <1>0, <1>13
<1>19. MaxContextChunk * WithContext <= WorkspaceSize
  BY <1>0, <1>10
<1> QED BY <1>11, <1>15, <1>16, <1>17, <1>18, <1>19

\* The tokens the ranks' shares of a chunk are dealt from: whole rounds.
Round == dcp * LocalChunk

LEMMA RoundIs ==
  ASSUME Batch, Ordered, HasContext
  PROVE  /\ Round \in Nat \ {0} /\ MaxContextChunk <= Round
         /\ \E m \in Nat \ {0} : Round = (dcp * Run) * m /\ LocalChunk = Run * m
<1>1. PICK m \in Nat \ {0} :
        LocalChunk = Run * m /\ MaxContextChunk <= (dcp * Run) * m
  BY ChunkGeometry
<1>2. dcp \in Nat \ {0} /\ Run \in Nat \ {0} /\ MaxContextChunk \in Nat \ {0}
  BY DealSizes, ChunkGeometry
<1>3. dcp * (Run * m) = (dcp * Run) * m /\ dcp * (Run * m) \in Nat
  BY <1>2
<1>4. Round = (dcp * Run) * m /\ Round \in Nat
  BY <1>1, <1>3 DEF Round
<1>5. Round # 0
  BY <1>1, <1>2, <1>4
<1> QED BY <1>1, <1>4, <1>5

-----------------------------------------------------------------------------
(***************************************************************************)
(* The rows of a chunk.                                                    *)
(***************************************************************************)
LEMMA SliceIs ==
  ASSUME NEW len \in Nat, NEW start \in Nat, NEW size \in Nat
  PROVE  /\ Slice(len, start, size) \in Nat /\ Slice(len, start, size) <= size
         /\ len = 0 => Slice(len, start, size) = 0
         /\ \A j \in Nat : j < Slice(len, start, size) <=> start + j < len /\ j < size
<1>1. CASE len <= start
  <2>1. Slice(len, start, size) = 0
    BY <1>1 DEF Slice
  <2> QED BY <1>1, <2>1
<1>2. CASE ~ (len <= start)
  <2>1. PICK left : left = len - start
    OBVIOUS
  <2>2. left \in Nat
    BY <1>2, <2>1
  <2>3. Slice(len, start, size) = IF left <= size THEN left ELSE size
    BY <1>2, <2>1, <2>2, SmallerOf DEF Slice
  <2> QED BY <1>2, <2>1, <2>2, <2>3
<1> QED BY <1>1, <1>2

ChunkLens(i) == [q \in Prefills |-> ChunkLen(i, q)]
PaddedLens(i) == [q \in Prefills |-> PaddedLen(i, q)]

\* A row is in the part that is to have it.
InPart(c, n, k, j, row) ==
  /\ row \in Nat /\ c[k - 1] \in Nat /\ row - c[k - 1] = j
  /\ c[k - 1] <= row /\ row < c[k] /\ row < c[n]
  /\ \A q \in 1 .. n : c[q - 1] <= row /\ row < c[q] => q = k

\* A row of the workspace lies in the part of one prefill: the one whose sums
\* enclose it.
LEMMA FindsPart ==
  ASSUME NEW n \in Nat, NEW lens \in [1 .. n -> Nat], NEW c \in [0 .. n -> Nat],
         Sums(c, n, lens), NEW k \in 1 .. n, NEW j \in Nat, j < lens[k]
  PROVE  InPart(c, n, k, j, c[k - 1] + j)
<1> SUFFICES ASSUME NEW row, row = c[k - 1] + j PROVE InPart(c, n, k, j, row)
  OBVIOUS
<1>1. k \in 0 .. n /\ n \in 0 .. n /\ k - 1 \in 0 .. n /\ k \in 0 .. n
  OBVIOUS
<1>2. PICK x, y, z : x = c[k - 1] /\ y = c[k] /\ z = c[n]
  OBVIOUS
<1>3. x \in Nat /\ y \in Nat /\ z \in Nat /\ lens[k] \in Nat
  BY <1>1, <1>2
<1>4. y = x + lens[k]
  BY <1>2 DEF Sums
<1>5. y <= z
  BY <1>1, <1>2, SumsRise
<1>6. row \in Nat /\ row - x = j /\ x <= row /\ row < y /\ row < z
  BY <1>2, <1>3, <1>4, <1>5
<1>7. \A q \in 1 .. n : c[q - 1] <= row /\ row < c[q] => q = k
  BY <1>2, <1>6, OnePart
<1> QED BY <1>2, <1>3, <1>6, <1>7 DEF InPart

\* The sums over a chunk.
LEMMA ChunkSums ==
  ASSUME Batch, Ordered, HasContext, NEW i \in Nat
  PROVE  \E c \in [0 .. Len(prefills) -> Nat] :
           /\ c = CuSum(ChunkLens(i))
           /\ ChunkLens(i) \in [1 .. Len(prefills) -> Nat]
           /\ Sums(c, Len(prefills), ChunkLens(i))
           /\ \A p \in Prefills : CuLen(i, p) = c[p - 1] /\ CuLen(i, p + 1) = c[p]
           /\ ChunkTotal(i) = c[Len(prefills)]
<1>1. PICK n : n = Len(prefills)
  OBVIOUS
<1>2. n \in Nat /\ Prefills = 1 .. n
  BY <1>1, PrefillCount
<1>3. \A p \in Prefills : ChunkLen(i, p) \in Nat
  <2> TAKE p \in Prefills
  <2>1. PICK start : start = i * MaxContextChunk
    OBVIOUS
  <2>2. Context(p) \in Nat /\ MaxContextChunk \in Nat
    BY ChunkGeometry, PrefillIs
  <2>3. start \in Nat
    BY <2>1, <2>2
  <2> QED BY <2>1, <2>2, <2>3, SliceIs DEF ChunkLen
<1>4. ChunkLens(i) \in [1 .. n -> Nat]
  BY <1>2, <1>3 DEF ChunkLens
<1>5. PICK c : c = CuSum(ChunkLens(i))
  OBVIOUS
<1>6. c \in [0 .. n -> Nat] /\ Sums(c, n, ChunkLens(i))
  BY <1>2, <1>4, <1>5, CuSumIs DEF Sums
<1>7. \A k : CuLen(i, k) = c[k - 1]
  BY <1>5 DEF CuLen, ChunkLens
<1>8. \A p \in Prefills : CuLen(i, p) = c[p - 1] /\ CuLen(i, p + 1) = c[p]
  <2> TAKE p \in Prefills
  <2>1. (p + 1) - 1 = p
    BY <1>2
  <2> QED BY <1>7, <2>1
<1>9. ChunkTotal(i) = c[n]
  <2>1. (n + 1) - 1 = n
    BY <1>2
  <2> QED BY <1>1, <1>7, <2>1 DEF ChunkTotal
<1> QED BY <1>1, <1>4, <1>5, <1>6, <1>8, <1>9

\* PaddedCu is the cumulative sum of the padded lengths.
LEMMA PaddedSums ==
  ASSUME Batch, Ordered, HasContext, NEW i \in Nat
  PROVE  \E c \in [0 .. Len(prefills) -> Nat] :
           /\ PaddedLens(i) \in [1 .. Len(prefills) -> Nat]
           /\ Sums(c, Len(prefills), PaddedLens(i))
           /\ \A p \in Prefills : PaddedCu(i, p) = c[p - 1] /\ PaddedCu(i, p + 1) = c[p]
           /\ PaddedCu(i, Len(prefills) + 1) = c[Len(prefills)]
<1>1. PICK n : n = Len(prefills)
  OBVIOUS
<1>2. n \in Nat /\ Prefills = 1 .. n
  BY <1>1, PrefillCount
<1>3. \A p \in Prefills : PaddedLen(i, p) \in Nat
  <2> TAKE p \in Prefills
  <2>1. PICK start, share : start = i * LocalChunk /\ share = PaddedLocalContext(p)
    OBVIOUS
  <2>2. Context(p) \in Nat /\ LocalChunk \in Nat
    BY ChunkGeometry, PrefillIs
  <2>3. start \in Nat
    BY <2>1, <2>2
  <2>4. share \in Nat
    <3>1. PICK S, rounds : S = dcp * Run /\ rounds = Cdiv(Context(p), S)
      OBVIOUS
    <3>2. S \in Nat \ {0} /\ Run \in Nat
      BY <3>1, DealSizes
    <3>3. rounds \in Nat
      BY <2>2, <3>1, <3>2, CdivCovers
    <3>4. share = rounds * Run
      BY <2>1, <3>1 DEF PaddedLocalContext
    <3> QED BY <3>2, <3>3, <3>4
  <2> QED BY <2>1, <2>2, <2>3, <2>4, SliceIs DEF PaddedLen
<1>4. PaddedLens(i) \in [1 .. n -> Nat]
  BY <1>2, <1>3 DEF PaddedLens
<1>5. PICK c : c = CuSum(PaddedLens(i))
  OBVIOUS
<1>6. c \in [0 .. n -> Nat] /\ Sums(c, n, PaddedLens(i))
  BY <1>2, <1>4, <1>5, CuSumIs DEF Sums
<1>7. \A k : PaddedCu(i, k) = c[k - 1]
  BY <1>5 DEF PaddedCu, PaddedLens
<1>8. \A p \in Prefills : PaddedCu(i, p) = c[p - 1] /\ PaddedCu(i, p + 1) = c[p]
  <2> TAKE p \in Prefills
  <2>1. (p + 1) - 1 = p
    BY <1>2
  <2> QED BY <1>7, <2>1
<1>9. PaddedCu(i, n + 1) = c[n]
  <2>1. (n + 1) - 1 = n
    BY <1>2
  <2> QED BY <1>7, <2>1
<1> QED BY <1>1, <1>4, <1>6, <1>8, <1>9

\* Without a group: where a chunk's tokens are gathered to.
LEMMA PackedRow ==
  ASSUME Batch, Ordered, HasContext, ~ (dcp > 1), NEW i \in Nat, NEW r \in Group,
         NEW p \in Prefills, NEW j \in Nat, j < ChunkLen(i, p)
  PROVE  /\ CuLen(i, p) + j \in Nat /\ CuLen(i, p) + j < Toks(i)
         /\ GatherRow(r, i, CuLen(i, p) + j) = Cached(p, i * MaxContextChunk + j)
<1>1. PICK n : n = Len(prefills)
  OBVIOUS
<1>2. n \in Nat /\ Prefills = 1 .. n
  BY <1>1, PrefillCount
<1>3. PICK c \in [0 .. n -> Nat] :
        /\ ChunkLens(i) \in [1 .. n -> Nat]
        /\ Sums(c, n, ChunkLens(i))
        /\ \A q \in Prefills : CuLen(i, q) = c[q - 1] /\ CuLen(i, q + 1) = c[q]
        /\ ChunkTotal(i) = c[n]
  BY <1>1, ChunkSums
<1>4. PICK lens, row : lens = ChunkLens(i) /\ row = c[p - 1] + j
  OBVIOUS
<1>5. /\ lens \in [1 .. n -> Nat] /\ Sums(c, n, lens)
      /\ p \in 1 .. n /\ j < lens[p]
  <2>1. lens[p] = ChunkLen(i, p)
    BY <1>4 DEF ChunkLens
  <2> QED BY <1>2, <1>3, <1>4, <2>1
<1>6. /\ row \in Nat /\ c[p - 1] \in Nat /\ row - c[p - 1] = j
      /\ c[p - 1] <= row /\ row < c[p] /\ row < c[n]
      /\ \A q \in 1 .. n : c[q - 1] <= row /\ row < c[q] => q = p
  <2>1. InPart(c, n, p, j, row)
    BY <1>2, <1>4, <1>5, FindsPart
  <2> QED BY <2>1 DEF InPart
<1>7. CuLen(i, p) = c[p - 1] /\ Toks(i) = c[n]
  BY <1>3 DEF Toks
<1>8. p = CHOOSE q \in Prefills : CuLen(i, q) <= row /\ row < CuLen(i, q + 1)
  BY <1>2, <1>3, <1>6
<1>9. GatherRow(r, i, row) = Cached(p, i * MaxContextChunk + row - CuLen(i, p))
  BY <1>8 DEF GatherRow
<1>10. i * MaxContextChunk + row - CuLen(i, p) = i * MaxContextChunk + j
  <2>1. PICK start, x : start = i * MaxContextChunk /\ x = c[p - 1]
    OBVIOUS
  <2>2. MaxContextChunk \in Nat
    BY ChunkGeometry
  <2>3. start \in Nat /\ x \in Nat /\ row = x + j
    BY <1>4, <1>6, <2>1, <2>2
  <2>4. start + row - x = start + j
    BY <2>3
  <2> QED BY <1>7, <2>1, <2>4
<1> QED BY <1>4, <1>6, <1>7, <1>9, <1>10

\* With one: where a rank's own are.
LEMMA ShareRow ==
  ASSUME Batch, Ordered, HasContext, dcp > 1, NEW i \in Nat, NEW r \in Group,
         NEW p \in Prefills, NEW j \in Nat, j < PaddedLen(i, p)
  PROVE  /\ PaddedCu(i, p) \in Nat /\ PaddedCu(i, p) + j < Toks(i) /\ Toks(i) \in Nat
         /\ GatherRow(r, i, PaddedCu(i, p) + j) = LocalRecord(r, p, i * LocalChunk + j)
<1>1. PICK n : n = Len(prefills)
  OBVIOUS
<1>2. n \in Nat /\ Prefills = 1 .. n
  BY <1>1, PrefillCount
<1>3. PICK c \in [0 .. n -> Nat] :
        /\ PaddedLens(i) \in [1 .. n -> Nat]
        /\ Sums(c, n, PaddedLens(i))
        /\ \A q \in Prefills : PaddedCu(i, q) = c[q - 1] /\ PaddedCu(i, q + 1) = c[q]
        /\ PaddedCu(i, n + 1) = c[n]
  BY <1>1, PaddedSums
<1>4. PICK lens, row : lens = PaddedLens(i) /\ row = c[p - 1] + j
  OBVIOUS
<1>5. /\ lens \in [1 .. n -> Nat] /\ Sums(c, n, lens)
      /\ p \in 1 .. n /\ j < lens[p]
  <2>1. lens[p] = PaddedLen(i, p)
    BY <1>4 DEF PaddedLens
  <2> QED BY <1>2, <1>3, <1>4, <2>1
<1>6. /\ row \in Nat /\ c[p - 1] \in Nat /\ row - c[p - 1] = j
      /\ c[p - 1] <= row /\ row < c[p] /\ row < c[n]
      /\ \A q \in 1 .. n : c[q - 1] <= row /\ row < c[q] => q = p
  <2>1. InPart(c, n, p, j, row)
    BY <1>2, <1>4, <1>5, FindsPart
  <2> QED BY <2>1 DEF InPart
<1>7. PaddedCu(i, p) = c[p - 1] /\ Toks(i) = c[n] /\ c[n] \in Nat
  BY <1>1, <1>2, <1>3 DEF Toks
<1>8. p = CHOOSE q \in Prefills : PaddedCu(i, q) <= row /\ row < PaddedCu(i, q + 1)
  BY <1>2, <1>3, <1>6
<1>9. GatherRow(r, i, row) = LocalRecord(r, p, i * LocalChunk + row - PaddedCu(i, p))
  BY <1>8 DEF GatherRow
<1>10. i * LocalChunk + row - PaddedCu(i, p) = i * LocalChunk + j
  <2>1. PICK start, x : start = i * LocalChunk /\ x = c[p - 1]
    OBVIOUS
  <2>2. LocalChunk \in Nat
    BY ChunkGeometry
  <2>3. start \in Nat /\ x \in Nat /\ row = x + j
    BY <1>4, <1>6, <2>1, <2>2
  <2>4. start + row - x = start + j
    BY <2>3
  <2> QED BY <1>7, <2>1, <2>4
<1> QED BY <1>4, <1>6, <1>7, <1>9, <1>10

-----------------------------------------------------------------------------
(***************************************************************************)
(* The tokens of a chunk, and the part of them each rank keeps.            *)
(***************************************************************************)
ChunkTokens(i, p) ==
  Tokens(p, i * MaxContextChunk, i * MaxContextChunk + ChunkLen(i, p) - 1)

\* The same for the rounds.
RoundLen(i, p) == Slice(Context(p), i * Round, Round)

RoundTokens(i, p) == Tokens(p, i * Round, i * Round + RoundLen(i, p) - 1)

ShareTokens(i, p, s) ==
  {<<p, Layout(dcp)!GlobalPosition(i * LocalChunk + j, s)>> :
     j \in 0 .. LocalChunkLen(i, p, s) - 1}

\* The tokens of chunk i: those of the context from i whole chunks on, up to one
\* chunk of them.
LEMMA ChunkLenIs ==
  ASSUME Batch, Ordered, HasContext, NEW i \in Nat, NEW p \in Prefills
  PROVE  /\ ChunkLen(i, p) \in Nat /\ i * MaxContextChunk \in Nat
         /\ ChunkLen(i, p) <= MaxContextChunk
         /\ Context(p) = 0 => ChunkLen(i, p) = 0
         /\ \A j \in Nat : j < ChunkLen(i, p) <=>
              i * MaxContextChunk + j < Context(p) /\ j < MaxContextChunk
<1>1. MaxContextChunk \in Nat /\ Context(p) \in Nat
  BY ChunkGeometry, PrefillIs
<1>2. PICK start : start = i * MaxContextChunk
  OBVIOUS
<1>3. start \in Nat
  BY <1>1, <1>2
<1>4. PICK len, M, ctx : len = ChunkLen(i, p) /\ M = MaxContextChunk /\ ctx = Context(p)
  OBVIOUS
<1>5. len = Slice(ctx, start, M) /\ ctx \in Nat /\ M \in Nat
  BY <1>1, <1>2, <1>4 DEF ChunkLen
<1>6. /\ len \in Nat /\ len <= M /\ (ctx = 0 => len = 0)
      /\ \A j \in Nat : j < len <=> start + j < ctx /\ j < M
  BY <1>3, <1>5, SliceIs
<1> QED BY <1>2, <1>3, <1>4, <1>6

LEMMA RoundLenIs ==
  ASSUME Batch, Ordered, HasContext, NEW i \in Nat, NEW p \in Prefills
  PROVE  /\ RoundLen(i, p) \in Nat /\ i * Round \in Nat
         /\ \A j \in Nat : j < RoundLen(i, p) <=> i * Round + j < Context(p) /\ j < Round
<1>1. Round \in Nat /\ Context(p) \in Nat
  BY RoundIs, PrefillIs
<1>2. PICK start, len, M, ctx : /\ start = i * Round /\ len = RoundLen(i, p)
                                /\ M = Round /\ ctx = Context(p)
  OBVIOUS
<1>3. start \in Nat /\ ctx \in Nat /\ M \in Nat
  BY <1>1, <1>2
<1>4. len = Slice(ctx, start, M)
  BY <1>2 DEF RoundLen
<1>5. len \in Nat /\ \A j \in Nat : j < len <=> start + j < ctx /\ j < M
  BY <1>3, <1>4, SliceIs
<1> QED BY <1>2, <1>3, <1>5

\* What a rank has of a chunk is cut from what it has of the context.
LEMMA ShareIndex ==
  ASSUME Batch, Ordered, HasContext, dcp > 1, NEW i \in Nat, NEW p \in Prefills,
         NEW s \in Group
  PROVE  /\ LocalChunkLen(i, p, s) \in Nat /\ LocalContext(p, s) \in Nat
         /\ i * LocalChunk \in Nat
         /\ \A j \in Nat :
              /\ j < LocalChunkLen(i, p, s) <=>
                   i * LocalChunk + j < LocalContext(p, s) /\ j < LocalChunk
              /\ j < LocalChunkLen(i, p, s) => j < PaddedLen(i, p)
<1>1. LocalChunk \in Nat /\ Context(p) \in Nat
  BY ChunkGeometry, PrefillIs
<1>2. PICK start, kept, share, len :
        /\ start = i * LocalChunk /\ kept = LocalContext(p, s)
        /\ share = PaddedLocalContext(p) /\ len = PaddedLen(i, p)
  OBVIOUS
<1>3. start \in Nat
  BY <1>1, <1>2
<1>4. share \in Nat
  <2>1. PICK S, rounds : S = dcp * Run /\ rounds = Cdiv(Context(p), S)
    OBVIOUS
  <2>2. S \in Nat \ {0} /\ Run \in Nat
    BY <2>1, DealSizes
  <2>3. rounds \in Nat
    BY <1>1, <2>1, <2>2, CdivCovers
  <2>4. share = rounds * Run
    BY <1>2, <2>1 DEF PaddedLocalContext
  <2> QED BY <2>2, <2>3, <2>4
<1>5. kept \in Nat /\ kept <= share
  <2>1. Layout(dcp)!LocalLen(Context(p), s) <= Cdiv(Context(p), dcp * Run) * Run
    BY <1>1, ShareFits
  <2>2. kept = Layout(dcp)!LocalLen(Context(p), s)
    BY <1>2 DEF LocalContext
  <2>3. At(s * Run, 0, s, 0) /\ 0 \in 0 .. Run - 1
    <3>1. Run \in Nat \ {0} /\ dcp * Run \in Nat /\ s * Run \in Nat
      BY DealSizes
    <3>2. (dcp * Run) * 0 = 0 /\ s * Run + 0 = s * Run
      BY <3>1
    <3> QED BY <3>1, <3>2 DEF At
  <2>4. Layout(dcp)!LocalLen(Context(p), s) \in Nat
    BY <1>1, <2>3, KeptIsBelow
  <2> QED BY <1>2, <2>1, <2>2, <2>4 DEF PaddedLocalContext
<1>6. len \in Nat /\ \A j \in Nat : j < len <=> start + j < share /\ j < LocalChunk
  <2>1. len = Slice(share, start, LocalChunk)
    BY <1>2 DEF PaddedLen
  <2> QED BY <1>1, <1>3, <1>4, <2>1, SliceIs
<1>7. PICK left : left = IF kept > start THEN kept - start ELSE 0
  OBVIOUS
<1>8. left \in Nat
  BY <1>3, <1>5, <1>7
<1>9. LocalChunkLen(i, p, s) = IF left <= len THEN left ELSE len
  <2>1. LocalChunkLen(i, p, s) = Min({left, len})
    BY <1>2, <1>7 DEF LocalChunkLen
  <2> QED BY <1>6, <1>8, <2>1, SmallerOf
<1>10. PICK mine : mine = LocalChunkLen(i, p, s)
  OBVIOUS
<1>11. mine \in Nat /\ \A j \in Nat : j < mine <=> j < left /\ j < len
  BY <1>6, <1>8, <1>9, <1>10
<1>12. \A j \in Nat : j < left <=> start + j < kept
  BY <1>3, <1>5, <1>7
<1>13. \A j \in Nat : /\ j < mine <=> start + j < kept /\ j < LocalChunk
                      /\ j < mine => j < len
  <2> TAKE j \in Nat
  <2>1. j < mine <=> j < left /\ j < len
    BY <1>11
  <2>2. j < left <=> start + j < kept
    BY <1>12
  <2>3. j < len <=> start + j < share /\ j < LocalChunk
    BY <1>6
  <2>4. start + j < kept => start + j < share
    BY <1>3, <1>4, <1>5
  <2> QED BY <2>1, <2>2, <2>3, <2>4
<1> QED BY <1>2, <1>3, <1>5, <1>10, <1>11, <1>13

\* A token of a chunk's rounds is in the share of the rank that keeps it, and there
\* where the rank finds it.
LEMMA ChunkOfPlace ==
  ASSUME Batch, Ordered, HasContext, dcp > 1, NEW i \in Nat, NEW p \in Prefills,
         NEW q \in Nat, NEW s \in Group, NEW m \in 0 .. Run - 1,
         NEW tok \in Nat, At(tok, q, s, m)
  PROVE  /\ i * LocalChunk \in Nat /\ i * Round \in Nat
         /\ Run * q + m \in Nat
         /\ i * Round <= tok <=> i * LocalChunk <= Run * q + m
         /\ (/\ i * Round <= tok
             /\ tok < i * Round + RoundLen(i, p))
              <=> (/\ i * LocalChunk <= Run * q + m
                   /\ Run * q + m < i * LocalChunk + LocalChunkLen(i, p, s))
<1>1. PICK u \in Nat \ {0} :
        Round = (dcp * Run) * u /\ LocalChunk = Run * u
  BY RoundIs
<1>2. PICK S, x, y, l, len, mine, M, L :
        /\ S = dcp * Run /\ x = i * Round /\ y = i * LocalChunk
        /\ l = Run * q + m /\ len = RoundLen(i, p) /\ mine = LocalChunkLen(i, p, s)
        /\ M = Round /\ L = LocalChunk
  OBVIOUS
<1>3. S \in Nat \ {0} /\ Run \in Nat \ {0}
  BY <1>2, DealSizes
<1>4. PICK a : a = i * u
  OBVIOUS
<1>5. a \in Nat /\ a + u \in Nat
  BY <1>4
<1>6. x = S * a /\ y = Run * a
  <2>1. i * (S * u) = S * (i * u)
    BY <1>3
  <2>2. i * (Run * u) = Run * (i * u)
    BY <1>3
  <2> QED BY <1>1, <1>2, <1>4, <2>1, <2>2
<1>7. x + M = S * (a + u) /\ y + L = Run * (a + u)
  <2>1. S * (a + u) = S * a + S * u
    BY <1>3, <1>5
  <2>2. Run * (a + u) = Run * a + Run * u
    BY <1>3, <1>5
  <2> QED BY <1>1, <1>2, <1>6, <2>1, <2>2
<1>8. S * a <= tok <=> a <= q
  BY <1>2, <1>5, RoundBegins
<1>9. Run * a <= l <=> a <= q
  BY <1>2, <1>5, RoundBegins
<1>10. S * (a + u) <= tok <=> a + u <= q
  BY <1>2, <1>5, RoundBegins
<1>11. Run * (a + u) <= l <=> a + u <= q
  BY <1>2, <1>5, RoundBegins
<1>12. (x <= tok <=> y <= l) /\ (x + M <= tok <=> y + L <= l)
  BY <1>6, <1>7, <1>8, <1>9, <1>10, <1>11
<1>13. l \in Nat
  BY <1>2, PositionAt
<1>14. PICK ctx, kept : ctx = Context(p) /\ kept = LocalContext(p, s)
  OBVIOUS
<1>15. ctx \in Nat
  BY <1>14, PrefillIs
<1>16. kept \in Nat /\ (l < kept <=> tok < ctx)
  BY <1>2, <1>14, <1>15, KeptIsBelow DEF LocalContext
<1>17. x \in Nat /\ len \in Nat /\ M \in Nat
       /\ \A j \in Nat : j < len <=> x + j < ctx /\ j < M
  BY <1>2, <1>14, RoundLenIs, RoundIs
<1>18. y \in Nat /\ mine \in Nat /\ L \in Nat
       /\ \A j \in Nat : j < mine <=> y + j < kept /\ j < L
  BY <1>2, <1>14, ShareIndex, ChunkGeometry
<1>19. CASE x <= tok
  <2>1. PICK j : j = tok - x
    OBVIOUS
  <2>2. j \in Nat /\ x + j = tok
    BY <1>17, <1>19, <2>1
  <2>3. tok < x + len <=> tok < ctx /\ tok < x + M
    <3>1. j < len <=> x + j < ctx /\ j < M
      BY <1>17, <2>2
    <3>2. (j < len <=> tok < x + len) /\ (j < M <=> tok < x + M)
      BY <1>17, <2>2
    <3> QED BY <2>2, <3>1, <3>2
  <2>4. y <= l
    BY <1>12, <1>19
  <2>5. PICK k : k = l - y
    OBVIOUS
  <2>6. k \in Nat /\ y + k = l
    BY <1>13, <1>18, <2>4, <2>5
  <2>7. l < y + mine <=> l < kept /\ l < y + L
    <3>1. k < mine <=> y + k < kept /\ k < L
      BY <1>18, <2>6
    <3>2. (k < mine <=> l < y + mine) /\ (k < L <=> l < y + L)
      BY <1>18, <2>6
    <3> QED BY <2>6, <3>1, <3>2
  <2>8. tok < x + M <=> l < y + L
    BY <1>12, <1>13, <1>17, <1>18
  <2>9. tok < x + len <=> l < y + mine
    BY <1>16, <2>3, <2>7, <2>8
  <2> QED BY <1>2, <1>12, <1>13, <1>17, <1>18, <1>19, <2>4, <2>9
<1>20. CASE ~ (x <= tok)
  BY <1>2, <1>12, <1>13, <1>17, <1>18, <1>20
<1> QED BY <1>19, <1>20

-----------------------------------------------------------------------------
\* The ranks' shares of a chunk are all of its rounds, and no token is in two.
LEMMA SharesAreChunk ==
  ASSUME Batch, Ordered, HasContext, dcp > 1, NEW i \in Nat, NEW p \in Prefills
  PROVE  /\ \A s \in Group : ShareTokens(i, p, s) \subseteq RoundTokens(i, p)
         /\ \A x \in RoundTokens(i, p) : \E s \in Group : x \in ShareTokens(i, p, s)
         /\ \A s, t \in Group : s # t => ShareTokens(i, p, s) \cap ShareTokens(i, p, t) = {}
         /\ \A s \in Group, j, k \in Nat :
              Layout(dcp)!GlobalPosition(i * LocalChunk + j, s)
                = Layout(dcp)!GlobalPosition(i * LocalChunk + k, s) => j = k
<1>1. PICK x, y, len : x = i * Round /\ y = i * LocalChunk /\ len = RoundLen(i, p)
  OBVIOUS
<1>2. x \in Nat /\ y \in Nat /\ len \in Nat
  BY <1>1, RoundLenIs, ShareIndex, DealSizes, Sizes
<1>3. ASSUME NEW s \in Group, NEW l \in Nat
      PROVE  \E q \in Nat, m \in 0 .. Run - 1 :
               /\ l = Run * q + m /\ At(Layout(dcp)!GlobalPosition(l, s), q, s, m)
               /\ Layout(dcp)!GlobalPosition(l, s) \in Nat
  <2>1. PICK q \in Nat, m \in 0 .. Run - 1 :
          l = Run * q + m /\ At(Layout(dcp)!GlobalPosition(l, s), q, s, m)
    BY PlaceOf
  <2>2. PICK S, tok, z : /\ S = dcp * Run /\ tok = Layout(dcp)!GlobalPosition(l, s)
                         /\ z = s * Run
    OBVIOUS
  <2>3. S \in Nat /\ z \in Nat /\ m \in Nat /\ tok = S * q + (z + m)
    BY <2>1, <2>2, DealSizes DEF At
  <2>4. tok \in Nat
    BY <2>3
  <2> QED BY <2>1, <2>2, <2>4
<1>4. ASSUME NEW s \in Group PROVE ShareTokens(i, p, s) \subseteq RoundTokens(i, p)
  <2>1. PICK mine : mine = LocalChunkLen(i, p, s)
    OBVIOUS
  <2>2. mine \in Nat
    BY <2>1, ShareIndex
  <2>3. ASSUME NEW j \in 0 .. mine - 1
        PROVE  Layout(dcp)!GlobalPosition(y + j, s) \in x .. x + len - 1
    <3>1. PICK l, tok : l = y + j /\ tok = Layout(dcp)!GlobalPosition(l, s)
      OBVIOUS
    <3>2. l \in Nat /\ y <= l /\ l < y + mine
      BY <1>2, <2>2, <3>1
    <3>3. PICK q \in Nat, m \in 0 .. Run - 1 :
            l = Run * q + m /\ At(tok, q, s, m) /\ tok \in Nat
      BY <1>3, <3>1, <3>2
    <3>4. x <= tok /\ tok < x + len
      BY <1>1, <2>1, <3>2, <3>3, ChunkOfPlace
    <3>5. tok \in x .. x + len - 1
      BY <1>2, <3>3, <3>4
    <3> QED BY <3>1, <3>5
  <2> QED BY <1>1, <2>1, <2>3 DEF ShareTokens, RoundTokens, Tokens
<1>5. ASSUME NEW tok \in x .. x + len - 1
      PROVE  \E s \in Group : <<p, tok>> \in ShareTokens(i, p, s)
  <2>1. tok \in Nat /\ x <= tok /\ tok < x + len
    BY <1>2
  <2>2. PICK q \in Nat, s \in Group, m \in 0 .. Run - 1 : At(tok, q, s, m)
    BY <2>1, SomePlace
  <2>3. PICK l, mine : l = Run * q + m /\ mine = LocalChunkLen(i, p, s)
    OBVIOUS
  <2>4. y <= l /\ l < y + mine /\ l \in Nat
    BY <1>1, <2>1, <2>2, <2>3, ChunkOfPlace
  <2>5. mine \in Nat
    BY <2>3, ShareIndex
  <2>6. PICK j : j = l - y
    OBVIOUS
  <2>7. j \in 0 .. mine - 1 /\ y + j = l
    BY <1>2, <2>4, <2>5, <2>6
  <2>8. Layout(dcp)!GlobalPosition(y + j, s) = tok
    BY <2>2, <2>3, <2>7, PositionAt
  <2>9. <<p, tok>> \in ShareTokens(i, p, s)
    BY <1>1, <2>3, <2>7, <2>8 DEF ShareTokens
  <2> QED BY <2>9
<1>6. ASSUME NEW s \in Group, NEW t \in Group, NEW k \in Nat, NEW l \in Nat,
             Layout(dcp)!GlobalPosition(k, s) = Layout(dcp)!GlobalPosition(l, t)
      PROVE  s = t /\ k = l
  <2>1. PICK tok : tok = Layout(dcp)!GlobalPosition(k, s)
    OBVIOUS
  <2>2. PICK q \in Nat, m \in 0 .. Run - 1 : k = Run * q + m /\ At(tok, q, s, m)
    BY <2>1, PlaceOf
  <2>3. PICK q2 \in Nat, m2 \in 0 .. Run - 1 : l = Run * q2 + m2 /\ At(tok, q2, t, m2)
    BY <1>6, <2>1, PlaceOf
  <2>4. q = q2 /\ s = t /\ m = m2
    BY <2>2, <2>3, OnePlace
  <2> QED BY <2>2, <2>3, <2>4
<1>7. ASSUME NEW s \in Group, NEW t \in Group, s # t
      PROVE  ShareTokens(i, p, s) \cap ShareTokens(i, p, t) = {}
  <2>1. PICK a, b : a = LocalChunkLen(i, p, s) /\ b = LocalChunkLen(i, p, t)
    OBVIOUS
  <2>2. a \in Nat /\ b \in Nat
    BY <2>1, ShareIndex
  <2>3. ASSUME NEW j \in 0 .. a - 1, NEW k \in 0 .. b - 1
        PROVE  Layout(dcp)!GlobalPosition(y + j, s) # Layout(dcp)!GlobalPosition(y + k, t)
    <3>1. y + j \in Nat /\ y + k \in Nat
      BY <1>2, <2>2
    <3> QED BY <1>6, <1>7, <3>1
  <2> QED BY <1>1, <2>1, <2>3 DEF ShareTokens
<1>8. ASSUME NEW s \in Group, NEW j \in Nat, NEW k \in Nat,
             Layout(dcp)!GlobalPosition(y + j, s) = Layout(dcp)!GlobalPosition(y + k, s)
      PROVE  j = k
  <2>1. y + j \in Nat /\ y + k \in Nat
    BY <1>2
  <2>2. y + j = y + k
    BY <1>6, <1>8, <2>1
  <2> QED BY <1>2, <2>2
<1>9. \A z \in RoundTokens(i, p) : \E s \in Group : z \in ShareTokens(i, p, s)
  <2>1. RoundTokens(i, p) = {<<p, tok>> : tok \in x .. x + len - 1}
    BY <1>1 DEF RoundTokens, Tokens
  <2> QED BY <1>5, <2>1
<1> QED BY <1>1, <1>4, <1>7, <1>8, <1>9

\* The workspace has a chunk, every rank's rows together.
Together(ws, i) ==
  \A s \in Group, p \in Prefills : \A j \in Nat :
    j < PaddedLen(i, p) =>
      ws[GatherOffset + s * Toks(i) + PaddedCu(i, p) + j]
        = LocalRecord(s, p, i * LocalChunk + j)

\* A rank's part of a prefill, as reorg_kvcache cuts it out.
LEMMA SegmentOnce ==
  ASSUME Batch, Ordered, HasContext, dcp > 1, NEW i \in Nat, NEW p \in Prefills,
         NEW s \in Group, NEW ws, Together(ws, i)
  PROVE  Once(Segment(ws, i, p, s), ShareTokens(i, p, s))
<1>1. PICK x, mine, seg, X :
        /\ x = GatherOffset + s * Toks(i) + PaddedCu(i, p)
        /\ mine = LocalChunkLen(i, p, s)
        /\ seg = Segment(ws, i, p, s) /\ X = ShareTokens(i, p, s)
  OBVIOUS
<1>2. /\ mine \in Nat
      /\ \A j \in Nat : /\ j < mine => j < PaddedLen(i, p)
                        /\ j < mine => i * LocalChunk + j < LocalContext(p, s)
      /\ i * LocalChunk \in Nat
  BY <1>1, ShareIndex
<1>3. GatherOffset + s * Toks(i) + PaddedCu(i, p) \in Int
  <2>1. WorkspaceRows \in Nat /\ dcp + 1 \in Nat \ {0}
    <3>1. WorkspaceSize \in Nat /\ dcp \in Nat \ {0}
      BY WorkspaceHolds, DealSizes
    <3>2. WorkspaceSize \div dcp \in Nat
      BY <3>1, DivMod
    <3> QED BY <3>1, <3>2 DEF WorkspaceRows
  <2>2. GatherOffset \in Nat
    BY <2>1, DivMod DEF GatherOffset
  <2>3. PICK n : n = Len(prefills)
    OBVIOUS
  <2>4. PICK c \in [0 .. n -> Nat] :
          /\ \A q \in Prefills : PaddedCu(i, q) = c[q - 1] /\ PaddedCu(i, q + 1) = c[q]
          /\ PaddedCu(i, n + 1) = c[n]
    BY <2>3, PaddedSums
  <2>5. n \in Nat /\ Prefills = 1 .. n
    BY <2>3, PrefillCount
  <2>6. PaddedCu(i, p) \in Nat
    <3>1. p - 1 \in 0 .. n
      BY <2>5
    <3> QED BY <2>4, <3>1
  <2>7. Toks(i) \in Nat
    BY <2>3, <2>4, <2>5 DEF Toks
  <2>8. s \in Nat
    BY DealSizes
  <2>9. s * Toks(i) \in Nat
    BY <2>7, <2>8
  <2> QED BY <2>2, <2>6, <2>9
<1>4. seg = [k \in 1 .. mine |-> ws[x + k - 1]]
  BY <1>1 DEF Segment
<1>5. ASSUME NEW j \in Nat, j < mine
      PROVE  seg[j + 1] = <<p, Layout(dcp)!GlobalPosition(i * LocalChunk + j, s)>>
  <2>1. j + 1 \in 1 .. mine /\ x + (j + 1) - 1 = x + j
    BY <1>1, <1>2, <1>3, <1>5
  <2>2. seg[j + 1] = ws[x + j]
    BY <1>4, <2>1
  <2>3. ws[x + j] = LocalRecord(s, p, i * LocalChunk + j)
    BY <1>1, <1>2, <1>5 DEF Together
  <2>4. PICK l, tok : l = i * LocalChunk + j /\ tok = Layout(dcp)!GlobalPosition(l, s)
    OBVIOUS
  <2>5. l \in Nat /\ l < LocalContext(p, s)
    BY <1>2, <1>5, <2>4
  <2>6. PICK q \in Nat, m \in 0 .. Run - 1 : l = Run * q + m /\ At(tok, q, s, m)
    BY <2>4, <2>5, PlaceOf
  <2>7. Context(p) \in Nat /\ prefills[p].query \in Nat
        /\ SeqLen(p) = Context(p) + prefills[p].query
    BY PrefillIs
  <2>8. tok < Context(p)
    BY <2>5, <2>6, <2>7, KeptIsBelow DEF LocalContext
  <2>9. tok \in Int
    <3>1. PICK S, z : S = dcp * Run /\ z = s * Run
      OBVIOUS
    <3>2. S \in Nat /\ z \in Nat /\ m \in Nat /\ tok = S * q + (z + m)
      BY <2>6, <3>1, DealSizes DEF At
    <3> QED BY <3>2
  <2>10. tok < SeqLen(p)
    BY <2>7, <2>8, <2>9
  <2>11. LocalRecord(s, p, l) = <<p, tok>>
    BY <2>4, <2>10 DEF LocalRecord, Cached
  <2> QED BY <2>2, <2>3, <2>4, <2>11
<1>6. X = {<<p, Layout(dcp)!GlobalPosition(i * LocalChunk + j, s)>> : j \in 0 .. mine - 1}
  BY <1>1 DEF ShareTokens
<1>7. \A k \in 1 .. mine : seg[k] \in X /\ k - 1 \in 0 .. mine - 1
        /\ seg[k] = <<p, Layout(dcp)!GlobalPosition(i * LocalChunk + (k - 1), s)>>
  <2> TAKE k \in 1 .. mine
  <2>1. PICK j : j = k - 1
    OBVIOUS
  <2>2. j \in Nat /\ j < mine /\ j + 1 = k /\ j \in 0 .. mine - 1
    BY <1>2, <2>1
  <2>3. seg[k] = <<p, Layout(dcp)!GlobalPosition(i * LocalChunk + j, s)>>
    BY <1>5, <2>2
  <2> QED BY <1>6, <2>1, <2>2, <2>3
<1>8. seg \in Seq(X) /\ Len(seg) = mine
  <2>1. seg = [k \in 1 .. mine |-> seg[k]]
    BY <1>4
  <2>2. seg \in [1 .. mine -> X]
    BY <1>7, <2>1
  <2> QED BY <1>2, <2>2
<1>9. \A z \in X : \E k \in 1 .. mine : seg[k] = z
  <2> TAKE z \in X
  <2>1. PICK j \in 0 .. mine - 1 :
          z = <<p, Layout(dcp)!GlobalPosition(i * LocalChunk + j, s)>>
    BY <1>6
  <2>2. j \in Nat /\ j < mine /\ j + 1 \in 1 .. mine
    BY <1>2
  <2>3. seg[j + 1] = z
    BY <1>5, <2>1, <2>2
  <2> QED BY <2>2, <2>3
<1>10. \A k, l \in 1 .. mine : seg[k] = seg[l] => k = l
  <2> SUFFICES ASSUME NEW k \in 1 .. mine, NEW l \in 1 .. mine, seg[k] = seg[l]
               PROVE  k = l
    OBVIOUS
  <2>1. PICK a, b : a = k - 1 /\ b = l - 1
    OBVIOUS
  <2>2. a \in Nat /\ b \in Nat
    BY <1>2, <2>1
  <2>3. <<p, Layout(dcp)!GlobalPosition(i * LocalChunk + a, s)>>
          = <<p, Layout(dcp)!GlobalPosition(i * LocalChunk + b, s)>>
    BY <1>7, <2>1
  <2>4. Layout(dcp)!GlobalPosition(i * LocalChunk + a, s)
          = Layout(dcp)!GlobalPosition(i * LocalChunk + b, s)
    BY <2>3
  <2>5. a = b
    BY <2>2, <2>4, SharesAreChunk
  <2> QED BY <1>2, <2>1, <2>5
<1>11. Once(seg, X)
  BY <1>8, <1>9, <1>10 DEF Once
<1> QED BY <1>1, <1>11

\* A prefill's part of the reorganized keys: all of its tokens of the rounds.
LEMMA PartOnce ==
  ASSUME Batch, Ordered, HasContext, dcp > 1, NEW i \in Nat, NEW p \in Prefills,
         NEW ws, Together(ws, i)
  PROVE  Once(FlattenSeq([s \in 1 .. dcp |-> Segment(ws, i, p, s - 1)]), RoundTokens(i, p))
<1>1. PICK segs, X : /\ segs = [s \in 1 .. dcp |-> Segment(ws, i, p, s - 1)]
                     /\ X = [s \in 1 .. dcp |-> ShareTokens(i, p, s - 1)]
  OBVIOUS
<1>2. dcp \in Nat \ {0} /\ \A s \in 1 .. dcp : s - 1 \in Group
  <2>1. dcp \in Nat \ {0}
    BY DealSizes
  <2> QED BY <2>1 DEF Group
<1>3. DOMAIN X = 1 .. dcp /\ segs = [s \in 1 .. dcp |-> segs[s]]
  BY <1>1
<1>4. \A s \in 1 .. dcp : Once(segs[s], X[s])
  <2> TAKE s \in 1 .. dcp
  <2>1. PICK t : t = s - 1
    OBVIOUS
  <2>2. t \in Group
    BY <1>2, <2>1
  <2>3. Once(Segment(ws, i, p, t), ShareTokens(i, p, t))
    BY <2>2, SegmentOnce
  <2> QED BY <1>1, <2>1, <2>3
<1>5. \A s, t \in 1 .. dcp : s # t => X[s] \cap X[t] = {}
  <2> SUFFICES ASSUME NEW s \in 1 .. dcp, NEW t \in 1 .. dcp, s # t
               PROVE  X[s] \cap X[t] = {}
    OBVIOUS
  <2>1. PICK a, b : a = s - 1 /\ b = t - 1
    OBVIOUS
  <2>2. a \in Group /\ b \in Group /\ a # b
    BY <1>2, <2>1
  <2>3. ShareTokens(i, p, a) \cap ShareTokens(i, p, b) = {}
    BY <2>2, SharesAreChunk
  <2> QED BY <1>1, <2>1, <2>3
<1>6. Once(FlattenSeq(segs), UNION {X[s] : s \in 1 .. dcp})
  BY <1>2, <1>3, <1>4, <1>5, FlattenOnce
<1>7. UNION {X[s] : s \in 1 .. dcp} = RoundTokens(i, p)
  <2>1. \A s \in 1 .. dcp : X[s] \subseteq RoundTokens(i, p)
    <3> TAKE s \in 1 .. dcp
    <3>1. PICK t : t = s - 1
      OBVIOUS
    <3>2. t \in Group
      BY <1>2, <3>1
    <3> QED BY <1>1, <3>1, <3>2, SharesAreChunk
  <2>2. \A z \in RoundTokens(i, p) : \E s \in 1 .. dcp : z \in X[s]
    <3> TAKE z \in RoundTokens(i, p)
    <3>1. PICK t \in Group : z \in ShareTokens(i, p, t)
      BY SharesAreChunk
    <3>2. t + 1 \in 1 .. dcp /\ (t + 1) - 1 = t
      BY <1>2 DEF Group
    <3>3. z \in X[t + 1]
      BY <1>1, <3>1, <3>2
    <3> QED BY <3>2, <3>3
  <2> QED BY <2>1, <2>2
<1> QED BY <1>1, <1>6, <1>7

-----------------------------------------------------------------------------
\* The chunks and the rounds that cover them are cut alike.
Agree == Round = MaxContextChunk \/ \A p \in Prefills : Context(p) <= MaxContextChunk

LEMMA FirstLens ==
  ASSUME Batch, Ordered, HasContext, NEW p \in Prefills
  PROVE  /\ ChunkLen(0, p) <= RoundLen(0, p)
         /\ Context(p) <= MaxContextChunk => RoundLen(0, p) = Context(p)
                                             /\ ChunkLen(0, p) = Context(p)
         /\ ChunkLen(0, p) = 0 => Context(p) = 0
         /\ Context(p) > MaxContextChunk /\ Round # MaxContextChunk =>
              ChunkLen(0, p) < RoundLen(0, p)
<1>1. PICK C, R, a, b, ctx : /\ C = MaxContextChunk /\ R = Round /\ ctx = Context(p)
                             /\ a = ChunkLen(0, p) /\ b = RoundLen(0, p)
  OBVIOUS
<1>2. C \in Nat \ {0} /\ R \in Nat /\ C <= R /\ ctx \in Nat
  BY <1>1, ChunkGeometry, RoundIs, PrefillIs
<1>3. 0 * MaxContextChunk = 0 /\ 0 * Round = 0
  BY <1>1, <1>2
<1>4. a \in Nat /\ \A j \in Nat : j < a <=> 0 + j < ctx /\ j < C
  BY <1>1, <1>3, ChunkLenIs
<1>5. b \in Nat /\ \A j \in Nat : j < b <=> 0 + j < ctx /\ j < R
  BY <1>1, <1>3, RoundLenIs
<1>6. \A j \in Nat : 0 + j = j
  OBVIOUS
<1>7. ~ (b < a)
  BY <1>2, <1>4, <1>5
<1>8. ASSUME ctx <= C PROVE a = ctx /\ b = ctx
  <2>1. ~ (a < ctx) /\ ~ (b < ctx)
    BY <1>2, <1>4, <1>5, <1>6, <1>8
  <2>2. ~ (ctx < a) /\ ~ (ctx < b)
    BY <1>2, <1>4, <1>5, <1>6
  <2> QED BY <1>2, <1>4, <1>5, <2>1, <2>2
<1>9. ASSUME a = 0 PROVE ctx = 0
  <2>1. ~ (0 < ctx)
    BY <1>2, <1>4, <1>6, <1>9
  <2> QED BY <1>2, <2>1
<1>10. ASSUME ctx > C, R # C PROVE a < b
  <2>1. C < b
    BY <1>2, <1>5, <1>6, <1>10
  <2>2. ~ (C < a)
    BY <1>2, <1>4
  <2> QED BY <1>2, <1>4, <1>5, <2>1, <2>2
<1> QED BY <1>1, <1>2, <1>4, <1>5, <1>7, <1>8, <1>9, <1>10

LEMMA Agreed ==
  ASSUME Batch, Ordered, HasContext, Agree, NEW i \in Nat, NEW p \in Prefills
  PROVE  RoundLen(i, p) = ChunkLen(i, p) /\ RoundTokens(i, p) = ChunkTokens(i, p)
<1>1. CASE Round = MaxContextChunk
  BY <1>1 DEF RoundLen, ChunkLen, RoundTokens, ChunkTokens
<1>2. CASE Context(p) <= MaxContextChunk
  <2>1. PICK C, R, x, y, a, b, ctx :
          /\ C = MaxContextChunk /\ R = Round /\ ctx = Context(p)
          /\ x = i * MaxContextChunk /\ y = i * Round
          /\ a = ChunkLen(i, p) /\ b = RoundLen(i, p)
    OBVIOUS
  <2>2. C \in Nat \ {0} /\ R \in Nat /\ C <= R /\ ctx \in Nat /\ ctx <= C
    BY <1>2, <2>1, ChunkGeometry, RoundIs, PrefillIs
  <2>3. CASE i = 0
    <3>1. x = 0 /\ y = 0
      BY <2>1, <2>2, <2>3
    <3>2. a = b
      BY <1>2, <2>1, <2>3, FirstLens
    <3> QED BY <2>1, <3>1, <3>2 DEF RoundTokens, ChunkTokens
  <2>4. CASE i # 0
    <3>1. x \in Nat /\ a \in Nat /\ \A j \in Nat : j < a => x + j < ctx
      BY <2>1, ChunkLenIs
    <3>2. y \in Nat /\ b \in Nat /\ \A j \in Nat : j < b => y + j < ctx
      BY <2>1, RoundLenIs
    <3>3. C <= x /\ R <= y
      <4>1. C * 1 <= C * i /\ R * 1 <= R * i
        BY <2>2, <2>4, MulMono
      <4>2. C * i = i * C /\ R * i = i * R /\ C * 1 = C /\ R * 1 = R
        BY <2>2
      <4> QED BY <2>1, <4>1, <4>2
    <3>4. ~ (0 < a) /\ ~ (0 < b)
      BY <2>2, <3>1, <3>2, <3>3
    <3>5. a = 0 /\ b = 0
      BY <3>1, <3>2, <3>4
    <3>6. x .. x + a - 1 = {} /\ y .. y + b - 1 = {}
      BY <3>1, <3>2, <3>5
    <3>7. ChunkTokens(i, p) = {} /\ RoundTokens(i, p) = {}
      BY <2>1, <3>6 DEF RoundTokens, ChunkTokens, Tokens
    <3> QED BY <2>1, <3>5, <3>7
  <2> QED BY <2>3, <2>4
<1> QED BY <1>1, <1>2 DEF Agree

\* The reorganized keys are the prefills' parts, each with its tokens of the rounds.
RoundLens(i) == [q \in Prefills |-> RoundLen(i, q)]

InRounds(parts, ws, i, A) ==
  /\ parts \in [Prefills -> Seq(A)] /\ Reorganized(ws, i) = FlattenSeq(parts)
  /\ \A p \in Prefills : /\ Once(parts[p], RoundTokens(i, p))
                         /\ Len(parts[p]) = RoundLen(i, p)

LEMMA ReorganizedParts ==
  ASSUME Batch, Ordered, HasContext, dcp > 1, NEW i \in Nat, NEW ws, Together(ws, i)
  PROVE  \E parts, A : InRounds(parts, ws, i, A)
<1>1. PICK parts : parts = [p \in Prefills |->
                     FlattenSeq([s \in 1 .. dcp |-> Segment(ws, i, p, s - 1)])]
  OBVIOUS
<1>2. \A p \in Prefills : Once(parts[p], RoundTokens(i, p))
  <2> TAKE p \in Prefills
  <2>1. parts[p] = FlattenSeq([s \in 1 .. dcp |-> Segment(ws, i, p, s - 1)])
    BY <1>1
  <2> QED BY <2>1, PartOnce
<1>3. \A p \in Prefills : Len(parts[p]) = RoundLen(i, p)
  <2> TAKE p \in Prefills
  <2>1. PICK a, len, X, part : /\ a = i * Round /\ len = RoundLen(i, p)
                               /\ X = RoundTokens(i, p) /\ part = parts[p]
    OBVIOUS
  <2>2. a \in Nat /\ len \in Nat
    BY <2>1, RoundLenIs
  <2>3. PICK last : last = a + len - 1
    OBVIOUS
  <2>4. last \in Int /\ X = Tokens(p, a, last)
    BY <2>1, <2>2, <2>3 DEF RoundTokens
  <2>5. Once(part, Tokens(p, a, last))
    BY <1>2, <2>1, <2>4
  <2>6. Len(part) = len
    BY <2>2, <2>3, <2>4, <2>5, OnceLen
  <2> QED BY <2>1, <2>6
<1>4. PICK A : A = UNION {RoundTokens(i, p) : p \in Prefills}
  OBVIOUS
<1>5. parts \in [Prefills -> Seq(A)]
  <2>1. \A p \in Prefills : parts[p] \in Seq(A)
    <3> TAKE p \in Prefills
    <3>1. PICK X : X = RoundTokens(i, p)
      OBVIOUS
    <3>2. parts[p] \in Seq(X)
      BY <1>2, <3>1 DEF Once
    <3>3. X \subseteq A
      BY <1>4, <3>1
    <3> QED BY <3>2, <3>3, SeqMonotonic
  <2>2. parts = [p \in Prefills |-> parts[p]]
    BY <1>1
  <2> QED BY <2>1, <2>2
<1>6. Reorganized(ws, i) = FlattenSeq(parts)
  BY <1>1 DEF Reorganized
<1>7. InRounds(parts, ws, i, A)
  BY <1>2, <1>3, <1>5, <1>6 DEF InRounds
<1> QED BY <1>7

\* The assertion of reorg_kvcache on the first chunk: the ranks' rows are as many
\* as the chunk's only if chunks and rounds are cut alike.
LEMMA FitMeansAgree ==
  ASSUME Batch, Ordered, HasContext, dcp > 1, NEW ws, Together(ws, 0), ReorgFits(ws, 0)
  PROVE  Agree
<1>1. PICK n, more, d : /\ n = Len(prefills) /\ more = RoundLens(0) /\ d = CuSum(more)
  OBVIOUS
<1>2. n \in Nat \ {0} /\ Prefills = 1 .. n
  <2>1. n \in Nat /\ Prefills = 1 .. n
    BY <1>1, PrefillCount
  <2>2. WithContext \in Nat /\ WithContext <= n /\ WithContext > 0
    BY <1>1, ContextFirst DEF HasContext
  <2> QED BY <2>1, <2>2
<1>3. PICK parts, A : InRounds(parts, ws, 0, A)
  BY ReorganizedParts
<1>4. more \in [1 .. n -> Nat] /\ \A k \in 1 .. n : more[k] = RoundLen(0, k)
  <2>1. \A k \in Prefills : RoundLen(0, k) \in Nat
    BY RoundLenIs
  <2> QED BY <1>1, <1>2, <2>1 DEF RoundLens
<1>5. d \in [0 .. n -> Nat] /\ Sums(d, n, more)
  BY <1>1, <1>2, <1>4, CuSumIs DEF Sums
<1>6. Begins(d, n, parts)
  <2>1. \A k \in 1 .. n : d[k] = d[k - 1] + Len(parts[k])
    <3> TAKE k \in 1 .. n
    <3>1. d[k] = d[k - 1] + more[k]
      BY <1>5 DEF Sums
    <3>2. more[k] = Len(parts[k])
      BY <1>2, <1>3, <1>4 DEF InRounds
    <3> QED BY <3>1, <3>2
  <2>2. d[0] = 0
    BY <1>5 DEF Sums
  <2> QED BY <2>1, <2>2 DEF Begins
<1>7. Len(Reorganized(ws, 0)) = d[n]
  <2>1. parts \in [1 .. n -> Seq(A)] /\ Reorganized(ws, 0) = FlattenSeq(parts)
    BY <1>2, <1>3 DEF InRounds
  <2> QED BY <1>2, <1>5, <1>6, <2>1, FlattenParts
<1>8. PICK c \in [0 .. n -> Nat] :
        /\ ChunkLens(0) \in [1 .. n -> Nat]
        /\ Sums(c, n, ChunkLens(0))
        /\ ChunkTotal(0) = c[n]
  BY <1>1, ChunkSums
<1>9. PICK lens : lens = ChunkLens(0)
  OBVIOUS
<1>10. \A k \in 1 .. n : lens[k] = ChunkLen(0, k)
  BY <1>2, <1>9 DEF ChunkLens
<1>11. \A k \in 1 .. n : lens[k] <= more[k]
  <2> TAKE k \in 1 .. n
  <2>1. ChunkLen(0, k) <= RoundLen(0, k)
    BY <1>2, FirstLens
  <2> QED BY <1>4, <1>10, <2>1
<1>12. c[n] = d[n]
  BY <1>7, <1>8 DEF ReorgFits
<1>13. lens \in [1 .. n -> Nat] /\ Sums(c, n, lens)
  BY <1>8, <1>9
<1>14. \A p \in Prefills : ChunkLen(0, p) = RoundLen(0, p)
  <2> TAKE p \in Prefills
  <2>1. p \in 1 .. n /\ n \in Nat
    BY <1>2
  <2>2. lens[p] = more[p]
    BY <1>4, <1>5, <1>11, <1>12, <1>13, <2>1, SumsAgree
  <2> QED BY <1>4, <1>10, <2>1, <2>2
<1> SUFFICES ASSUME Round # MaxContextChunk, NEW p \in Prefills,
                    ~ (Context(p) <= MaxContextChunk)
             PROVE  FALSE
  BY DEF Agree
<1>15. PICK a, ctx, C : /\ a = ChunkLen(0, p) /\ ctx = Context(p) /\ C = MaxContextChunk
  OBVIOUS
<1>16. a \in Nat /\ ctx \in Nat /\ C \in Nat
  BY <1>15, ChunkLenIs, PrefillIs, ChunkGeometry
<1>17. a < a
  <2>1. ctx > C
    BY <1>15, <1>16
  <2>2. ChunkLen(0, p) < RoundLen(0, p)
    BY <1>15, <2>1, FirstLens
  <2> QED BY <1>14, <1>15, <2>2
<1> QED BY <1>16, <1>17

\* The workspace has a chunk, request after request.
InRows(ws, i) ==
  \A p \in Prefills : \A j \in Nat :
    j < ChunkLen(i, p) => ws[CuLen(i, p) + j] = Cached(p, i * MaxContextChunk + j)

\* What the kernel takes for a prefill's keys are its tokens of the chunk.
KeysRight(ws, i) == \A p \in Prefills : Once(KeysOf(ws, i, p), ChunkTokens(i, p))

\* reorg_kvcache: from the rows of every rank, each prefill's tokens of the chunk
\* once.
LEMMA ReorganizedKeys ==
  ASSUME Batch, Ordered, HasContext, dcp > 1, Agree, NEW i \in Nat, NEW ws,
         Together(ws, i)
  PROVE  KeysRight(ws, i)
<1>1. PICK n : n = Len(prefills)
  OBVIOUS
<1>2. n \in Nat \ {0} /\ Prefills = 1 .. n
  <2>1. n \in Nat /\ Prefills = 1 .. n
    BY <1>1, PrefillCount
  <2>2. WithContext \in Nat /\ WithContext <= n /\ WithContext > 0
    BY <1>1, ContextFirst DEF HasContext
  <2> QED BY <2>1, <2>2
<1>3. PICK parts, A : InRounds(parts, ws, i, A)
  BY ReorganizedParts
<1>4. PICK c \in [0 .. n -> Nat] :
        /\ ChunkLens(i) \in [1 .. n -> Nat]
        /\ Sums(c, n, ChunkLens(i))
        /\ \A p \in Prefills : CuLen(i, p) = c[p - 1] /\ CuLen(i, p + 1) = c[p]
  BY <1>1, ChunkSums
<1>5. \A p \in Prefills : Len(parts[p]) = ChunkLen(i, p)
  BY <1>3, Agreed DEF InRounds
<1>6. \A p \in Prefills : Once(parts[p], ChunkTokens(i, p))
  BY <1>3, Agreed DEF InRounds
<1>7. parts \in [1 .. n -> Seq(A)]
  BY <1>2, <1>3 DEF InRounds
<1>8. Begins(c, n, parts)
  <2>1. \A k \in 1 .. n : c[k] = c[k - 1] + Len(parts[k])
    <3> TAKE k \in 1 .. n
    <3>1. c[k] = c[k - 1] + ChunkLens(i)[k]
      BY <1>4 DEF Sums
    <3>2. ChunkLens(i)[k] = Len(parts[k])
      BY <1>2, <1>5 DEF ChunkLens
    <3> QED BY <3>1, <3>2
  <2>2. c[0] = 0
    BY <1>4 DEF Sums
  <2> QED BY <2>1, <2>2 DEF Begins
<1>9. PICK all : all = FlattenSeq(parts)
  OBVIOUS
<1>10. \A k \in 1 .. n : SubSeq(all, c[k - 1] + 1, c[k]) = parts[k]
  <2>1. PartsFound(all, c, n, parts)
    BY <1>2, <1>7, <1>8, <1>9, FlattenParts
  <2> QED BY <2>1 DEF PartsFound
<1>11. Keys(ws, i) = all
  BY <1>3, <1>9 DEF Keys, InRounds
<1>12. \A p \in Prefills : KeysOf(ws, i, p) = parts[p]
  <2> TAKE p \in Prefills
  <2>1. KeysOf(ws, i, p) = SubSeq(all, c[p - 1] + 1, c[p])
    BY <1>4, <1>11 DEF KeysOf
  <2> QED BY <1>2, <1>10, <2>1
<1> QED BY <1>6, <1>12 DEF KeysRight

\* Without a group the rows of a chunk are its tokens already.
LEMMA PackedKeys ==
  ASSUME Batch, Ordered, HasContext, ~ (dcp > 1), NEW i \in Nat, NEW ws, InRows(ws, i)
  PROVE  KeysRight(ws, i)
<1> SUFFICES ASSUME NEW p \in Prefills
             PROVE  Once(KeysOf(ws, i, p), ChunkTokens(i, p))
  BY DEF KeysRight
<1>1. PICK n : n = Len(prefills)
  OBVIOUS
<1>2. n \in Nat /\ Prefills = 1 .. n
  BY <1>1, PrefillCount
<1>3. PICK c \in [0 .. n -> Nat] :
        /\ ChunkLens(i) \in [1 .. n -> Nat]
        /\ Sums(c, n, ChunkLens(i))
        /\ \A q \in Prefills : CuLen(i, q) = c[q - 1] /\ CuLen(i, q + 1) = c[q]
        /\ ChunkTotal(i) = c[n]
  BY <1>1, ChunkSums
<1>4. PICK b, e, total, len, x, X :
        /\ b = c[p - 1] /\ e = c[p] /\ total = c[n] /\ len = ChunkLen(i, p)
        /\ x = i * MaxContextChunk /\ X = ChunkTokens(i, p)
  OBVIOUS
<1>5. /\ b \in Nat /\ e \in Nat /\ total \in Nat /\ len \in Nat /\ x \in Nat
      /\ e = b + len /\ e <= total
  <2>1. p \in 1 .. n /\ p \in 0 .. n /\ p - 1 \in 0 .. n /\ n \in 0 .. n
    BY <1>2
  <2>2. len \in Nat /\ x \in Nat
    BY <1>4, ChunkLenIs
  <2>3. c[p] = c[p - 1] + ChunkLens(i)[p]
    BY <1>3, <2>1 DEF Sums
  <2>4. ChunkLens(i)[p] = len
    BY <1>4 DEF ChunkLens
  <2>5. PICK lens : lens = ChunkLens(i)
    OBVIOUS
  <2>6. lens \in [1 .. n -> Nat] /\ Sums(c, n, lens)
    BY <1>3, <2>5
  <2>7. c[p] <= c[n]
    BY <1>2, <2>1, <2>6, SumsRise
  <2> QED BY <1>4, <2>1, <2>2, <2>3, <2>4, <2>7
<1>6. PICK keys : keys = [k \in 1 .. total |-> ws[k - 1]]
  OBVIOUS
<1>7. KeysOf(ws, i, p) = SubSeq(keys, b + 1, e)
  BY <1>3, <1>4, <1>6 DEF KeysOf, Keys
<1>8. ASSUME NEW k \in b + 1 .. e
      PROVE  keys[k] = <<p, x + (k - b - 1)>> /\ keys[k] \in X
  <2>1. PICK j : j = k - b - 1
    OBVIOUS
  <2>2. j \in Nat /\ j < len /\ k \in 1 .. total /\ k - 1 = b + j
    BY <1>5, <2>1
  <2>3. keys[k] = ws[b + j]
    BY <1>6, <2>2
  <2>4. ws[b + j] = Cached(p, x + j)
    <3>1. CuLen(i, p) = b
      BY <1>3, <1>4
    <3> QED BY <1>4, <2>2, <3>1 DEF InRows
  <2>5. x + j < Context(p)
    BY <1>4, <2>2, ChunkLenIs
  <2>6. Context(p) \in Nat /\ prefills[p].query \in Nat
        /\ SeqLen(p) = Context(p) + prefills[p].query
    BY PrefillIs
  <2>7. x + j < SeqLen(p)
    BY <1>5, <2>2, <2>5, <2>6
  <2>8. keys[k] = <<p, x + j>>
    BY <2>3, <2>4, <2>7 DEF Cached
  <2>9. x + j \in x .. x + len - 1
    BY <1>5, <2>2
  <2>10. <<p, x + j>> \in X
    BY <1>4, <2>9 DEF ChunkTokens, Tokens
  <2> QED BY <2>1, <2>8, <2>10
<1>9. PICK lo, sub : lo = b + 1 /\ sub = SubSeq(keys, lo, e)
  OBVIOUS
<1>10. lo \in Int /\ e \in Int /\ (\A k \in lo .. e : keys[k] \in X)
       /\ e - lo + 1 = len /\ (lo <= e => e - lo + 1 = len) /\ (~ (lo <= e) => len = 0)
  BY <1>5, <1>8, <1>9
<1>11. /\ sub \in Seq(X)
       /\ Len(sub) = IF lo <= e THEN e - lo + 1 ELSE 0
       /\ \A k \in 1 .. e - lo + 1 : sub[k] = keys[lo + k - 1]
  BY <1>9, <1>10, SubSeqProperties
<1>12. Len(sub) = len
  BY <1>10, <1>11
<1>13. \A k \in 1 .. len : sub[k] = <<p, x + (k - 1)>>
  <2> TAKE k \in 1 .. len
  <2>1. PICK y : y = b + k
    OBVIOUS
  <2>2. y \in b + 1 .. e /\ lo + k - 1 = y /\ y - b - 1 = k - 1
    BY <1>5, <1>9, <2>1
  <2>3. sub[k] = keys[y]
    BY <1>10, <1>11, <2>2
  <2> QED BY <1>8, <2>2, <2>3
<1>14. X = {<<p, tok>> : tok \in x .. x + len - 1}
  BY <1>4 DEF ChunkTokens, Tokens
<1>15. \A z \in X : \E k \in 1 .. len : sub[k] = z
  <2> TAKE z \in X
  <2>1. PICK tok \in x .. x + len - 1 : z = <<p, tok>>
    BY <1>14
  <2>2. PICK k : k = tok - x + 1
    OBVIOUS
  <2>3. k \in 1 .. len /\ x + (k - 1) = tok
    BY <1>5, <2>2
  <2>4. sub[k] = z
    BY <1>13, <2>1, <2>3
  <2> QED BY <2>3, <2>4
<1>16. \A k, l \in 1 .. len : sub[k] = sub[l] => k = l
  <2> SUFFICES ASSUME NEW k \in 1 .. len, NEW l \in 1 .. len, sub[k] = sub[l]
               PROVE  k = l
    OBVIOUS
  <2>1. PICK a, d : a = x + (k - 1) /\ d = x + (l - 1)
    OBVIOUS
  <2>2. <<p, a>> = <<p, d>>
    BY <1>13, <2>1
  <2>3. a = d
    BY <2>2
  <2> QED BY <1>5, <2>1, <2>3
<1>17. Once(sub, X)
  BY <1>11, <1>12, <1>15, <1>16 DEF Once
<1> QED BY <1>4, <1>7, <1>9, <1>17

-----------------------------------------------------------------------------
(***************************************************************************)
(* The keys of the chunks so far.                                          *)
(***************************************************************************)
SoFar(i, p) ==
  IF i * MaxContextChunk < Context(p) THEN i * MaxContextChunk ELSE Context(p)
TokensTo(i, p) == Tokens(p, 0, SoFar(i, p) - 1)

\* The tokens up to chunk i + 1 are those up to chunk i and those of chunk i.
LEMMA NextChunk ==
  ASSUME Batch, Ordered, HasContext, NEW i \in Nat, NEW p \in Prefills
  PROVE  /\ TokensTo(i + 1, p) = TokensTo(i, p) \cup ChunkTokens(i, p)
         /\ TokensTo(i, p) \cap ChunkTokens(i, p) = {}
         /\ ChunkLen(i, p) = 0 => TokensTo(i + 1, p) = TokensTo(i, p)
<1>1. PICK x, M, len, ctx, a, b :
        /\ x = i * MaxContextChunk /\ M = MaxContextChunk /\ len = ChunkLen(i, p)
        /\ ctx = Context(p) /\ a = SoFar(i, p) /\ b = SoFar(i + 1, p)
  OBVIOUS
<1>2. /\ x \in Nat /\ M \in Nat \ {0} /\ len \in Nat /\ ctx \in Nat
      /\ \A j \in Nat : j < len <=> x + j < ctx /\ j < M
  BY <1>1, ChunkLenIs, ChunkGeometry, PrefillIs
<1>3. (i + 1) * MaxContextChunk = x + M
  BY <1>1, <1>2
<1>4. /\ a = IF x < ctx THEN x ELSE ctx
      /\ b = IF x + M < ctx THEN x + M ELSE ctx
  BY <1>1, <1>3 DEF SoFar
<1>5. len = IF x < ctx THEN b - a ELSE 0
  <2>1. CASE ~ (x < ctx)
    <3>1. ~ (0 < len)
      BY <1>2, <2>1
    <3> QED BY <1>2, <2>1, <3>1
  <2>2. CASE x < ctx
    <3>1. PICK d : d = b - a
      OBVIOUS
    <3>2. d \in Nat /\ \A j \in Nat : j < d <=> x + j < ctx /\ j < M
      BY <1>2, <1>4, <2>2, <3>1
    <3>3. ~ (d < len) /\ ~ (len < d)
      BY <1>2, <3>2
    <3> QED BY <1>2, <2>2, <3>1, <3>2, <3>3
  <2> QED BY <2>1, <2>2
<1>6. a \in Nat /\ b \in Nat /\ (len # 0 => a = x /\ b = x + len) /\ (len = 0 => b = a)
  <2>1. CASE x < ctx
    <3>1. b # a
      BY <1>2, <1>4, <2>1
    <3> QED BY <1>2, <1>4, <1>5, <2>1, <3>1
  <2>2. CASE ~ (x < ctx)
    BY <1>2, <1>4, <1>5, <2>2
  <2> QED BY <2>1, <2>2
<1>7. CASE len = 0
  <2>1. x .. x + len - 1 = {}
    BY <1>2, <1>7
  <2>2. ChunkTokens(i, p) = {}
    BY <1>1, <2>1 DEF ChunkTokens, Tokens
  <2> QED BY <1>1, <1>6, <1>7, <2>2 DEF TokensTo
<1>8. CASE len # 0
  <2>1. 0 .. b - 1 = (0 .. x - 1) \cup (x .. x + len - 1)
    BY <1>2, <1>6, <1>8
  <2>2. (0 .. x - 1) \cap (x .. x + len - 1) = {}
    BY <1>2
  <2>3. /\ TokensTo(i + 1, p) = {<<p, tok>> : tok \in 0 .. b - 1}
        /\ TokensTo(i, p) = {<<p, tok>> : tok \in 0 .. x - 1}
        /\ ChunkTokens(i, p) = {<<p, tok>> : tok \in x .. x + len - 1}
    BY <1>1, <1>6, <1>8 DEF TokensTo, ChunkTokens, Tokens
  <2>4. PICK I, J, K : I = 0 .. b - 1 /\ J = 0 .. x - 1 /\ K = x .. x + len - 1
    OBVIOUS
  <2>5. I = J \cup K /\ J \cap K = {}
    BY <2>1, <2>2, <2>4
  <2>6. /\ TokensTo(i + 1, p) = {<<p, tok>> : tok \in I}
        /\ TokensTo(i, p) = {<<p, tok>> : tok \in J}
        /\ ChunkTokens(i, p) = {<<p, tok>> : tok \in K}
    BY <2>3, <2>4
  <2> QED BY <1>1, <1>8, <2>5, <2>6
<1> QED BY <1>7, <1>8

\* The last chunk ends behind the longest context.
LEMMA ChunksEnd ==
  ASSUME Batch, Ordered, HasContext, NEW p \in Prefills
  PROVE  NumChunks \in Nat /\ TokensTo(NumChunks, p) = Tokens(p, 0, Context(p) - 1)
<1> DEFINE S == {Context(q) : q \in Prefills}
<1>1. PICK M, n, longest : M = MaxContextChunk /\ n = NumChunks /\ longest = Max(S)
  OBVIOUS
<1>2. M \in Nat \ {0} /\ \A q \in Prefills : Context(q) \in Nat
  BY <1>1, ChunkGeometry, PrefillIs
<1>3. longest \in Nat /\ \A q \in Prefills : Context(q) <= longest
  <2>1. S \subseteq Nat /\ S # {}
    BY <1>2
  <2>2. MaxModelLen \in Nat
    BY GeometryAssumption
  <2>3. \A q \in Prefills : Context(q) <= MaxModelLen
    <3> TAKE q \in Prefills
    <3>1. SeqLen(q) <= MaxModelLen /\ SeqLen(q) = Context(q) + prefills[q].query
          /\ Context(q) \in Nat /\ prefills[q].query \in Nat
      BY PrefillIs DEF Batch
    <3> QED BY <2>2, <3>1
  <2>4. \A x \in S : x <= MaxModelLen
    BY <2>3
  <2>5. \A q \in Prefills : Context(q) \in S
    OBVIOUS
  <2> HIDE DEF S
  <2>6. longest \in S /\ \A x \in S : x <= longest
    BY <1>1, <2>1, <2>2, <2>4, LargestIs
  <2> QED BY <2>1, <2>5, <2>6
<1>4. n = Cdiv(longest, M)
  BY <1>1 DEF NumChunks
<1>5. n \in Nat /\ longest <= M * n
  BY <1>2, <1>3, <1>4, CdivCovers
<1>6. ~ (n * MaxContextChunk < Context(p))
  <2>1. n * MaxContextChunk = M * n /\ M * n \in Nat
    BY <1>1, <1>2, <1>5
  <2>2. Context(p) \in Nat /\ Context(p) <= longest
    BY <1>2, <1>3
  <2> HIDE DEF S
  <2> QED BY <1>3, <1>5, <2>1, <2>2
<1>7. SoFar(n, p) = Context(p)
  BY <1>6 DEF SoFar
<1>8. TokensTo(n, p) = Tokens(p, 0, Context(p) - 1)
  BY <1>7 DEF TokensTo
<1> QED BY <1>1, <1>5, <1>8

\* A chunk that is passed over has no tokens.
LEMMA NoRows ==
  ASSUME Batch, Ordered, HasContext, NEW i \in Nat, Toks(i) = 0, NEW p \in Prefills,
         dcp > 1 => i = 0 \/ Agree
  PROVE  ChunkLen(i, p) = 0
<1>1. PICK n : n = Len(prefills)
  OBVIOUS
<1>2. n \in Nat /\ Prefills = 1 .. n
  BY <1>1, PrefillCount
<1>3. PICK x, len : x = i * MaxContextChunk /\ len = ChunkLen(i, p)
  OBVIOUS
<1>4. x \in Nat /\ len \in Nat
  BY <1>3, ChunkLenIs
<1>5. CASE dcp > 1
  <2>1. PICK c \in [0 .. n -> Nat] :
          /\ PaddedLens(i) \in [1 .. n -> Nat]
          /\ Sums(c, n, PaddedLens(i))
          /\ PaddedCu(i, n + 1) = c[n]
    BY <1>1, PaddedSums
  <2>2. PICK lens : lens = PaddedLens(i)
    OBVIOUS
  <2>3. c[n] = 0 /\ lens \in [1 .. n -> Nat] /\ Sums(c, n, lens) /\ p \in 1 .. n
    BY <1>1, <1>2, <1>5, <2>1, <2>2 DEF Toks
  <2>4. lens[p] = 0
    BY <1>2, <2>3, NoPart
  <2>5. PaddedLen(i, p) = 0
    BY <2>2, <2>4 DEF PaddedLens
  <2>6. PICK y, more : y = i * Round /\ more = RoundLen(i, p)
    OBVIOUS
  <2>7. y \in Nat /\ more \in Nat
    BY <2>6, RoundLenIs
  <2>8. more = 0
    <3> SUFFICES ASSUME more # 0 PROVE FALSE
      OBVIOUS
    <3>1. y \in y .. y + more - 1
      BY <2>7
    <3>2. <<p, y>> \in RoundTokens(i, p)
      BY <2>6, <3>1 DEF RoundTokens, Tokens
    <3>3. PICK s \in Group : <<p, y>> \in ShareTokens(i, p, s)
      BY <1>5, <3>2, SharesAreChunk
    <3>4. PICK mine : mine = LocalChunkLen(i, p, s)
      OBVIOUS
    <3>5. mine \in Nat /\ \A j \in Nat : j < mine => j < PaddedLen(i, p)
      BY <1>5, <3>4, ShareIndex
    <3>6. \E j \in 0 .. mine - 1 : TRUE
      BY <3>3, <3>4 DEF ShareTokens
    <3>7. 0 < mine
      BY <3>5, <3>6
    <3> QED BY <2>5, <3>5, <3>7
  <2>9. len <= more
    <3>1. CASE i = 0
      BY <1>3, <2>6, <3>1, FirstLens
    <3>2. CASE Agree
      BY <1>3, <1>4, <2>6, <3>2, Agreed
    <3> QED BY <1>5, <3>1, <3>2
  <2> QED BY <1>3, <1>4, <2>7, <2>8, <2>9
<1>6. CASE ~ (dcp > 1)
  <2>1. PICK c \in [0 .. n -> Nat] :
          /\ ChunkLens(i) \in [1 .. n -> Nat]
          /\ Sums(c, n, ChunkLens(i))
          /\ ChunkTotal(i) = c[n]
    BY <1>1, ChunkSums
  <2>2. PICK lens : lens = ChunkLens(i)
    OBVIOUS
  <2>3. c[n] = 0 /\ lens \in [1 .. n -> Nat] /\ Sums(c, n, lens) /\ p \in 1 .. n
    BY <1>2, <1>6, <2>1, <2>2 DEF Toks
  <2>4. lens[p] = 0
    BY <1>2, <2>3, NoPart
  <2> QED BY <2>2, <2>4 DEF ChunkLens
<1> QED BY <1>5, <1>6

\* Without a group a chunk fits the workspace.
LEMMA ChunkFitsRows ==
  ASSUME Batch, Ordered, HasContext, ~ (dcp > 1), NEW i \in Nat
  PROVE  Toks(i) \in Nat /\ Toks(i) <= WorkspaceRows
<1>1. PICK n, W, M : n = Len(prefills) /\ W = WithContext /\ M = MaxContextChunk
  OBVIOUS
<1>2. n \in Nat /\ Prefills = 1 .. n
  BY <1>1, PrefillCount
<1>3. PICK c \in [0 .. n -> Nat] :
        /\ ChunkLens(i) \in [1 .. n -> Nat]
        /\ Sums(c, n, ChunkLens(i))
        /\ ChunkTotal(i) = c[n]
  BY <1>1, ChunkSums
<1>4. PICK lens : lens = ChunkLens(i)
  OBVIOUS
<1>5. W \in Nat /\ M \in Nat /\ M * W <= WorkspaceSize /\ WorkspaceSize \in Nat
  BY <1>1, ContextFirst, ChunkGeometry, WorkspaceHolds
<1>6. \A k \in 1 .. n : lens[k] <= M /\ (W < k => lens[k] = 0)
  <2> TAKE k \in 1 .. n
  <2>1. k \in Prefills /\ lens[k] = ChunkLen(i, k)
    BY <1>2, <1>4 DEF ChunkLens
  <2>2. ChunkLen(i, k) <= M /\ (Context(k) = 0 => ChunkLen(i, k) = 0)
    BY <1>1, <2>1, ChunkLenIs
  <2>3. W < k => Context(k) = 0
    <3>1. k <= W <=> Context(k) > 0
      BY <1>1, <2>1, ContextFirst
    <3>2. Context(k) \in Nat
      BY <2>1, PrefillIs
    <3> QED BY <1>2, <1>5, <3>1, <3>2
  <2> QED BY <2>1, <2>2, <2>3
<1>7. lens \in [1 .. n -> Nat] /\ Sums(c, n, lens)
  BY <1>3, <1>4
<1>8. c[n] <= M * W
  BY <1>2, <1>5, <1>6, <1>7, SumsBound
<1>9. Toks(i) = c[n] /\ c[n] \in Nat
  BY <1>2, <1>3 DEF Toks
<1>10. M * W \in Nat /\ WorkspaceRows = WorkspaceSize
  BY <1>5 DEF WorkspaceRows
<1> QED BY <1>5, <1>8, <1>9, <1>10

-----------------------------------------------------------------------------
(***************************************************************************)
(* The chunked prefill at each of its steps.                               *)
(***************************************************************************)

\* A rank's own rows of a chunk, before the exchange.
OwnRows(ws, s, i) ==
  \A p \in Prefills : \A j \in Nat :
    j < PaddedLen(i, p) =>
      ws[PaddedCu(i, p) + j] = LocalRecord(s, p, i * LocalChunk + j)

\* Once the first chunk is done, chunks and rounds are cut alike.
CutAlike(i) == dcp > 1 /\ i # 0 => Agree

\* The gathered rows of all ranks have room behind a rank's own.
RowsFit(i) ==
  /\ Toks(i) \in Nat \ {0} /\ Toks(i) <= GatherOffset
  /\ GatherOffset * (dcp + 1) = WorkspaceRows

Started == step = "new" => chunk = 0 /\ prefix.keys = Nothing

Merging ==
  \A i \in Nat : i = chunk /\ step \in {"gather", "exchange", "attend"} =>
    /\ HasContext /\ CutAlike(i)
    /\ \A r \in Group, p \in Prefills : Once(prefix.keys[r][p], TokensTo(i, p))

Exchanging ==
  \A i \in Nat : i = chunk /\ step = "exchange" =>
    /\ dcp > 1 /\ RowsFit(i)
    /\ \A s \in Group : \A ws : ws = workspace[s] => OwnRows(ws, s, i)

Attending ==
  \A i \in Nat : i = chunk /\ step = "attend" =>
    \A r \in Group : \A ws : ws = workspace[r] =>
      /\ dcp > 1 => Together(ws, i)
      /\ ~ (dcp > 1) => InRows(ws, i)

Through ==
  step = "merge" =>
    /\ HasContext
    /\ \A r \in Group, p \in Prefills :
         Once(prefix.keys[r][p], Tokens(p, 0, Context(p) - 1))

AllTokens(keys, p) ==
  /\ Len(keys) = SeqLen(p)
  /\ ToSet(keys) = {<<p, tok>> : tok \in 0 .. SeqLen(p) - 1}

\* The inductive invariant of the chunked prefill.
KeysInv ==
  /\ Batch /\ Ordered /\ chunk \in Nat
  /\ Started /\ Merging /\ Exchanging /\ Attending /\ Through /\ EveryKeyOnce

-----------------------------------------------------------------------------
\* What depends on the batch alone.
LEMMA SizesStay ==
  ASSUME UNCHANGED batchVars
  PROVE  /\ dcp' = dcp /\ Group' = Group /\ Prefills' = Prefills
         /\ (HasContext' <=> HasContext) /\ WithContext' = WithContext
         /\ \A p : Context(p)' = Context(p) /\ SeqLen(p)' = SeqLen(p)
         /\ MaxContextChunk' = MaxContextChunk /\ LocalChunk' = LocalChunk
         /\ WorkspaceRows' = WorkspaceRows /\ GatherOffset' = GatherOffset
         /\ Nothing' = Nothing /\ NumMhaTokens' = NumMhaTokens
         /\ (Ordered' <=> Ordered) /\ (Agree' <=> Agree)
<1>1. dcp' = dcp /\ prefills' = prefills /\ sparse' = sparse
  BY DEF batchVars
<1>2. Group' = Group /\ Prefills' = Prefills
  BY <1>1 DEF Group, Prefills
<1>3. \A p : Context(p)' = Context(p) /\ SeqLen(p)' = SeqLen(p)
  BY <1>1 DEF Context, SeqLen
<1>4. WithContext' = WithContext
  BY <1>2, <1>3 DEF WithContext
<1>5. HasContext' <=> HasContext
  BY <1>4 DEF HasContext
<1>6. MaxContextChunk' = MaxContextChunk
  BY <1>4 DEF MaxContextChunk
<1>7. LocalChunk' = LocalChunk
  BY <1>1, <1>6 DEF LocalChunk
<1>8. WorkspaceRows' = WorkspaceRows
  BY <1>1 DEF WorkspaceRows
<1>9. GatherOffset' = GatherOffset
  BY <1>1, <1>8 DEF GatherOffset
<1>10. Nothing' = Nothing
  BY <1>2 DEF Nothing
<1>11. NumMhaTokens' = NumMhaTokens
  BY <1>1 DEF NumMhaTokens, NumPrefillTokens
<1>12. Ordered' <=> Ordered
  BY <1>2, <1>3 DEF Ordered
<1>13. Agree' <=> Agree
  <2>1. Round' = Round
    BY <1>1, <1>7 DEF Round
  <2> QED BY <1>2, <1>3, <1>6, <2>1 DEF Agree
<1> QED BY <1>1, <1>2, <1>3, <1>4, <1>5, <1>6, <1>7, <1>8, <1>9, <1>10, <1>11, <1>12, <1>13

\* The plan of the chunks is the batch's: it stays when the batch does.
LEMMA ChunksStay ==
  ASSUME UNCHANGED batchVars
  PROVE  /\ \A i, p : /\ ChunkLen(i, p)' = ChunkLen(i, p) /\ CuLen(i, p)' = CuLen(i, p)
                      /\ PaddedLen(i, p)' = PaddedLen(i, p)
                      /\ PaddedCu(i, p)' = PaddedCu(i, p)
                      /\ TokensTo(i, p)' = TokensTo(i, p)
                      /\ Cached(p, i)' = Cached(p, i)
         /\ \A i : Toks(i)' = Toks(i)
         /\ \A s, p, l : LocalRecord(s, p, l)' = LocalRecord(s, p, l)
<1>1. \A i, p : ChunkLen(i, p)' = ChunkLen(i, p)
  BY SizesStay DEF ChunkLen
<1>2. \A i, p : CuLen(i, p)' = CuLen(i, p)
  <2> TAKE i, p
  <2>1. [q \in Prefills |-> ChunkLen(i, q)]' = [q \in Prefills |-> ChunkLen(i, q)]
    BY <1>1, SizesStay
  <2> QED BY <2>1 DEF CuLen
<1>3. \A i, p : PaddedLen(i, p)' = PaddedLen(i, p)
  <2>1. \A p : PaddedLocalContext(p)' = PaddedLocalContext(p)
    BY SizesStay DEF PaddedLocalContext
  <2> QED BY <2>1, SizesStay DEF PaddedLen
<1>4. \A i, p : PaddedCu(i, p)' = PaddedCu(i, p)
  <2> TAKE i, p
  <2>1. [q \in Prefills |-> PaddedLen(i, q)]' = [q \in Prefills |-> PaddedLen(i, q)]
    BY <1>3, SizesStay
  <2> QED BY <2>1 DEF PaddedCu
<1>5. \A i, p : TokensTo(i, p)' = TokensTo(i, p)
  BY SizesStay DEF TokensTo, SoFar
<1>6. \A p, i : Cached(p, i)' = Cached(p, i)
  BY SizesStay DEF Cached
<1>7. \A i : Toks(i)' = Toks(i)
  <2> TAKE i
  <2>1. prefills' = prefills
    BY DEF batchVars
  <2>2. PICK n : n = Len(prefills) + 1 /\ n = Len(prefills')  + 1
    BY <2>1
  <2>3. PaddedCu(i, n)' = PaddedCu(i, n) /\ CuLen(i, n)' = CuLen(i, n)
    BY <1>2, <1>4
  <2> QED BY <2>1, <2>2, <2>3, SizesStay DEF Toks, ChunkTotal
<1>8. \A s, p, l : LocalRecord(s, p, l)' = LocalRecord(s, p, l)
  <2> TAKE s, p, l
  <2>1. PICK tok : tok = Layout(dcp)!GlobalPosition(l, s)
    OBVIOUS
  <2>2. tok = Layout(dcp')!GlobalPosition(l, s)
    BY <2>1, SizesStay
  <2>3. LocalRecord(s, p, l)' = Cached(p, tok)'
    BY <2>2 DEF LocalRecord
  <2> QED BY <1>6, <2>1, <2>3 DEF LocalRecord
<1> QED BY <1>1, <1>2, <1>3, <1>4, <1>5, <1>6, <1>7, <1>8

-----------------------------------------------------------------------------
\* What a workspace says of a chunk depends on the batch alone.
LEMMA RowsStay ==
  ASSUME UNCHANGED batchVars
  PROVE  /\ \A ws, s, i : OwnRows(ws, s, i)' <=> OwnRows(ws, s, i)
         /\ \A ws, i : Together(ws, i)' <=> Together(ws, i)
         /\ \A ws, i : InRows(ws, i)' <=> InRows(ws, i)
         /\ \A i : RowsFit(i)' <=> RowsFit(i)
<1>1. \A ws, s, i : OwnRows(ws, s, i)' <=> OwnRows(ws, s, i)
  <2> TAKE ws, s, i
  <2>1. \A p, j : LocalRecord(s, p, i * LocalChunk + j)'
                    = LocalRecord(s, p, i * LocalChunk + j)
    BY ChunksStay, SizesStay
  <2> QED BY <2>1, ChunksStay, SizesStay DEF OwnRows
<1>2. \A ws, i : Together(ws, i)' <=> Together(ws, i)
  <2> TAKE ws, i
  <2>1. \A s, p, j : LocalRecord(s, p, i * LocalChunk + j)'
                       = LocalRecord(s, p, i * LocalChunk + j)
    BY ChunksStay, SizesStay
  <2> QED BY <2>1, ChunksStay, SizesStay DEF Together
<1>3. \A ws, i : InRows(ws, i)' <=> InRows(ws, i)
  <2> TAKE ws, i
  <2>1. \A p, j : Cached(p, i * MaxContextChunk + j)'
                    = Cached(p, i * MaxContextChunk + j)
    BY ChunksStay, SizesStay
  <2> QED BY <2>1, ChunksStay, SizesStay DEF InRows
<1>4. \A i : RowsFit(i)' <=> RowsFit(i)
  BY ChunksStay, SizesStay DEF RowsFit
<1> QED BY <1>1, <1>2, <1>3, <1>4

\* A sequence of all the tokens, each once, is what the property asks for.
LEMMA OnceIsAll ==
  ASSUME Batch, NEW p \in Prefills, NEW keys, Once(keys, Tokens(p, 0, SeqLen(p) - 1))
  PROVE  AllTokens(keys, p)
<1>1. PICK n, last : n = SeqLen(p) /\ last = n - 1
  OBVIOUS
<1>2. n \in Nat /\ last \in Int /\ last = 0 + n - 1
  <2>1. Context(p) \in Nat /\ prefills[p].query \in Nat
        /\ SeqLen(p) = Context(p) + prefills[p].query
    BY PrefillIs
  <2> QED BY <1>1, <2>1
<1>3. Once(keys, Tokens(p, 0, last))
  BY <1>1
<1>4. Len(keys) = n /\ ToSet(keys) = Tokens(p, 0, last)
  BY <1>2, <1>3, OnceLen
<1> QED BY <1>1, <1>4 DEF AllTokens, Tokens

\* The new tokens of a prefill, each once.
LEMMA NewOnce ==
  ASSUME Batch, NEW p \in Prefills
  PROVE  Once(NewTokens(p), Tokens(p, Context(p), SeqLen(p) - 1))
<1>1. PICK ctx, n, new, X : /\ ctx = Context(p) /\ n = prefills[p].query
                            /\ new = NewTokens(p) /\ X = Tokens(p, ctx, SeqLen(p) - 1)
  OBVIOUS
<1>2. ctx \in Nat /\ n \in Nat /\ SeqLen(p) = ctx + n
  BY <1>1, PrefillIs
<1>3. new = [i \in 1 .. n |-> <<p, ctx + i - 1>>]
  BY <1>1 DEF NewTokens
<1>4. X = {<<p, tok>> : tok \in ctx .. SeqLen(p) - 1}
  BY <1>1 DEF Tokens
<1>5. \A i \in 1 .. n : new[i] = <<p, ctx + i - 1>> /\ new[i] \in X
  <2> TAKE i \in 1 .. n
  <2>1. new[i] = <<p, ctx + i - 1>>
    BY <1>3
  <2>2. ctx + i - 1 \in ctx .. SeqLen(p) - 1
    BY <1>2
  <2> QED BY <1>4, <2>1, <2>2
<1>6. new \in Seq(X) /\ Len(new) = n
  <2>1. new = [i \in 1 .. n |-> new[i]]
    BY <1>3
  <2>2. new \in [1 .. n -> X]
    BY <1>5, <2>1
  <2> QED BY <1>2, <2>2
<1>7. \A x \in X : \E i \in 1 .. n : new[i] = x
  <2> TAKE x \in X
  <2>1. PICK tok \in ctx .. SeqLen(p) - 1 : x = <<p, tok>>
    BY <1>4
  <2>2. PICK i : i = tok - ctx + 1
    OBVIOUS
  <2>3. i \in 1 .. n /\ ctx + i - 1 = tok
    BY <1>2, <2>2
  <2>4. new[i] = x
    BY <1>5, <2>1, <2>3
  <2> QED BY <2>3, <2>4
<1>8. \A i, j \in 1 .. n : new[i] = new[j] => i = j
  <2> SUFFICES ASSUME NEW i \in 1 .. n, NEW j \in 1 .. n, new[i] = new[j]
               PROVE  i = j
    OBVIOUS
  <2>1. PICK a, b : a = ctx + i - 1 /\ b = ctx + j - 1
    OBVIOUS
  <2>2. <<p, a>> = <<p, b>>
    BY <1>5, <2>1
  <2>3. a = b
    BY <2>2
  <2> QED BY <1>2, <2>1, <2>3
<1>9. Once(new, X)
  BY <1>6, <1>7, <1>8 DEF Once
<1> QED BY <1>1, <1>9

\* Cached tokens and new ones.
LEMMA WithNewOnce ==
  ASSUME Batch, NEW p \in Prefills, NEW keys, Once(keys, Tokens(p, 0, Context(p) - 1))
  PROVE  AllTokens(keys \o NewTokens(p), p)
<1>1. PICK ctx, n, new : ctx = Context(p) /\ n = SeqLen(p) /\ new = NewTokens(p)
  OBVIOUS
<1>2. ctx \in Nat /\ n \in Nat /\ ctx <= n
  <2>1. Context(p) \in Nat /\ prefills[p].query \in Nat
        /\ SeqLen(p) = Context(p) + prefills[p].query
    BY PrefillIs
  <2> QED BY <1>1, <2>1
<1>3. PICK X, Y, Z : /\ X = Tokens(p, 0, ctx - 1) /\ Y = Tokens(p, ctx, n - 1)
                     /\ Z = Tokens(p, 0, n - 1)
  OBVIOUS
<1>4. Once(keys, X) /\ Once(new, Y)
  BY <1>1, <1>3, NewOnce
<1>5. Z = X \cup Y /\ X \cap Y = {}
  <2>1. PICK I, J, K : I = 0 .. n - 1 /\ J = 0 .. ctx - 1 /\ K = ctx .. n - 1
    OBVIOUS
  <2>2. I = J \cup K /\ J \cap K = {}
    BY <1>2, <2>1
  <2>3. /\ Z = {<<p, tok>> : tok \in I} /\ X = {<<p, tok>> : tok \in J}
        /\ Y = {<<p, tok>> : tok \in K}
    BY <1>3, <2>1 DEF Tokens
  <2> QED BY <2>2, <2>3
<1>6. Once(keys \o new, Z)
  BY <1>4, <1>5, OnceConcat
<1> QED BY <1>1, <1>3, <1>6, OnceIsAll

-----------------------------------------------------------------------------
\* A step that leaves batch and chunks alone.
LEMMA KeysRest ==
  ASSUME KeysInv, Batch', UNCHANGED <<batchVars, chunkVars>>
  PROVE  KeysInv'
<1>1. /\ UNCHANGED batchVars
      /\ UNCHANGED <<workspace, chunk, step, strided, prefix, spare, attended>>
  BY DEF chunkVars
<1>2. Started'
  BY <1>1, SizesStay DEF KeysInv, Started
<1>3. Merging'
  BY <1>1, SizesStay, ChunksStay DEF KeysInv, Merging, CutAlike
<1>4. Exchanging'
  BY <1>1, SizesStay, RowsStay DEF KeysInv, Exchanging
<1>5. Attending'
  BY <1>1, SizesStay, RowsStay DEF KeysInv, Attending
<1>6. Through'
  BY <1>1, SizesStay DEF KeysInv, Through
<1>7. EveryKeyOnce'
  BY <1>1, SizesStay DEF KeysInv, EveryKeyOnce
<1>8. Ordered' /\ chunk' \in Nat
  BY <1>1, SizesStay DEF KeysInv
<1> QED BY <1>2, <1>3, <1>4, <1>5, <1>6, <1>7, <1>8 DEF KeysInv

-----------------------------------------------------------------------------
\* Where nothing of a prefill is in the cache its new tokens are all it has.
LEMMA FreshIsAll ==
  ASSUME Batch, NEW p \in Prefills, Context(p) = 0
  PROVE  AllTokens(NewTokens(p), p)
<1>1. Once(NewTokens(p), Tokens(p, 0, SeqLen(p) - 1))
  BY NewOnce
<1> QED BY <1>1, OnceIsAll

\* A step that ends the layer.
LEMMA EndedStep ==
  ASSUME KeysInv, Batch', UNCHANGED batchVars, chunk' \in Nat, step' = "done",
         \A r \in Group, p \in Prefills : AllTokens(attended'[r][p], p)
  PROVE  KeysInv'
<1>1. EveryKeyOnce'
  <2>1. \A r \in Group, p \in Prefills :
          /\ Len(attended'[r][p]) = SeqLen(p)
          /\ ToSet(attended'[r][p]) = {<<p, tok>> : tok \in 0 .. SeqLen(p) - 1}
    BY DEF AllTokens
  <2> QED BY <2>1, SizesStay DEF EveryKeyOnce
<1>2. Started' /\ Merging' /\ Exchanging' /\ Attending' /\ Through'
  BY DEF Started, Merging, Exchanging, Attending, Through
<1> QED BY <1>1, <1>2, SizesStay DEF KeysInv

\* A step that leaves the layer running, with its workspace and result in hand.
LEMMA RunningStep ==
  ASSUME KeysInv, Batch', UNCHANGED batchVars, NEW i \in Nat, chunk' = i,
         step' \in {"gather", "exchange", "attend"}, HasContext, CutAlike(i),
         \A r \in Group, p \in Prefills : Once(prefix'.keys[r][p], TokensTo(i, p)),
         step' = "exchange" =>
           /\ dcp > 1 /\ RowsFit(i)
           /\ \A s \in Group : OwnRows(workspace'[s], s, i),
         step' = "attend" =>
           \A r \in Group : /\ dcp > 1 => Together(workspace'[r], i)
                            /\ ~ (dcp > 1) => InRows(workspace'[r], i)
  PROVE  KeysInv'
<1>1. Started' /\ Through' /\ EveryKeyOnce'
  BY DEF Started, Through, EveryKeyOnce
<1>2. Merging'
  <2> SUFFICES ASSUME NEW k \in Nat, k = chunk'
               PROVE  /\ HasContext' /\ CutAlike(k)'
                      /\ \A r \in Group', p \in Prefills' :
                           Once(prefix'.keys[r][p], TokensTo(k, p)')
    BY DEF Merging, Once
  <2>1. k = i
    OBVIOUS
  <2> QED BY <2>1, SizesStay, ChunksStay DEF CutAlike
<1>3. Exchanging'
  <2> SUFFICES ASSUME NEW k \in Nat, k = chunk', step' = "exchange"
               PROVE  /\ dcp' > 1 /\ RowsFit(k)'
                      /\ \A s \in Group' : \A ws : ws = workspace'[s] => OwnRows(ws, s, k)'
    BY DEF Exchanging
  <2>1. k = i
    OBVIOUS
  <2> QED BY <2>1, SizesStay, RowsStay
<1>4. Attending'
  <2> SUFFICES ASSUME NEW k \in Nat, k = chunk', step' = "attend"
               PROVE  \A r \in Group' : \A ws : ws = workspace'[r] =>
                        /\ dcp' > 1 => Together(ws, k)'
                        /\ ~ (dcp' > 1) => InRows(ws, k)'
    BY DEF Attending
  <2>1. k = i
    OBVIOUS
  <2> QED BY <2>1, SizesStay, RowsStay
<1> QED BY <1>1, <1>2, <1>3, <1>4, SizesStay DEF KeysInv

\* The new tokens first: nothing of the context is merged yet.
LEMMA RunNewTokensStep ==
  ASSUME KeysInv, Batch', UNCHANGED batchVars, RunNewTokens
  PROVE  KeysInv'
<1>1. Batch /\ Ordered /\ chunk = 0 /\ prefix.keys = Nothing
  BY DEF KeysInv, Started, RunNewTokens
<1>2. CASE HasContext
  <2>1. step' = "gather" /\ chunk' = 0 /\ prefix'.keys = Nothing
    BY <1>1, <1>2 DEF RunNewTokens
  <2>2. \A r \in Group, p \in Prefills : Once(prefix'.keys[r][p], TokensTo(0, p))
    <3> TAKE r \in Group, p \in Prefills
    <3>1. prefix'.keys[r][p] = <<>>
      BY <2>1 DEF Nothing
    <3>2. SoFar(0, p) = 0
      <4>1. MaxContextChunk \in Nat /\ Context(p) \in Nat
        BY <1>1, <1>2, ChunkGeometry, PrefillIs
      <4>2. 0 * MaxContextChunk = 0
        BY <4>1
      <4> QED BY <4>1, <4>2 DEF SoFar
    <3>3. TokensTo(0, p) = {}
      <4>1. 0 .. 0 - 1 = {}
        OBVIOUS
      <4> QED BY <3>2, <4>1 DEF TokensTo, Tokens
    <3> QED BY <3>1, <3>3, OnceNone
  <2>3. CutAlike(0)
    BY DEF CutAlike
  <2> QED BY <1>2, <2>1, <2>2, <2>3, RunningStep
<1>3. CASE ~HasContext
  <2>1. /\ step' = "done" /\ chunk' = 0
        /\ attended' = [r \in Group |-> [p \in Prefills |-> NewTokens(p)]]
    BY <1>1, <1>3 DEF RunNewTokens
  <2>2. \A r \in Group, p \in Prefills : AllTokens(attended'[r][p], p)
    <3> TAKE r \in Group, p \in Prefills
    <3>1. attended'[r][p] = NewTokens(p)
      BY <2>1
    <3>2. Context(p) = 0
      <4>1. WithContext \in Nat /\ (p <= WithContext <=> Context(p) > 0)
        BY <1>1, ContextFirst
      <4>2. WithContext = 0
        BY <1>3, <4>1 DEF HasContext
      <4>3. Context(p) \in Nat /\ p \in Nat \ {0}
        BY <1>1, PrefillIs, PrefillCount
      <4> QED BY <4>1, <4>2, <4>3
    <3> QED BY <1>1, <3>1, <3>2, FreshIsAll
  <2> QED BY <2>1, <2>2, EndedStep
<1> QED BY <1>2, <1>3

\* The context and the new tokens together are every token up to the last.
LEMMA MergeContextStep ==
  ASSUME KeysInv, Batch', UNCHANGED batchVars, MergeContext
  PROVE  KeysInv'
<1>1. /\ Batch /\ Ordered /\ chunk \in Nat /\ HasContext
      /\ \A r \in Group, p \in Prefills :
           Once(prefix.keys[r][p], Tokens(p, 0, Context(p) - 1))
  BY DEF KeysInv, Through, MergeContext
<1>2. \A a, b : Readable(MatchStrides(a, b))
  BY DEF Readable, MatchStrides
<1>3. /\ step' = "done" /\ chunk' = chunk
      /\ attended' = [r \in Group |-> [p \in Prefills |->
           IF p \in MergedPrefills THEN prefix.keys[r][p] \o NewTokens(p)
           ELSE NewTokens(p)]]
  BY <1>2 DEF MergeContext
<1>4. \A r \in Group, p \in Prefills : AllTokens(attended'[r][p], p)
  <2> TAKE r \in Group, p \in Prefills
  <2>1. CASE p \in MergedPrefills
    <3>1. PICK keys : keys = prefix.keys[r][p]
      OBVIOUS
    <3>2. attended'[r][p] = keys \o NewTokens(p)
      BY <1>3, <2>1, <3>1
    <3>3. Once(keys, Tokens(p, 0, Context(p) - 1))
      BY <1>1, <3>1
    <3> QED BY <1>1, <3>2, <3>3, WithNewOnce
  <2>2. CASE ~ (p \in MergedPrefills)
    <3>1. attended'[r][p] = NewTokens(p)
      BY <1>3, <2>2
    <3>2. Context(p) = 0
      <4>1. WithContext \in Nat /\ (p <= WithContext <=> Context(p) > 0)
        BY <1>1, ContextFirst
      <4>2. Context(p) \in Nat /\ p \in Nat \ {0}
        BY <1>1, PrefillIs, PrefillCount
      <4>3. ~ (p <= WithContext)
        BY <2>2, <4>1, <4>2 DEF MergedPrefills
      <4> QED BY <4>1, <4>2, <4>3
    <3> QED BY <1>1, <3>1, <3>2, FreshIsAll
  <2> QED BY <2>1, <2>2
<1> QED BY <1>1, <1>3, <1>4, EndedStep

\* One chunk more is merged into the result so far.
LEMMA AttendChunkStep ==
  ASSUME KeysInv, Batch', UNCHANGED batchVars, AttendChunk
  PROVE  KeysInv'
<1>1. PICK i : i = chunk
  OBVIOUS
<1>2. /\ Batch /\ Ordered /\ i \in Nat /\ HasContext /\ CutAlike(i)
      /\ \A r \in Group, p \in Prefills : Once(prefix.keys[r][p], TokensTo(i, p))
      /\ \A r \in Group : \A ws : ws = workspace[r] =>
           /\ dcp > 1 => Together(ws, i)
           /\ ~ (dcp > 1) => InRows(ws, i)
  BY <1>1 DEF KeysInv, Merging, Attending, AttendChunk
<1>3. \A a, b : Readable(MatchStrides(a, b))
  BY DEF Readable, MatchStrides
<1> DEFINE merged == [r \in Group |-> [p \in Prefills |->
                        prefix.keys[r][p] \o KeysOf(workspace[r], chunk, p)]]
<1>4. \/ step' = "failed" /\ chunk' = chunk
      \/ /\ step' = "gather" /\ chunk' = chunk + 1 /\ prefix'.keys = merged
         /\ dcp > 1 => \A r \in Group : ReorgFits(workspace[r], chunk)
  <2> DEFINE result == IF strided THEN "padded" ELSE "dense"
             pair == MatchStrides(prefix.layout, result)
             into == IF spare = "none" THEN "dense" ELSE spare
             kept == IF Readable(pair) THEN merged ELSE Nothing
  <2>1. \/ step' = "failed" /\ UNCHANGED <<chunk, prefix, spare>>
        \/ /\ step' = "gather" /\ chunk' = chunk + 1
           /\ dcp > 1 => \A r \in Group : ReorgFits(workspace[r], chunk)
           /\ \/ prefix' = [keys |-> merged, layout |-> result] /\ UNCHANGED spare
              \/ prefix' = [keys |-> kept, layout |-> into] /\ spare' = pair[1]
    BY DEF AttendChunk
  <2>2. kept = merged
    BY <1>3
  <2> HIDE DEF result, pair, into, merged, kept
  <2> QED BY <2>1, <2>2
<1>5. CASE step' = "failed" /\ chunk' = chunk
  <2>1. /\ Started' /\ Merging' /\ Exchanging' /\ Attending' /\ Through'
        /\ EveryKeyOnce'
    BY <1>5 DEF Started, Merging, Exchanging, Attending, Through, EveryKeyOnce
  <2> QED BY <1>1, <1>2, <1>5, <2>1, SizesStay DEF KeysInv
<1>6. CASE /\ step' = "gather" /\ chunk' = chunk + 1 /\ prefix'.keys = merged
           /\ dcp > 1 => \A r \in Group : ReorgFits(workspace[r], chunk)
  <2>0. dcp > 1 => Agree
    <3> SUFFICES ASSUME dcp > 1, i = 0 PROVE Agree
      BY <1>2 DEF CutAlike
    <3>1. PICK ws : ws = workspace[0]
      OBVIOUS
    <3>2. 0 \in Group
      BY <1>2, DealSizes DEF Group
    <3>3. Together(ws, 0)
      BY <1>2, <3>1, <3>2
    <3>4. ReorgFits(ws, 0)
      <4> HIDE DEF merged
      <4> QED BY <1>1, <1>6, <3>1, <3>2
    <3> QED BY <1>2, <3>3, <3>4, FitMeansAgree
  <2>1. \A r \in Group, p \in Prefills : Once(prefix'.keys[r][p], TokensTo(i + 1, p))
    <3> TAKE r \in Group, p \in Prefills
    <3>1. PICK ws, keys, more : /\ ws = workspace[r] /\ keys = prefix.keys[r][p]
                                /\ more = KeysOf(ws, i, p)
      OBVIOUS
    <3>2. prefix'.keys[r][p] = keys \o more
      <4>1. merged[r][p] = prefix.keys[r][p] \o KeysOf(workspace[r], chunk, p)
        OBVIOUS
      <4> HIDE DEF merged
      <4>2. prefix'.keys[r][p] = merged[r][p]
        BY <1>6
      <4> QED BY <1>1, <3>1, <4>1, <4>2
    <3> HIDE DEF merged
    <3>3. KeysRight(ws, i)
      <4>1. CASE dcp > 1
        <5>1. Together(ws, i)
          BY <1>2, <3>1, <4>1
        <5> QED BY <1>2, <2>0, <4>1, <5>1, ReorganizedKeys
      <4>2. CASE ~ (dcp > 1)
        <5>1. InRows(ws, i)
          BY <1>2, <3>1, <4>2
        <5> QED BY <1>2, <4>2, <5>1, PackedKeys
      <4> QED BY <4>1, <4>2
    <3>4. PICK X, Y, Z : X = TokensTo(i, p) /\ Y = ChunkTokens(i, p) /\ Z = TokensTo(i + 1, p)
      OBVIOUS
    <3>5. Once(more, Y)
      BY <3>1, <3>3, <3>4 DEF KeysRight
    <3>6. Once(keys, X)
      BY <1>2, <3>1, <3>4
    <3>7. Z = X \cup Y /\ X \cap Y = {}
      BY <1>2, <3>4, NextChunk
    <3>8. Once(keys \o more, Z)
      BY <3>5, <3>6, <3>7, OnceConcat
    <3> QED BY <3>2, <3>4, <3>8
  <2> HIDE DEF merged
  <2>2. i + 1 \in Nat /\ chunk' = i + 1 /\ step' = "gather"
    BY <1>1, <1>2, <1>6
  <2>3. CutAlike(i + 1)
    BY <2>0 DEF CutAlike
  <2> QED BY <1>2, <2>1, <2>2, <2>3, RunningStep
<1> QED BY <1>4, <1>5, <1>6

-----------------------------------------------------------------------------
\* The gather puts a rank's own rows of the chunk in its workspace.
LEMMA GatherChunkStep ==
  ASSUME KeysInv, Batch', UNCHANGED batchVars, GatherChunk
  PROVE  KeysInv'
<1>1. PICK i : i = chunk
  OBVIOUS
<1>2. /\ Batch /\ Ordered /\ i \in Nat /\ HasContext /\ CutAlike(i) /\ step = "gather"
      /\ \A r \in Group, p \in Prefills : Once(prefix.keys[r][p], TokensTo(i, p))
  BY <1>1 DEF KeysInv, Merging, GatherChunk
<1>3. UNCHANGED prefix
  BY DEF GatherChunk
<1>4. CASE chunk = NumChunks
  <2>1. step' = "merge" /\ chunk' = i
    BY <1>1, <1>4 DEF GatherChunk
  <2>2. \A r \in Group, p \in Prefills :
          Once(prefix'.keys[r][p], Tokens(p, 0, Context(p) - 1))
    <3> TAKE r \in Group, p \in Prefills
    <3>1. TokensTo(i, p) = Tokens(p, 0, Context(p) - 1)
      BY <1>1, <1>2, <1>4, ChunksEnd
    <3> QED BY <1>2, <1>3, <3>1
  <2>3. Through'
    BY <1>2, <2>2, SizesStay DEF Through
  <2>4. Started' /\ Merging' /\ Exchanging' /\ Attending' /\ EveryKeyOnce'
    BY <2>1 DEF Started, Merging, Exchanging, Attending, EveryKeyOnce
  <2> QED BY <1>2, <2>1, <2>3, <2>4, SizesStay DEF KeysInv
<1>5. CASE chunk # NumChunks /\ ~ChunkFits(chunk)
  <2>1. step' = "failed" /\ chunk' = i
    BY <1>1, <1>5 DEF GatherChunk
  <2>2. /\ Started' /\ Merging' /\ Exchanging' /\ Attending' /\ Through'
        /\ EveryKeyOnce'
    BY <2>1 DEF Started, Merging, Exchanging, Attending, Through, EveryKeyOnce
  <2> QED BY <1>2, <2>1, <2>2, SizesStay DEF KeysInv
<1>6. CASE chunk # NumChunks /\ ChunkFits(chunk) /\ Toks(chunk) = 0
  <2>1. step' = "gather" /\ chunk' = i + 1
    BY <1>1, <1>2, <1>6 DEF GatherChunk
  <2>0. \A p \in Prefills : ChunkLen(i, p) = 0
    <3>1. (dcp > 1 => i = 0 \/ Agree) /\ Toks(i) = 0
      BY <1>1, <1>2, <1>6 DEF CutAlike
    <3> QED BY <1>2, <3>1, NoRows
  <2>2. \A r \in Group, p \in Prefills : Once(prefix'.keys[r][p], TokensTo(i + 1, p))
    <3> TAKE r \in Group, p \in Prefills
    <3>1. ChunkLen(i, p) = 0
      BY <2>0
    <3>2. TokensTo(i + 1, p) = TokensTo(i, p)
      BY <1>2, <3>1, NextChunk
    <3> QED BY <1>2, <1>3, <3>2
  <2>3. i + 1 \in Nat
    BY <1>2
  <2>4. CutAlike(i + 1)
    <3>1. CASE i = 0
      <4>1. \A p \in Prefills : Context(p) <= MaxContextChunk
        <5> TAKE p \in Prefills
        <5>1. Context(p) = 0
          BY <1>2, <2>0, <3>1, FirstLens
        <5>2. MaxContextChunk \in Nat
          BY <1>2, ChunkGeometry
        <5> QED BY <5>1, <5>2
      <4> QED BY <4>1 DEF CutAlike, Agree
    <3>2. CASE i # 0
      BY <1>2, <3>2 DEF CutAlike
    <3> QED BY <3>1, <3>2
  <2> QED BY <1>2, <2>1, <2>2, <2>3, <2>4, RunningStep
<1>7. CASE chunk # NumChunks /\ ChunkFits(chunk) /\ Toks(chunk) # 0
  <2>1. /\ chunk' = i /\ step' = IF dcp > 1 THEN "exchange" ELSE "attend"
        /\ workspace' = [r \in Group |-> [row \in 0 .. WorkspaceRows - 1 |->
             IF row < Toks(i) THEN GatherRow(r, i, row) ELSE workspace[r][row]]]
    BY <1>1, <1>7 DEF GatherChunk
  <2>2. \A r \in Group, p \in Prefills : Once(prefix'.keys[r][p], TokensTo(i, p))
    BY <1>2, <1>3
  <2>3. WorkspaceRows \in Nat
    <3>1. WorkspaceSize \in Nat /\ dcp \in Nat \ {0}
      BY <1>2, WorkspaceHolds, DealSizes
    <3>2. WorkspaceSize \div dcp \in Nat
      BY <3>1, DivMod
    <3> QED BY <3>1, <3>2 DEF WorkspaceRows
  <2>4. ASSUME NEW r \in Group, NEW row \in Nat, row < Toks(i), Toks(i) \in Nat,
               Toks(i) <= WorkspaceRows
        PROVE  workspace'[r][row] = GatherRow(r, i, row)
    <3>1. row \in 0 .. WorkspaceRows - 1
      BY <2>3, <2>4
    <3> QED BY <2>1, <2>4, <3>1
  <2>5. CASE dcp > 1
    <3>1. step' = "exchange"
      BY <2>1, <2>5
    <3>2. PICK n : n = Len(prefills)
      OBVIOUS
    <3>3. Toks(i) \in Nat
      <4>1. PICK c \in [0 .. n -> Nat] : PaddedCu(i, n + 1) = c[n]
        BY <1>2, <3>2, PaddedSums
      <4>2. n \in Nat /\ n \in 0 .. n
        BY <1>2, <3>2, PrefillCount
      <4> QED BY <2>5, <3>2, <4>1, <4>2 DEF Toks
    <3>4. RowsFit(i)
      BY <1>1, <1>7, <2>5, <3>3 DEF ChunkFits, RowsFit
    <3>5. Toks(i) <= WorkspaceRows
      <4>1. PICK offset, toks, all : offset = GatherOffset /\ toks = Toks(i) /\ all = WorkspaceRows
        OBVIOUS
      <4>2. dcp \in Nat \ {0}
        BY <1>2, DealSizes
      <4>3. offset \in Nat
        <5>1. dcp + 1 \in Nat \ {0}
          BY <4>2
        <5> QED BY <2>3, <4>1, <5>1, DivMod DEF GatherOffset
      <4>4. toks <= offset /\ offset * (dcp + 1) = all
        BY <3>4, <4>1 DEF RowsFit
      <4>5. offset * 1 <= offset * (dcp + 1)
        BY <4>2, <4>3, MulMono
      <4>6. offset * 1 = offset
        BY <4>3
      <4>7. offset <= all
        BY <4>4, <4>5, <4>6
      <4> QED BY <2>3, <3>3, <4>1, <4>3, <4>4, <4>7
    <3>6. \A s \in Group : OwnRows(workspace'[s], s, i)
      <4> SUFFICES ASSUME NEW s \in Group, NEW p \in Prefills, NEW j \in Nat,
                          j < PaddedLen(i, p)
                   PROVE  workspace'[s][PaddedCu(i, p) + j]
                            = LocalRecord(s, p, i * LocalChunk + j)
        BY DEF OwnRows
      <4>1. /\ PaddedCu(i, p) \in Nat /\ PaddedCu(i, p) + j < Toks(i)
            /\ GatherRow(s, i, PaddedCu(i, p) + j) = LocalRecord(s, p, i * LocalChunk + j)
        BY <1>2, <2>5, ShareRow
      <4>2. PICK row : row = PaddedCu(i, p) + j
        OBVIOUS
      <4>3. row \in Nat /\ row < Toks(i)
        BY <4>1, <4>2
      <4> QED BY <2>4, <3>3, <3>5, <4>1, <4>2, <4>3
    <3> QED BY <1>2, <2>1, <2>2, <2>5, <3>1, <3>4, <3>6, RunningStep
  <2>6. CASE ~ (dcp > 1)
    <3>1. step' = "attend"
      BY <2>1, <2>6
    <3>2. Toks(i) \in Nat /\ Toks(i) <= WorkspaceRows
      BY <1>2, <2>6, ChunkFitsRows
    <3>3. \A r \in Group : InRows(workspace'[r], i)
      <4> SUFFICES ASSUME NEW r \in Group, NEW p \in Prefills, NEW j \in Nat,
                          j < ChunkLen(i, p)
                   PROVE  workspace'[r][CuLen(i, p) + j]
                            = Cached(p, i * MaxContextChunk + j)
        BY DEF InRows
      <4>1. /\ CuLen(i, p) + j \in Nat /\ CuLen(i, p) + j < Toks(i)
            /\ GatherRow(r, i, CuLen(i, p) + j) = Cached(p, i * MaxContextChunk + j)
        BY <1>2, <2>6, PackedRow
      <4> QED BY <2>4, <3>2, <4>1
    <3> QED BY <1>2, <2>1, <2>2, <2>6, <3>1, <3>3, RunningStep
  <2> QED BY <2>5, <2>6
<1> QED BY <1>4, <1>5, <1>6, <1>7

\* The exchange gives every rank the rows of all of them.
LEMMA ExchangeStep ==
  ASSUME KeysInv, Batch', UNCHANGED batchVars, Exchange
  PROVE  KeysInv'
<1>1. PICK i : i = chunk
  OBVIOUS
<1>2. /\ Batch /\ Ordered /\ i \in Nat /\ HasContext /\ CutAlike(i) /\ dcp > 1 /\ RowsFit(i)
      /\ \A r \in Group, p \in Prefills : Once(prefix.keys[r][p], TokensTo(i, p))
      /\ \A s \in Group : OwnRows(workspace[s], s, i)
  BY <1>1 DEF KeysInv, Merging, Exchanging, Exchange
<1>3. PICK offset, toks, all : offset = GatherOffset /\ toks = Toks(i) /\ all = WorkspaceRows
  OBVIOUS
<1>4. /\ step' = "attend" /\ chunk' = i /\ UNCHANGED prefix
      /\ workspace' = [r \in Group |-> [row \in 0 .. all - 1 |->
           IF row >= offset /\ row < offset + dcp * toks
           THEN workspace[(row - offset) \div toks][(row - offset) % toks]
           ELSE workspace[r][row]]]
  BY <1>1, <1>3 DEF Exchange
<1>5. /\ toks \in Nat \ {0} /\ toks <= offset /\ offset * (dcp + 1) = all
      /\ offset \in Nat /\ all \in Nat /\ dcp \in Nat \ {0}
  <2>1. toks \in Nat \ {0} /\ toks <= offset /\ offset * (dcp + 1) = all
    BY <1>2, <1>3 DEF RowsFit
  <2>2. WorkspaceSize \in Nat /\ dcp \in Nat \ {0}
    BY <1>2, WorkspaceHolds, DealSizes
  <2>3. WorkspaceSize \div dcp \in Nat
    BY <2>2, DivMod
  <2>4. all \in Nat
    BY <1>3, <2>2, <2>3 DEF WorkspaceRows
  <2>5. dcp + 1 \in Nat \ {0}
    BY <2>2
  <2>6. offset \in Nat
    BY <1>3, <2>4, <2>5, DivMod DEF GatherOffset
  <2> QED BY <2>1, <2>2, <2>4, <2>6
<1>6. ASSUME NEW r \in Group, NEW s \in Group, NEW own \in Nat, own < toks
      PROVE  workspace'[r][offset + s * toks + own] = workspace[s][own]
  <2>1. PICK first, row, last : /\ first = s * toks /\ row = offset + s * toks + own
                                /\ last = dcp * toks
    OBVIOUS
  <2>2. s \in Nat /\ s < dcp
    BY <1>5 DEF Group
  <2>3. toks * s + toks <= toks * dcp
    BY <1>5, <2>2, MulStep
  <2>4. toks * s = first /\ toks * dcp = last /\ first \in Nat /\ last \in Nat
    BY <1>5, <2>1, <2>2
  <2>5. last + offset <= all
    <3>1. offset * (dcp + 1) = offset * dcp + offset
      BY <1>5
    <3>2. dcp * toks <= dcp * offset
      BY <1>5, MulMono
    <3>3. dcp * offset = offset * dcp /\ offset * dcp \in Nat
      BY <1>5
    <3> QED BY <1>5, <2>1, <2>4, <3>1, <3>2, <3>3
  <2>6. row = offset + first + own /\ first + own < last
    BY <1>5, <1>6, <2>1, <2>3, <2>4
  <2>7. row \in 0 .. all - 1 /\ row >= offset /\ row < offset + last
        /\ row - offset = toks * s + own
    BY <1>5, <2>4, <2>5, <2>6
  <2>8. (toks * s + own) \div toks = s /\ (toks * s + own) % toks = own
    <3>1. own \in 0 .. toks - 1
      BY <1>5, <1>6
    <3> QED BY <1>5, <2>2, <3>1, DivUnique
  <2>9. workspace'[r][row] = workspace[(row - offset) \div toks][(row - offset) % toks]
    BY <1>4, <2>1, <2>7
  <2> QED BY <2>1, <2>7, <2>8, <2>9
<1>7. \A r \in Group : Together(workspace'[r], i)
  <2> SUFFICES ASSUME NEW r \in Group, NEW s \in Group, NEW p \in Prefills, NEW j \in Nat,
                      j < PaddedLen(i, p)
               PROVE  workspace'[r][GatherOffset + s * Toks(i) + PaddedCu(i, p) + j]
                        = LocalRecord(s, p, i * LocalChunk + j)
    BY DEF Together
  <2>1. PaddedCu(i, p) \in Nat /\ PaddedCu(i, p) + j < toks
    BY <1>2, <1>3, ShareRow
  <2>2. PICK cu, first : cu = PaddedCu(i, p) /\ first = s * toks
    OBVIOUS
  <2>3. cu \in Nat /\ cu + j \in Nat /\ cu + j < toks /\ first \in Nat
    <3>1. s \in Nat
      BY <1>2, DealSizes
    <3>2. s * toks \in Nat
      BY <1>5, <3>1
    <3> QED BY <2>1, <2>2, <3>2
  <2>4. offset + first + cu + j = offset + first + (cu + j)
    BY <1>5, <2>3
  <2>5. workspace'[r][offset + s * toks + (cu + j)] = workspace[s][cu + j]
    BY <1>6, <2>3
  <2>6. workspace[s][cu + j] = LocalRecord(s, p, i * LocalChunk + j)
    BY <1>2, <2>2 DEF OwnRows
  <2> QED BY <1>3, <2>2, <2>4, <2>5, <2>6
<1>8. \A r \in Group, p \in Prefills : Once(prefix'.keys[r][p], TokensTo(i, p))
  BY <1>2, <1>4
<1> QED BY <1>2, <1>4, <1>7, <1>8, RunningStep

\* Every step of the chunked prefill.
LEMMA ChunkKeysStep ==
  ASSUME KeysInv, Batch', ChunkNext
  PROVE  KeysInv'
<1>1. UNCHANGED batchVars
  BY DEF ChunkNext
<1> QED BY <1>1, RunNewTokensStep, GatherChunkStep, ExchangeStep, AttendChunkStep,
           MergeContextStep DEF ChunkNext

\* For every group, run, page, workspace and batch (with no other assumption on
\* them than that they are positive numbers): when a layer is done with its
\* prefills, each rank has attended, for each prefill, to every token of it, cached
\* or new, exactly once, and to nothing else, whatever chunks the cached tokens
\* were cut into and however they are dealt to the group.
THEOREM EachKeyIsAttendedOnce == Spec => []EveryKeyOnce
<1> DEFINE I == MqaInv /\ KeysInv
<1>1. Init => I
  <2> SUFFICES ASSUME Init PROVE KeysInv
    BY MqaStarts
  <2>1. Batch /\ ChunkInit /\ Ordered
    BY BatchHolds DEF Init
  <2> QED BY <2>1 DEF ChunkInit, KeysInv, Started, Merging, Exchanging, Attending,
                      Through, EveryKeyOnce
<1>2. I /\ [Next]_vars => I'
  <2> SUFFICES ASSUME MqaInv, KeysInv, [Next]_vars PROVE MqaInv' /\ KeysInv'
    OBVIOUS
  <2>1. CASE ForwardMqa
    <3>1. MqaInv' /\ UNCHANGED batchVars /\ UNCHANGED chunkVars
      BY <2>1, MqaStep DEF ForwardMqa, MqaNext
    <3>2. Batch'
      BY <3>1 DEF MqaInv
    <3> QED BY <3>1, <3>2, KeysRest
  <2>2. CASE ForwardMha
    <3>1. MqaInv'
      BY <2>2, MqaRests DEF ForwardMha, ChunkNext
    <3>2. Batch'
      BY <3>1 DEF MqaInv
    <3> QED BY <2>2, <3>1, <3>2, ChunkKeysStep DEF ForwardMha
  <2>3. CASE UNCHANGED vars
    <3>1. MqaInv' /\ UNCHANGED batchVars /\ UNCHANGED chunkVars
      BY <2>3, MqaRests DEF vars
    <3>2. Batch'
      BY <3>1 DEF MqaInv
    <3> QED BY <3>1, <3>2, KeysRest
  <2> QED BY <2>1, <2>2, <2>3 DEF Next
<1>3. I => EveryKeyOnce
  BY DEF KeysInv
<1> QED BY <1>1, <1>2, <1>3, PTL DEF Spec
=============================================================================
