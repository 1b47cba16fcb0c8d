----------------------------- MODULE TopkProofs -----------------------------
(***************************************************************************)
(* Proofs about the selection of tokens.  Why merging the ranks' own best  *)
(* tokens is exact, and that all ranks come out of the merge with the same *)
(* tokens, for any group, row and scores; and, at the end, that the remap  *)
(* kernel fills an exact prefix for any number of tiles and lanes, whatever*)
(* the order in which the tiles reserve and store.                         *)
(***************************************************************************)
EXTENDS DcpSelect, TopkRemap, CkvLayoutProofs, FunctionTheorems,
        FiniteSetTheorems, TLAPS

-----------------------------------------------------------------------------
(***************************************************************************)
(* Exactness of the merge.                                                 *)
(***************************************************************************)

\* A set within a finite set that is at least as large is that set.
LEMMA LargeSubset ==
  ASSUME NEW S, IsFiniteSet(S), NEW T \in SUBSET S,
         Cardinality(S) <= Cardinality(T)
  PROVE  S = T
<1>1. /\ Cardinality(T) <= Cardinality(S)
      /\ Cardinality(S) = Cardinality(T) => S = T
      /\ IsFiniteSet(T)
  BY FS_Subset
<1>2. Cardinality(S) \in Nat /\ Cardinality(T) \in Nat
  BY <1>1, FS_CardinalityType
<1> QED BY <1>1, <1>2

\* A token that its own rank did not select is no better than any token that
\* was selected from all candidates: otherwise the TopK better tokens of its
\* rank would all have been selected, and one more.
LEMMA PassedOverIsWorse ==
  ASSUME NEW Tok, IsFiniteSet(Tok), NEW value \in [Tok -> Int],
         NEW Shard \in SUBSET Tok, NEW Local, IsTopK(Local, Shard, value),
         NEW All \in SUBSET Tok, Local \subseteq All,
         NEW Chosen, IsTopK(Chosen, All, value),
         NEW x \in Shard \ Local, NEW c \in Chosen
  PROVE  value[x] <= value[c]
<1>1. SUFFICES ASSUME value[c] < value[x] PROVE FALSE
  BY DEF IsTopK
<1>2. \A l \in Local : value[x] <= value[l]
  BY DEF IsTopK
<1>3. c \notin Local
  BY <1>1, <1>2 DEF IsTopK
<1>4. Local \subseteq Chosen
  <2>1. SUFFICES ASSUME NEW l \in Local, l \notin Chosen PROVE FALSE
    OBVIOUS
  <2>2. value[l] <= value[c]
    BY <2>1 DEF IsTopK
  <2> QED BY <1>1, <1>2, <2>1, <2>2 DEF IsTopK
<1>5. IsFiniteSet(Chosen) /\ Cardinality(Chosen) <= TopK
  BY FS_Subset DEF IsTopK
<1>6. Cardinality(Local) = TopK
  BY DEF IsTopK
<1>7. Chosen = Local
  BY <1>4, <1>5, <1>6, LargeSubset
<1> QED BY <1>3, <1>7

\* "Exchanging only the per-rank local candidates is exact": a top-K set of
\* the ranks' own top-K sets is a top-K set of all their tokens.  Nothing is
\* assumed of how tokens are dealt to ranks or of how ties were broken.
THEOREM LocalTopKSuffices ==
  ASSUME NEW Tok, IsFiniteSet(Tok), NEW value \in [Tok -> Int],
         NEW Group, NEW Shard \in [Group -> SUBSET Tok], NEW Local,
         \A r \in Group : IsTopK(Local[r], Shard[r], value),
         NEW Chosen,
         IsTopK(Chosen, UNION {Local[r] : r \in Group}, value)
  PROVE  IsTopK(Chosen, UNION {Shard[r] : r \in Group}, value)
<1> DEFINE All == UNION {Local[r] : r \in Group}
           Every == UNION {Shard[r] : r \in Group}
<1>1. All \subseteq Every /\ Every \subseteq Tok
  BY DEF IsTopK
<1>2. Chosen \subseteq Every /\ Cardinality(Chosen) <= TopK
  BY <1>1 DEF IsTopK
<1>3. ASSUME NEW c \in Chosen, NEW x \in Every \ Chosen
      PROVE  value[x] <= value[c]
  <2>1. CASE x \in All
    BY <1>3, <2>1 DEF IsTopK
  <2>2. CASE x \notin All
    <3>1. PICK r \in Group : x \in Shard[r] \ Local[r]
      BY <1>3, <2>2
    <3>2. Local[r] \subseteq All /\ All \subseteq Tok /\ Shard[r] \subseteq Tok
      BY <1>1
    <3>3. IsTopK(Local[r], Shard[r], value)
      OBVIOUS
    <3> HIDE DEF All
    <3>4. IsTopK(Chosen, All, value)
      BY DEF All
    <3> QED BY <1>3, <3>1, <3>2, <3>3, <3>4, PassedOverIsWorse
  <2> QED BY <2>1, <2>2
<1>4. ASSUME Chosen # Every PROVE Cardinality(Chosen) = TopK
  <2>1. CASE Chosen # All
    BY <2>1 DEF IsTopK
  <2>2. CASE Chosen = All
    <3>1. PICK r \in Group : Shard[r] # Local[r]
      BY <1>1, <1>4, <2>2
    <3>2. Cardinality(Local[r]) = TopK /\ Local[r] \subseteq Chosen
      BY <2>2, <3>1 DEF IsTopK
    <3>3. IsFiniteSet(Chosen)
      BY <1>1, <1>2, FS_Subset
    <3>4. Cardinality(Local[r]) <= Cardinality(Chosen)
      BY <3>2, <3>3, FS_Subset
    <3>5. Cardinality(Chosen) \in Nat /\ TopK \in Nat
      BY <3>3, FS_CardinalityType, TopKAssumption
    <3> QED BY <1>2, <3>2, <3>4, <3>5
  <2> QED BY <2>1, <2>2
<1> HIDE DEF Every
<1>5. IsTopK(Chosen, Every, value)
  BY <1>2, <1>3, <1>4 DEF IsTopK
<1> QED BY <1>5 DEF Every

-----------------------------------------------------------------------------
(***************************************************************************)
(* The selection from a row of candidates.                                 *)
(***************************************************************************)

\* The largest of those that are left.
LEMMA LargestOfRest ==
  ASSUME NEW n \in Nat \ {0}, NEW value \in [0 .. n - 1 -> Int],
         NEW R, NEW rest \in (0 .. n - 1) \ R
  PROVE  \E i \in (0 .. n - 1) \ R : \A x \in (0 .. n - 1) \ R : value[x] <= value[i]
<1> DEFINE I == 0 .. n - 1
           minus == [i \in I |-> - value[i]]
<1>1. minus \in [I -> Int] /\ \A i \in I : minus[i] = - value[i]
  OBVIOUS
<1> HIDE DEF minus
<1>2. PICK least \in I : \A x \in I : value[least] <= value[x]
  <2>1. PICK i \in I : \A j \in I : minus[j] <= minus[i]
    BY <1>1, LargestExists
  <2>2. \A x \in I : value[x] \in Int
    OBVIOUS
  <2>3. ASSUME NEW x \in I PROVE value[i] <= value[x]
    <3>1. - value[x] <= - value[i]
      BY <1>1, <2>1
    <3> QED BY <2>2, <3>1
  <2> QED BY <2>3
<1> DEFINE h == [i \in I |-> IF i \in R THEN value[least] - 1 ELSE value[i]]
<1>3. /\ h \in [I -> Int]
      /\ \A i \in I : h[i] = IF i \in R THEN value[least] - 1 ELSE value[i]
      /\ \A i \in I : value[i] \in Int
  BY <1>2
<1> HIDE DEF h
<1>4. PICK i \in I : \A j \in I : h[j] <= h[i]
  BY <1>3, LargestExists
<1>5. i \notin R
  <2>1. SUFFICES ASSUME i \in R PROVE FALSE
    OBVIOUS
  <2>2. h[rest] <= h[i] /\ h[rest] = value[rest] /\ h[i] = value[least] - 1
    BY <1>3, <1>4, <2>1
  <2>3. value[least] <= value[rest] /\ value[least] \in Int /\ value[rest] \in Int
    BY <1>2, <1>3
  <2> QED BY <2>2, <2>3
<1> QED BY <1>3, <1>4, <1>5

\* A row that is long enough has TopK best places, each taken once.
LEMMA BestExists ==
  ASSUME NEW n \in Nat \ {0}, TopK <= n, NEW value \in [0 .. n - 1 -> Int]
  PROVE  \E f \in [Lanes -> 0 .. n - 1] :
           /\ \A j, l \in Lanes : f[j] = f[l] => j = l
           /\ IsTopK({f[j] : j \in Lanes}, 0 .. n - 1, value)
<1> DEFINE I == 0 .. n - 1
           First(k) == 0 .. k - 1
           Picks(k, f) ==
             /\ f \in [First(k) -> I]
             /\ \A j, l \in First(k) : f[j] = f[l] => j = l
             /\ \A j \in First(k), x \in I :
                  (\A l \in First(k) : f[l] # x) => value[x] <= value[f[j]]
           T == {k \in Nat : k <= TopK => \E f : Picks(k, f)}
<1>1. TopK \in Nat \ {0}
  BY TopKAssumption
<1>2. 0 \in T
  <2>1. First(0) = {}
    OBVIOUS
  <2>2. Picks(0, [j \in {} |-> 0])
    BY <2>1
  <2> HIDE DEF Picks
  <2> QED BY <2>2
<1> HIDE DEF Picks
<1>3. ASSUME NEW k \in T PROVE k + 1 \in T
  <2> SUFFICES ASSUME k + 1 <= TopK PROVE \E f : Picks(k + 1, f)
    BY <1>3
  <2>1. k \in Nat /\ k < TopK /\ k < n
    BY <1>1, <1>3
  <2>2. PICK f : Picks(k, f)
    BY <1>1, <1>3, <2>1
  <2> USE DEF Picks
  <2> DEFINE R == {f[l] : l \in First(k)}
  <2>3. PICK rest \in I : rest \notin R
    <3>1. SUFFICES ASSUME I \subseteq R PROVE FALSE
      OBVIOUS
    <3>2. f \in Surjection(First(k), I)
      BY <2>2, <3>1 DEF Surjection
    <3>3. IsFiniteSet(0 .. k - 1) /\ Cardinality(0 .. k - 1) = k
      <4> DEFINE m == k - 1
      <4>1. m \in Int /\ (0 > m => k = 0) /\ m - 0 + 1 = k
        BY <2>1
      <4> HIDE DEF m
      <4>2. /\ IsFiniteSet(0 .. m)
            /\ Cardinality(0 .. m) = IF 0 > m THEN 0 ELSE m - 0 + 1
        <5>1. 0 \in Int /\ m \in Int
          BY <4>1
        <5> QED BY <5>1, FS_Interval
      <4> QED BY <4>1, <4>2 DEF m
    <3>5. Cardinality(0 .. n - 1) = n
      <4>1. n - 1 \in Int /\ ~ (0 > n - 1) /\ n - 1 - 0 + 1 = n
        OBVIOUS
      <4> QED BY <4>1, FS_Interval
    <3>4. Cardinality(I) <= Cardinality(First(k))
      BY <3>2, <3>3, FS_Surjection
    <3> QED BY <2>1, <3>3, <3>4, <3>5
  <2>4. PICK i \in I \ R : \A x \in I \ R : value[x] <= value[i]
    BY <2>3, LargestOfRest
  <2> DEFINE g == [j \in First(k + 1) |-> IF j = k THEN i ELSE f[j]]
  <2>5. /\ \A j \in First(k) : j \in First(k + 1) /\ j # k
        /\ \A j \in First(k + 1) : j = k \/ j \in First(k)
        /\ k \in First(k + 1)
    BY <2>1
  <2>6. /\ g \in [First(k + 1) -> I] /\ g[k] = i
        /\ \A j \in First(k) : g[j] = f[j] /\ f[j] \in I
    BY <2>2, <2>4, <2>5
  <2> HIDE DEF First, I, g
  <2>7. ASSUME NEW j \in First(k + 1), NEW l \in First(k + 1), g[j] = g[l]
        PROVE  j = l
    BY <2>2, <2>4, <2>5, <2>6, <2>7
  <2>8. ASSUME NEW j \in First(k + 1), NEW x \in I,
               \A l \in First(k + 1) : g[l] # x
        PROVE  value[x] <= value[g[j]]
    <3>1. x \in I \ R /\ \A l \in First(k) : f[l] # x
      BY <2>5, <2>6, <2>8
    <3>2. CASE j = k
      BY <2>4, <2>6, <3>1, <3>2
    <3>3. CASE j \in First(k)
      BY <2>2, <2>6, <3>1, <3>3
    <3> QED BY <2>5, <3>2, <3>3
  <2>9. Picks(k + 1, g)
    BY <2>6, <2>7, <2>8
  <2> HIDE DEF Picks
  <2> QED BY <2>9
<1>4. T = Nat
  BY <1>2, <1>3, SetInduction
<1>5. PICK f : Picks(TopK, f)
  <2> HIDE DEF T
  <2>1. TopK \in T
    BY <1>1, <1>4
  <2>2. TopK <= TopK
    BY <1>1
  <2> QED BY <2>1, <2>2 DEF T
<1> USE DEF Picks
<1> DEFINE Chosen == {f[j] : j \in Lanes}
<1>6. Lanes = First(TopK)
  BY DEF Lanes
<1>7. Cardinality(Chosen) = TopK
  <2>1. f \in Bijection(Lanes, Chosen)
    BY <1>5, <1>6 DEF Bijection, Injection, IsInjective, Surjection
  <2>2. IsFiniteSet(Lanes) /\ Cardinality(Lanes) = TopK
    BY <1>1, FS_Interval DEF Lanes
  <2> QED BY <2>1, <2>2, FS_Bijection DEF ExistsBijection
<1>8. IsTopK(Chosen, I, value)
  <2>1. Chosen \subseteq I /\ Cardinality(Chosen) <= TopK
    BY <1>1, <1>5, <1>6, <1>7
  <2>2. ASSUME NEW c \in Chosen, NEW x \in I \ Chosen
        PROVE  value[x] <= value[c]
    BY <1>5, <1>6
  <2> HIDE DEF Chosen
  <2> QED BY <1>7, <2>1, <2>2 DEF IsTopK
<1> QED BY <1>5, <1>6, <1>8

\* The candidates of all ranks make such a row.
LEMMA ColumnsSuffice ==
  /\ DcpSize * TopK \in Nat \ {0}
  /\ TopK <= DcpSize * TopK
<1>1. DcpSize \in Nat \ {0} /\ TopK \in Nat \ {0}
  BY SizesAssumption, TopKAssumption
<1>2. TopK * 1 <= TopK * DcpSize
  BY <1>1, MulMono
<1>3. TopK * DcpSize \in Nat /\ TopK * DcpSize = DcpSize * TopK
  BY <1>1
<1> QED BY <1>1, <1>2, <1>3

\* TopK different columns of a row, the best ones.
BestPlaces(row, f) ==
  /\ f \in [Lanes -> Columns]
  /\ \A j, l \in Lanes : f[j] = f[l] => j = l
  /\ IsTopK({f[j] : j \in Lanes}, Columns, [p \in Columns |-> row[p][2]])

\* What is selected are the candidates in such places.
LEMMA BestOfRow ==
  ASSUME NEW r, NEW row, \A p \in Columns : row[p][2] \in Int
  PROVE  \E f : /\ BestPlaces(row, f)
                /\ Best(r, row) = [j \in Lanes |-> row[f[j]]]
<1> DEFINE value == [p \in Columns |-> row[p][2]]
           Suits(f) ==
             /\ f \in [Lanes -> Columns]
             /\ \A j, l \in Lanes : f[j] = f[l] => j = l
             /\ IsTopK({f[j] : j \in Lanes}, Columns, value)
           choice == CHOOSE f \in [Lanes -> Columns] :
                     /\ \A j, l \in Lanes : f[j] = f[l] => j = l
                     /\ IsTopK({f[j] : j \in Lanes}, Columns, value)
<1>1. value \in [Columns -> Int]
  OBVIOUS
<1> HIDE DEF value
<1>2. \E f : Suits(f)
  <2>1. value \in [0 .. DcpSize * TopK - 1 -> Int] /\ Columns = 0 .. DcpSize * TopK - 1
    BY <1>1 DEF Columns
  <2> DEFINE n == DcpSize * TopK
  <2>2. n \in Nat \ {0} /\ TopK <= n
    BY ColumnsSuffice
  <2> HIDE DEF n
  <2>3. value \in [0 .. n - 1 -> Int] /\ Columns = 0 .. n - 1
    BY <2>1 DEF n
  <2>4. \E f \in [Lanes -> 0 .. n - 1] :
          /\ \A j, l \in Lanes : f[j] = f[l] => j = l
          /\ IsTopK({f[j] : j \in Lanes}, 0 .. n - 1, value)
    BY <2>2, <2>3, BestExists
  <2> QED BY <2>3, <2>4
<1>3. Suits(choice)
  BY <1>2
<1>4. Best(r, row) = [j \in Lanes |-> row[choice[j]]]
  BY DEF Best, value
<1> HIDE DEF choice
<1> QED BY <1>3, <1>4 DEF value, BestPlaces

-----------------------------------------------------------------------------
(***************************************************************************)
(* Agreement of the ranks.                                                 *)
(***************************************************************************)

\* What a rank reads out of the flat buffer, and what it selects from a table.
Unpacked(flat) ==
  [q \in RowSet |-> [p \in Columns |->
     <<flat[CandidateBase(q, p)], flat[CandidateBase(q, p) + TopK]>>]]

SelectedIds(rows) ==
  [q \in RowSet |-> [j \in Lanes |-> Best(0, rows[q])[j][1]]]

\* Everything is indexed by rank; the mode is one of Modes.
Shape ==
  /\ mode \in Modes
  /\ DOMAIN pc = Ranks
  /\ DOMAIN ids = Ranks
  /\ DOMAIN gathered = Ranks
  /\ DOMAIN table = Ranks

\* Which kernels each implementation runs.
Path ==
  \A r \in Ranks :
    /\ pc[r] \in {"convert", "unpack"} => mode.path = "b12x"
    /\ pc[r] \in {"pack", "gather", "unpack", "select"} => Merged
    /\ pc[r] \in {"repack", "regather", "reselect"} => Remapped

\* Past the collective the ranks hold the same candidates: b12x in the flat
\* buffer, which each unpacks alike, deepgemm in the table.
Received ==
  \A r, s \in Ranks :
    /\ mode.path = "b12x" /\ mode.global
         /\ pc[r] \in {"unpack", "select", "done"}
         /\ pc[s] \in {"unpack", "select", "done"} => gathered[r] = gathered[s]
    /\ mode.path = "b12x" /\ mode.global /\ pc[r] \in {"select", "done"} =>
         table[r] = Unpacked(gathered[r])
    /\ mode.path = "deepgemm" /\ ~ Remapped
         /\ pc[r] \in {"select", "done"} /\ pc[s] \in {"select", "done"} =>
         table[r] = table[s]

\* A rank that is done holds what it selects from its table.
FromTable ==
  \A r \in Ranks : pc[r] = "done" /\ Merged /\ ~ Remapped =>
    ids[r] = SelectedIds(table[r])

Agreement == Shape /\ Path /\ Received /\ FromTable

\* The modes are those of the code.
LEMMA ModeCases ==
  ASSUME mode \in Modes
  PROVE  /\ mode.path \in {"b12x", "deepgemm"}
         /\ mode.phase \in {"prefill", "decode"}
         /\ mode.global \in BOOLEAN
  BY ModesAssumption

\* The selection is a function of the row alone.
LEMMA BestIsCommon ==
  ASSUME NEW r, NEW row PROVE Best(r, row) = Best(0, row)
  BY DEF Best

\* Before anything ran nothing was received or selected.
LEMMA AgreementInit == Init => Agreement
<1> SUFFICES ASSUME Init PROVE Agreement
  OBVIOUS
<1>1. Shape
  BY DEF Init, Shape
<1>2. \A r \in Ranks : pc[r] \in {"indexer", "clear"}
  BY DEF Init
<1> QED BY <1>1, <1>2 DEF Agreement, Path, Received, FromTable

\* A step of one rank that stays before the collective, or that leaves the
\* exchange for good without the merge.
LEMMA EarlyStep ==
  ASSUME Agreement, NEW r \in Ranks, NEW label,
         Go(r, label), UNCHANGED <<mode, gathered, table>>,
         pc[r] \in {"clear", "indexer", "convert", "pack", "repack"},
         label \in {"indexer", "convert", "pack", "gather", "regather", "done"},
         label = "convert" => mode.path = "b12x",
         label \in {"pack", "gather"} => Merged,
         label = "regather" => Remapped,
         label = "done" => ~ Merged,
         DOMAIN ids' = Ranks,
         \A s \in Ranks \ {r} : ids'[s] = ids[s]
  PROVE  Agreement'
<1>1. /\ DOMAIN pc' = Ranks
      /\ pc'[r] = label
      /\ \A s \in Ranks \ {r} : pc'[s] = pc[s]
  BY DEF Agreement, Shape, Go
<1>2. Shape'
  BY <1>1 DEF Agreement, Shape
<1>3. Path'
  BY <1>1, ModeCases DEF Agreement, Shape, Path, Merged, Remapped
<1>4. Received'
  BY <1>1, ModeCases DEF Agreement, Shape, Received, Merged, Remapped
<1>5. FromTable'
  BY <1>1, ModeCases DEF Agreement, Shape, FromTable, Merged, Remapped
<1> QED BY <1>2, <1>3, <1>4, <1>5 DEF Agreement

\* Every step preserves the agreement.
LEMMA AgreementStep == Agreement /\ [Next]_vars => Agreement'
<1> SUFFICES ASSUME Agreement, [Next]_vars PROVE Agreement'
  OBVIOUS
<1> USE ModeCases
<1>1. ASSUME NEW r \in Ranks, PagedTopK(r) PROVE Agreement'
  <2>1. Go(r, "convert")
    BY <1>1 DEF PagedTopK
  <2>2. DOMAIN ids' = Ranks /\ \A s \in Ranks \ {r} : ids'[s] = ids[s]
    BY <1>1 DEF PagedTopK, Agreement, Shape
  <2>3. pc[r] = "indexer" /\ mode.path = "b12x"
        /\ UNCHANGED <<mode, gathered, table>>
    BY <1>1 DEF PagedTopK
  <2> QED BY <2>1, <2>2, <2>3, EarlyStep
<1>2. ASSUME NEW r \in Ranks, EmptyChunk(r) PROVE Agreement'
  <2> DEFINE label == IF mode.global THEN "convert" ELSE "done"
  <2>1. Go(r, label)
    BY <1>2 DEF EmptyChunk
  <2>2. DOMAIN ids' = Ranks /\ \A s \in Ranks \ {r} : ids'[s] = ids[s]
    BY <1>2 DEF EmptyChunk, Agreement, Shape
  <2>3. pc[r] = "indexer" /\ mode.path = "b12x"
        /\ UNCHANGED <<mode, gathered, table>>
    BY <1>2 DEF EmptyChunk
  <2>4. label \in {"convert", "done"} /\ (label = "done" => ~ Merged)
    BY <2>3 DEF Merged
  <2> QED BY <2>1, <2>2, <2>3, <2>4, EarlyStep
<1>3. ASSUME NEW r \in Ranks, Clear(r) PROVE Agreement'
  <2>1. Go(r, "indexer")
    BY <1>3 DEF Clear
  <2>2. DOMAIN ids' = Ranks /\ \A s \in Ranks \ {r} : ids'[s] = ids[s]
    BY <1>3 DEF Clear, Agreement, Shape
  <2>3. pc[r] = "clear" /\ UNCHANGED <<mode, gathered, table>>
    BY <1>3 DEF Clear
  <2> QED BY <2>1, <2>2, <2>3, EarlyStep
<1>4. ASSUME NEW r \in Ranks, PrefillTopK(r) \/ DecodeTopK(r)
      PROVE  Agreement'
  <2>1. Go(r, "pack") /\ Merged
    BY <1>4 DEF PrefillTopK, DecodeTopK, Merged
  <2>2. \E new : ids' = [ids EXCEPT ![r] = new]
    BY <1>4 DEF PrefillTopK, DecodeTopK, LogitsTopK
  <2>3. DOMAIN ids' = Ranks /\ \A s \in Ranks \ {r} : ids'[s] = ids[s]
    BY <2>2 DEF Agreement, Shape
  <2>4. pc[r] = "indexer" /\ UNCHANGED <<mode, gathered, table>>
    BY <1>4 DEF PrefillTopK, DecodeTopK
  <2> QED BY <2>1, <2>3, <2>4, EarlyStep
<1>5. ASSUME NEW r \in Ranks, Convert(r) PROVE Agreement'
  <2>0. pc[r] = "convert" /\ mode.path = "b12x"
    BY <1>5 DEF Convert, Agreement, Path
  <2> DEFINE label == IF mode.global THEN "pack" ELSE "done"
  <2>1. Go(r, label)
    BY <1>5 DEF Convert
  <2>2. DOMAIN ids' = Ranks /\ \A s \in Ranks \ {r} : ids'[s] = ids[s]
    BY <1>5 DEF Convert, Agreement, Shape
  <2>3. UNCHANGED <<mode, gathered, table>>
    BY <1>5 DEF Convert
  <2>4. /\ label \in {"pack", "done"}
        /\ label = "pack" => Merged
        /\ label = "done" => ~ Merged
    BY <2>0 DEF Merged
  <2> QED BY <2>0, <2>1, <2>2, <2>3, <2>4, EarlyStep
<1>6. ASSUME NEW r \in Ranks, PackBuffers(r) \/ PackCandidates(r)
      PROVE  Agreement'
  <2>1. Go(r, "gather") /\ pc[r] = "pack"
        /\ UNCHANGED <<mode, ids, gathered, table>>
    BY <1>6 DEF PackBuffers, PackCandidates
  <2>2. Merged
    BY <2>1 DEF Agreement, Path
  <2>3. DOMAIN ids' = Ranks
    BY <2>1 DEF Agreement, Shape
  <2> QED BY <2>1, <2>2, <2>3, EarlyStep
<1>7. ASSUME NEW r \in Ranks, Repack(r) PROVE Agreement'
  <2>1. Go(r, "regather") /\ pc[r] = "repack"
        /\ UNCHANGED <<mode, ids, gathered, table>>
    BY <1>7 DEF Repack
  <2>2. Remapped
    BY <2>1 DEF Agreement, Path
  <2>3. DOMAIN ids' = Ranks
    BY <2>1 DEF Agreement, Shape
  <2> QED BY <2>1, <2>2, <2>3, EarlyStep
<1>8. CASE AllGatherFlat
  <2>1. /\ \A r \in Ranks : pc'[r] = "unpack" /\ gathered'[r] = Concatenated
        /\ DOMAIN pc' = Ranks /\ DOMAIN gathered' = Ranks
        /\ UNCHANGED <<mode, ids, table>>
        /\ mode.path = "b12x"
        /\ \A r \in Ranks : pc[r] = "gather"
    BY <1>8 DEF AllGatherFlat
  <2>2. Shape' /\ Path'
    BY <2>1 DEF Agreement, Shape, Path, Merged
  <2>3. Received' /\ FromTable'
    BY <2>1 DEF Received, FromTable
  <2> QED BY <2>2, <2>3 DEF Agreement
<1>9. CASE AllGatherLanes
  <2>1. PICK here \in {"gather", "regather"} :
          /\ \A r \in Ranks : pc[r] = here
          /\ pc' = [r \in Ranks |->
                      IF here = "gather" THEN "select" ELSE "reselect"]
    BY <1>9 DEF AllGatherLanes
  <2>2. /\ \A r \in Ranks : table'[r] = SideBySide
        /\ DOMAIN pc' = Ranks /\ DOMAIN table' = Ranks
        /\ UNCHANGED <<mode, ids, gathered>>
        /\ mode.path = "deepgemm"
    BY <1>9, <2>1 DEF AllGatherLanes
  <2>3. Shape'
    BY <2>2 DEF Agreement, Shape
  <2>4. Path'
    BY <2>1, <2>2 DEF Agreement, Path, Merged, Remapped
  <2>5. Received' /\ FromTable'
    BY <2>1, <2>2 DEF Received, FromTable
  <2> QED BY <2>3, <2>4, <2>5 DEF Agreement
<1>10. ASSUME NEW r \in Ranks, Unpack(r) PROVE Agreement'
  <2>1. /\ pc[r] = "unpack" /\ pc'[r] = "select"
        /\ \A s \in Ranks \ {r} : pc'[s] = pc[s] /\ table'[s] = table[s]
        /\ table'[r] = Unpacked(gathered[r])
        /\ DOMAIN pc' = Ranks /\ DOMAIN table' = Ranks
        /\ UNCHANGED <<mode, ids, gathered>>
    BY <1>10 DEF Unpack, Unpacked, Go, Agreement, Shape
  <2>2. mode.path = "b12x" /\ Merged
    BY <2>1 DEF Agreement, Path
  <2>3. Shape' /\ Path'
    BY <2>1, <2>2 DEF Agreement, Shape, Path, Merged, Remapped
  <2>4. Received'
    BY <2>1, <2>2 DEF Agreement, Received, Merged, Remapped
  <2>5. FromTable'
    BY <2>1, <2>2 DEF Agreement, FromTable, Merged, Remapped
  <2> QED BY <2>3, <2>4, <2>5 DEF Agreement
<1>11. ASSUME NEW r \in Ranks, Select(r) PROVE Agreement'
  <2> DEFINE label == IF Remapped THEN "repack" ELSE "done"
  <2>1. /\ pc[r] = "select" /\ pc'[r] = label
        /\ \A s \in Ranks \ {r} : pc'[s] = pc[s] /\ ids'[s] = ids[s]
        /\ DOMAIN pc' = Ranks /\ DOMAIN ids' = Ranks
        /\ UNCHANGED <<mode, gathered, table>>
    BY <1>11 DEF Select, Go, Agreement, Shape
  <2>2. ids'[r] = SelectedIds(table[r])
    <3> DEFINE best == [q \in RowSet |-> Best(r, table[r][q])]
    <3>1. ids' = [ids EXCEPT ![r] =
                    [q \in RowSet |-> [j \in Lanes |-> best[q][j][1]]]]
      BY <1>11 DEF Select
    <3>2. \A q \in RowSet : best[q] = Best(0, table[r][q])
      BY BestIsCommon
    <3> HIDE DEF best
    <3>3. ids'[r] = [q \in RowSet |-> [j \in Lanes |-> best[q][j][1]]]
      BY <3>1 DEF Agreement, Shape
    <3> QED BY <3>2, <3>3 DEF SelectedIds
  <2>3. Merged
    BY <2>1 DEF Agreement, Path
  <2>4. Shape' /\ Path'
    BY <2>1, <2>3 DEF Agreement, Shape, Path, Merged, Remapped
  <2>5. Received'
    BY <2>1, <2>3 DEF Agreement, Received, Merged, Remapped
  <2>6. FromTable'
    BY <2>1, <2>2, <2>3 DEF Agreement, FromTable, Merged, Remapped
  <2> QED BY <2>4, <2>5, <2>6 DEF Agreement
<1>12. ASSUME NEW r \in Ranks, Reselect(r) PROVE Agreement'
  <2>1. /\ pc[r] = "reselect" /\ pc'[r] = "done"
        /\ \A s \in Ranks \ {r} : pc'[s] = pc[s] /\ ids'[s] = ids[s]
        /\ DOMAIN pc' = Ranks /\ DOMAIN ids' = Ranks
        /\ UNCHANGED <<mode, gathered, table>>
    BY <1>12 DEF Reselect, Go, Agreement, Shape
  <2>2. Remapped
    BY <2>1 DEF Agreement, Path
  <2>3. Shape' /\ Path'
    BY <2>1, <2>2 DEF Agreement, Shape, Path, Merged, Remapped
  <2>4. Received' /\ FromTable'
    BY <2>1, <2>2 DEF Received, FromTable, Merged, Remapped
  <2> QED BY <2>3, <2>4 DEF Agreement
<1>13. CASE UNCHANGED vars
  BY <1>13 DEF vars, Agreement, Shape, Path, Received, FromTable, Merged, Remapped
<1> QED
  BY <1>1, <1>2, <1>3, <1>4, <1>5, <1>6, <1>7, <1>8, <1>9, <1>10, <1>11,
     <1>12, <1>13 DEF Next, RankStep

\* The invariant says more than that they agree.
LEMMA AgreementSuffices == Agreement => RanksAgree
<1> SUFFICES ASSUME Agreement, NEW r \in Ranks, NEW s \in Ranks,
                    pc[r] = "done", pc[s] = "done", Merged, ~ Remapped
             PROVE  ids[r] = ids[s]
  BY DEF RanksAgree
<1>1. ids[r] = SelectedIds(table[r]) /\ ids[s] = SelectedIds(table[s])
  BY DEF Agreement, FromTable
<1>2. table[r] = table[s]
  BY ModeCases DEF Agreement, Shape, Received, Merged
<1> QED BY <1>1, <1>2

\* Ranks that have merged attend to the same tokens.
THEOREM RanksAlwaysAgree == Spec => []RanksAgree
  BY AgreementSuffices, AgreementInit, AgreementStep, PTL DEF Spec

-----------------------------------------------------------------------------
(***************************************************************************)
(* Lengths and page-table columns.                                         *)
(***************************************************************************)

\* The longest row says how long the request is.
LEMMA TotalIsLongest ==
  ASSUME lens \in [RowSet -> 0 .. MaxLen]
  PROVE  /\ TotalLen \in 0 .. MaxLen
         /\ \A q \in RowSet : lens[q] <= TotalLen
<1> DEFINE all == {lens[q] : q \in RowSet}
<1>1. PICK m \in RowSet : \A q \in RowSet : lens[q] <= lens[m]
  <2>1. Rows \in Nat \ {0} /\ lens \in [0 .. Rows - 1 -> Int]
    BY RowsAssumption DEF RowSet
  <2> QED BY <2>1, LargestExists DEF RowSet
<1>2. \E n \in all : \A q \in RowSet : lens[q] <= n
  BY <1>1
<1>3. TotalLen \in all /\ \A q \in RowSet : lens[q] <= TotalLen
  BY <1>2 DEF TotalLen
<1>4. all \subseteq 0 .. MaxLen
  OBVIOUS
<1> HIDE DEF all
<1> QED BY <1>3, <1>4

\* Pages that are enough for a request are enough for each rank's share.
LEMMA ShareFitsPages ==
  ASSUME NEW len \in Nat, NEW rank \in Ranks
  PROVE  /\ Cdiv(len, DcpSize * BlockSize) \in Nat
         /\ LocalLen(len, rank) \in Nat
         /\ LocalLen(len, rank) <= Cdiv(len, DcpSize * BlockSize) * BlockSize
<1> DEFINE pages == Cdiv(len, DcpSize * BlockSize)
           local == pages * BlockSize
           runs == BlockSize \div Interleave
<1>1. /\ DcpSize \in Nat \ {0} /\ Interleave \in Nat \ {0} /\ BlockSize \in Nat \ {0}
      /\ rank \in Nat
  BY SizesAssumption DEF Ranks
<1>2. DcpSize * BlockSize \in Nat \ {0}
  <2>1. DcpSize * BlockSize \in Nat /\ BlockSize * 1 <= BlockSize * DcpSize
    BY <1>1, MulMono
  <2>2. BlockSize * DcpSize = DcpSize * BlockSize
    BY <1>1
  <2> QED BY <1>1, <2>1, <2>2
<1>3. pages \in Nat /\ len <= (DcpSize * BlockSize) * pages
  BY <1>2, CdivCovers
<1>4. LocalLen(len, rank) \in Nat
  BY LocalLenBounds
<1> HIDE DEF pages
<1>5. runs \in Nat /\ BlockSize = Interleave * runs
  <2>1. /\ runs \in Nat /\ BlockSize % Interleave \in 0 .. Interleave - 1
        /\ BlockSize = Interleave * runs + (BlockSize % Interleave)
    BY <1>1, DivMod
  <2> HIDE DEF runs
  <2>2. Interleave * runs \in Nat
    BY <1>1, <2>1
  <2> QED BY <2>1, <2>2, PagesAssumption
<1> HIDE DEF runs
<1>6. local \in Nat /\ pages * runs \in Nat /\ local = Interleave * (pages * runs) + 0
  BY <1>1, <1>3, <1>5
<1>7. local \div Interleave = pages * runs /\ local % Interleave = 0
  <2>1. 0 \in 0 .. Interleave - 1
    BY <1>1
  <2> HIDE DEF local
  <2> QED BY <1>1, <1>6, <2>1, DivUnique
<1>8. (pages * runs) * Stride = (DcpSize * BlockSize) * pages
  <2>1. Stride = DcpSize * Interleave
    BY DEF Stride
  <2> QED BY <1>1, <1>3, <1>5, <2>1
<1> DEFINE next == GlobalPosition(local, rank)
<1>9. next \in Nat /\ len <= next
  <2>1. next = (pages * runs) * Stride + rank * Interleave + 0
    BY <1>7 DEF GlobalPosition
  <2>2. rank * Interleave \in Nat /\ (DcpSize * BlockSize) * pages \in Nat
    BY <1>1, <1>2, <1>3
  <2> HIDE DEF next, local
  <2> QED BY <1>3, <1>8, <2>1, <2>2
<1>10. Owner(next) = rank /\ LocalIndex(next) = local
  <2> HIDE DEF local
  <2> QED BY <1>6, LocalRoundTrip
<1>11. ~ (local < LocalLen(len, rank))
  <2> HIDE DEF next
  <2> QED BY <1>9, <1>10, LengthTestIsExact
<1>12. LocalLen(len, rank) <= local
  <2> HIDE DEF local
  <2> QED BY <1>4, <1>6, <1>11
<1> QED BY <1>3, <1>4, <1>12 DEF pages

\* So a rank has no more pages with its tokens than the request has pages.
LEMMA ColumnsOfShare ==
  ASSUME NEW len \in Nat, NEW rank \in Ranks
  PROVE  /\ Cdiv(LocalLen(len, rank), BlockSize) \in Nat
         /\ Cdiv(LocalLen(len, rank), BlockSize) <= Cdiv(len, DcpSize * BlockSize)
<1> DEFINE pages == Cdiv(len, DcpSize * BlockSize)
           kept == LocalLen(len, rank)
<1>1. BlockSize \in Nat \ {0}
  BY SizesAssumption
<1>2. pages \in Nat /\ kept \in Nat /\ kept <= pages * BlockSize
  BY ShareFitsPages
<1> HIDE DEF pages, kept
<1>3. pages * BlockSize = BlockSize * pages /\ BlockSize * pages \in Nat
  BY <1>1, <1>2
<1>4. /\ kept + BlockSize - 1 \in Nat
      /\ BlockSize * pages + (BlockSize - 1) \in Nat
      /\ kept + BlockSize - 1 <= BlockSize * pages + (BlockSize - 1)
      /\ BlockSize - 1 \in 0 .. BlockSize - 1
  BY <1>1, <1>2, <1>3
<1>5. (BlockSize * pages + (BlockSize - 1)) \div BlockSize = pages
  BY <1>1, <1>2, <1>4, DivUnique
<1>6. (kept + BlockSize - 1) \div BlockSize <= pages
  BY <1>1, <1>4, <1>5, DivMono
<1>7. Cdiv(kept, BlockSize) \in Nat
  BY <1>1, <1>2, CdivCovers
<1> QED BY <1>6, <1>7 DEF Cdiv, pages, kept

\* Columns that a rank may be shown.
LEMMA ShownIsBounded ==
  ASSUME lens \in [RowSet -> 0 .. MaxLen], NEW r \in Ranks
  PROVE  /\ ShownColumns(r) \in Nat
         /\ mode.phase = "prefill" => ShownColumns(r) <= Larger(1, Allocated)
<1>1. TotalLen \in Nat /\ MaxLen \in Nat
  BY TotalIsLongest, RowsAssumption
<1>2. TableWidth \in Nat
  BY <1>1, ShareFitsPages DEF TableWidth
<1>3. Allocated \in Nat
  BY <1>1, ShareFitsPages DEF Allocated
<1> DEFINE needed == Cdiv(LocalLen(TotalLen, r), BlockSize)
<1>4. needed \in Nat /\ needed <= Allocated
  BY <1>1, ColumnsOfShare DEF Allocated
<1> HIDE DEF needed
<1>5. ActiveWidth(LocalLen(TotalLen, r)) = Smaller(Larger(1, needed), TableWidth)
  BY DEF ActiveWidth, needed
<1> QED BY <1>2, <1>3, <1>4, <1>5 DEF ShownColumns, Smaller, Larger

-----------------------------------------------------------------------------
(***************************************************************************)
(* Addresses in the exchanged buffers.                                     *)
(***************************************************************************)

\* A column of the row is a lane of some rank.
LEMMA ColumnPlace ==
  ASSUME NEW p \in Columns
  PROVE  /\ p \div TopK \in Ranks /\ p % TopK \in Lanes
         /\ p = TopK * (p \div TopK) + (p % TopK)
<1> DEFINE w == p \div TopK
<1>1. TopK \in Nat \ {0} /\ DcpSize \in Nat \ {0} /\ DcpSize * TopK \in Nat
  BY TopKAssumption, SizesAssumption
<1>2. p \in Nat /\ p < DcpSize * TopK
  BY <1>1 DEF Columns
<1>3. w \in Nat /\ p % TopK \in 0 .. TopK - 1 /\ p = TopK * w + (p % TopK)
  BY <1>1, <1>2, DivMod
<1> HIDE DEF w
<1>4. TopK * w \in Nat /\ TopK * DcpSize = DcpSize * TopK
  BY <1>1, <1>3
<1>5. ~ (DcpSize <= w)
  <2>1. DcpSize <= w => TopK * DcpSize <= TopK * w
    BY <1>1, <1>3, MulMono
  <2> QED BY <1>1, <1>2, <1>3, <1>4, <2>1
<1> QED BY <1>1, <1>3, <1>5 DEF w, Ranks, Lanes

\* A rank's buffer holds its rows one after the other, and of a row first the
\* positions and then the scores.
LEMMA AddressOf ==
  ASSUME NEW w \in Ranks, NEW q \in RowSet, NEW f \in Fields, NEW j \in Lanes,
         NEW a, a = ((w * Rows + q) * 2 + f) * TopK + j
  PROVE  a \in Addresses /\ Concatenated[a] = packed[w][q][f][j]
<1> DEFINE K2 == 2 * TopK
           N == Rows * 2 * TopK
           u == w * Rows + q
           v == u * 2 + f
           inRow == f * TopK + j
           inRank == q * K2 + inRow
<1>1. /\ TopK \in Nat \ {0} /\ Rows \in Nat \ {0} /\ DcpSize \in Nat \ {0}
      /\ w \in Nat /\ q \in 0 .. Rows - 1 /\ f \in 0 .. 1 /\ j \in 0 .. TopK - 1
      /\ q \in Nat /\ f \in Nat /\ j \in Nat /\ w < DcpSize
  BY TopKAssumption, RowsAssumption, SizesAssumption
     DEF Ranks, RowSet, Fields, Lanes
<1>2. w * Rows \in Nat /\ u \in Nat /\ u = Rows * w + q
  BY <1>1
<1>3. K2 \in Nat \ {0}
  BY <1>1
<1>4. N \in Nat \ {0} /\ N = Rows * K2
  <2>1. K2 * 1 <= K2 * Rows
    BY <1>1, <1>3, MulMono
  <2>2. K2 * Rows = Rows * K2 /\ Rows * K2 \in Nat
    BY <1>1, <1>3
  <2>3. N = Rows * K2
    BY <1>1
  <2> HIDE DEF N, K2
  <2> QED BY <1>3, <2>1, <2>2, <2>3
<1>5. inRow \in Nat /\ inRow <= K2 - 1
  <2>1. CASE f = 0
    BY <1>1, <2>1
  <2>2. CASE f = 1
    BY <1>1, <2>2
  <2> QED BY <1>1, <2>1, <2>2
<1>6. v \in Nat /\ a = TopK * v + j
  <2> HIDE DEF u
  <2>1. v \in Nat
    BY <1>1, <1>2
  <2> HIDE DEF v
  <2>2. a = v * TopK + j
    BY DEF u, v
  <2> QED BY <1>1, <2>1, <2>2
<1>7. a = K2 * u + inRow
  <2>1. TopK * v = TopK * (u * 2) + TopK * f
    <3> HIDE DEF u
    <3> QED BY <1>1, <1>2
  <2>2. TopK * (u * 2) = K2 * u /\ TopK * f = f * TopK
    <3> HIDE DEF u
    <3> QED BY <1>1, <1>2
  <2>3. TopK * (u * 2) \in Nat /\ TopK * f \in Nat
    <3> HIDE DEF u
    <3> QED BY <1>1, <1>2
  <2> HIDE DEF u, v, K2
  <2> QED BY <1>1, <1>6, <2>1, <2>2, <2>3
<1>8. a = N * w + inRank
  <2>1. K2 * u = K2 * (Rows * w) + K2 * q
    <3> HIDE DEF K2, u
    <3>1. Rows * w \in Nat
      BY <1>1
    <3> QED BY <1>1, <1>2, <1>3, <3>1
  <2>2. K2 * (Rows * w) = N * w /\ K2 * q = q * K2
    <3> HIDE DEF K2, N
    <3> QED BY <1>1, <1>3, <1>4
  <2>3. N * w \in Nat /\ q * K2 \in Nat
    <3> HIDE DEF K2, N
    <3> QED BY <1>1, <1>3, <1>4
  <2> HIDE DEF u, K2, N, inRow
  <2> QED BY <1>5, <1>7, <2>1, <2>2, <2>3
<1>9. inRank \in Nat /\ inRank <= N - 1
  <2> HIDE DEF K2, inRow
  <2>1. K2 * q + K2 <= K2 * Rows
    BY <1>1, <1>3, MulStep
  <2>2. K2 * q = q * K2 /\ q * K2 \in Nat /\ K2 * Rows = Rows * K2 /\ Rows * K2 \in Nat
    BY <1>1, <1>3
  <2> HIDE DEF N
  <2> QED BY <1>3, <1>4, <1>5, <2>1, <2>2
<1> HIDE DEF K2, N, u, v, inRow, inRank
<1>10. a \div TopK = v /\ a % TopK = j
  BY <1>1, <1>6, DivUnique
<1>11. a \div K2 = u
  <2>1. inRow \in 0 .. K2 - 1
    BY <1>3, <1>5
  <2> QED BY <1>2, <1>3, <1>7, <2>1, DivUnique
<1>12. a \div N = w
  <2>1. inRank \in 0 .. N - 1
    BY <1>4, <1>9
  <2> QED BY <1>1, <1>4, <1>8, <2>1, DivUnique
<1>13. u % Rows = q
  BY <1>1, <1>2, DivUnique
<1>14. v % 2 = f
  <2>1. v = 2 * u + f
    BY <1>1, <1>2 DEF v
  <2> QED BY <1>1, <1>2, <2>1, DivUnique
<1>15. a \in Addresses
  <2>1. N * w + N <= N * DcpSize
    BY <1>1, <1>4, MulStep
  <2>2. N * w \in Nat /\ N * DcpSize \in Nat
    BY <1>1, <1>4
  <2>3. a \in Nat /\ a < N * DcpSize
    BY <1>4, <1>8, <1>9, <2>1, <2>2
  <2>4. DcpSize * Rows * 2 * TopK = N * DcpSize
    BY <1>1 DEF N
  <2> QED BY <2>2, <2>3, <2>4 DEF Addresses
<1>16. Concatenated[a] = packed[a \div N][(a \div K2) % Rows][(a \div TopK) % 2][a % TopK]
  BY <1>15 DEF Concatenated, N, K2
<1> QED BY <1>10, <1>11, <1>12, <1>13, <1>14, <1>15, <1>16

\* Where a rank looks for a candidate is where its sender put it.
LEMMA CandidateAddress ==
  ASSUME NEW q \in RowSet, NEW p \in Columns
  PROVE  /\ CandidateBase(q, p) \in Addresses
         /\ CandidateBase(q, p) + TopK \in Addresses
         /\ Concatenated[CandidateBase(q, p)] = packed[p \div TopK][q][0][p % TopK]
         /\ Concatenated[CandidateBase(q, p) + TopK]
              = packed[p \div TopK][q][1][p % TopK]
<1> DEFINE w == p \div TopK
           j == p % TopK
           u == w * Rows + q
<1>1. w \in Ranks /\ j \in Lanes /\ p = TopK * w + j
  BY ColumnPlace
<1>2. /\ TopK \in Nat \ {0} /\ Rows \in Nat /\ w \in Nat /\ q \in Nat
      /\ j \in Nat /\ w * Rows \in Nat
  BY <1>1, TopKAssumption, RowsAssumption DEF Ranks, Lanes, RowSet
<1>3. CandidateBase(q, p) = (u * 2) * TopK + (p - w * TopK)
  BY DEF CandidateBase
<1> HIDE DEF w, j
<1>4. p - w * TopK = j
  <2>1. w * TopK = TopK * w /\ TopK * w \in Nat
    BY <1>2
  <2> QED BY <1>1, <1>2, <2>1
<1>5. u \in Nat /\ (u * 2) * TopK \in Nat
  <2>1. u \in Nat
    BY <1>2
  <2> HIDE DEF u
  <2> QED BY <1>2, <2>1
<1>6. CandidateBase(q, p) = (u * 2 + 0) * TopK + j
  <2> HIDE DEF u
  <2> QED BY <1>3, <1>4, <1>5
<1>7. CandidateBase(q, p) + TopK = (u * 2 + 1) * TopK + j
  <2> HIDE DEF u
  <2>1. (u * 2 + 1) * TopK = (u * 2) * TopK + TopK
    BY <1>2, <1>5
  <2> QED BY <1>2, <1>3, <1>4, <1>5, <2>1
<1>8. 0 \in Fields /\ 1 \in Fields
  BY DEF Fields
<1>9. CandidateBase(q, p) \in Addresses
      /\ Concatenated[CandidateBase(q, p)] = packed[w][q][0][j]
  BY <1>1, <1>6, <1>8, AddressOf
<1>10. CandidateBase(q, p) + TopK \in Addresses
       /\ Concatenated[CandidateBase(q, p) + TopK] = packed[w][q][1][j]
  BY <1>1, <1>7, <1>8, AddressOf
<1> QED BY <1>9, <1>10 DEF w, j

\* Every address is one of a rank, a row, a field and a lane.
LEMMA AddressParts ==
  ASSUME NEW a \in Addresses
  PROVE  /\ a \div (Rows * 2 * TopK) \in Ranks
         /\ (a \div (2 * TopK)) % Rows \in RowSet
         /\ (a \div TopK) % 2 \in Fields
         /\ a % TopK \in Lanes
<1> DEFINE K2 == 2 * TopK
           N == Rows * 2 * TopK
           w == a \div N
<1>1. TopK \in Nat \ {0} /\ Rows \in Nat \ {0} /\ DcpSize \in Nat \ {0}
  BY TopKAssumption, RowsAssumption, SizesAssumption
<1>2. K2 \in Nat \ {0}
  BY <1>1
<1>3. N \in Nat \ {0}
  <2>1. K2 * 1 <= K2 * Rows /\ K2 * Rows \in Nat
    BY <1>1, <1>2, MulMono
  <2>2. N = K2 * Rows
    BY <1>1
  <2> HIDE DEF N, K2
  <2> QED BY <1>2, <2>1, <2>2
<1>4. a \in Nat /\ a < N * DcpSize
  <2>1. DcpSize * Rows * 2 * TopK = N * DcpSize
    BY <1>1
  <2> HIDE DEF N
  <2>2. N * DcpSize \in Nat
    BY <1>1, <1>3
  <2> QED BY <2>1, <2>2 DEF Addresses
<1>5. w \in Nat /\ a % N \in 0 .. N - 1 /\ a = N * w + (a % N)
  <2> HIDE DEF N
  <2> QED BY <1>3, <1>4, DivMod
<1>6. w < DcpSize
  <2> HIDE DEF N, w
  <2>1. DcpSize <= w => N * DcpSize <= N * w
    BY <1>1, <1>3, <1>5, MulMono
  <2>2. N * w \in Nat /\ N * DcpSize \in Nat
    BY <1>1, <1>3, <1>5
  <2> QED BY <1>1, <1>3, <1>4, <1>5, <2>1, <2>2
<1>7. w \in Ranks
  BY <1>1, <1>5, <1>6 DEF Ranks
<1>8. a \div K2 \in Nat /\ a \div TopK \in Nat /\ a % TopK \in 0 .. TopK - 1
  <2> HIDE DEF K2
  <2> QED BY <1>1, <1>2, <1>4, DivMod
<1>9. (a \div K2) % Rows \in 0 .. Rows - 1
  <2> DEFINE x == a \div K2
  <2> HIDE DEF x
  <2>1. x \in Nat
    BY <1>8 DEF x
  <2>2. x % Rows \in 0 .. Rows - 1
    BY <1>1, <2>1, DivMod
  <2> QED BY <2>2 DEF x
<1>10. (a \div TopK) % 2 \in 0 .. 1
  <2> DEFINE x == a \div TopK
  <2> HIDE DEF x
  <2>1. x \in Nat
    BY <1>8 DEF x
  <2> QED BY <2>1 DEF x
<1> QED BY <1>7, <1>8, <1>9, <1>10 DEF RowSet, Fields, Lanes

-----------------------------------------------------------------------------
(***************************************************************************)
(* Types, and the columns the kernel is shown.                             *)
(***************************************************************************)

Positions == NoId .. MaxLen - 1
Values == Scores \cup {NegInf}

\* What a lane may hold before rank r's local positions become global.
LocalIds(r, q) == {NoId} \cup 0 .. LocalLen(lens[q], r) - 1

\* Global positions that the second remap makes of what it takes for local
\* ones of rank s: they may lie beyond the request.
Remade(s) == {NoId} \cup {GlobalPosition(g, s) : g \in 0 .. MaxLen - 1}

\* The buffers of rank r at each place of its path.
Buffers(r) ==
  /\ pc[r] = "clear" => mode.path = "deepgemm"
  /\ pc[r] = "convert" => mode.path = "b12x"
  /\ pc[r] = "indexer" /\ mode.path = "deepgemm" =>
       \A q \in RowSet, j \in Lanes : ids[r][q][j] = NoId
  /\ pc[r] = "convert" \/ (pc[r] = "pack" /\ mode.path = "deepgemm") =>
       \A q \in RowSet, j \in Lanes : ids[r][q][j] \in LocalIds(r, q)
  /\ pc[r] = "gather" =>
       \A q \in RowSet, j \in Lanes :
         packed[r][q][0][j] \in Positions /\ packed[r][q][1][j] \in Values
  /\ pc[r] = "regather" =>
       \A q \in RowSet, j \in Lanes : packed[r][q][0][j] \in Remade(r)
  /\ pc[r] = "unpack" =>
       \A q \in RowSet, p \in Columns :
         /\ gathered[r][CandidateBase(q, p)] \in Positions
         /\ gathered[r][CandidateBase(q, p) + TopK] \in Values
  /\ pc[r] = "select" =>
       \A q \in RowSet, p \in Columns : table[r][q][p] \in Positions \X Values
  /\ pc[r] = "reselect" =>
       \A q \in RowSet, p \in Columns :
         \E s \in Ranks : table[r][q][p][1] \in Remade(s)

\* Every token of a row has a score.
Scored == \A q \in RowSet : score[q] \in [Tokens(q) -> Scores]

TypeInv ==
  /\ TypeOK
  /\ Scored
  /\ \A r \in Ranks : Buffers(r)

\* A local position of a row is a token number, and so is what it becomes.
LEMMA LocalIdFacts ==
  ASSUME TypeOK, NEW r \in Ranks, NEW q \in RowSet, NEW id \in LocalIds(r, q)
  PROVE  id \in Positions /\ ToGlobal(r, id) \in Positions
<1>1. lens[q] \in 0 .. MaxLen /\ lens[q] \in Nat /\ MaxLen \in Nat
  BY RowsAssumption DEF TypeOK
<1>2. CASE id = NoId
  BY <1>1, <1>2 DEF ToGlobal, Positions, NoId
<1>3. CASE id # NoId
  <2>1. LocalLen(lens[q], r) \in Nat
    BY <1>1, LocalLenBounds
  <2>2. id \in Nat /\ id < LocalLen(lens[q], r)
    BY <1>3, <2>1 DEF LocalIds
  <2>3. /\ GlobalPosition(id, r) \in Nat /\ GlobalPosition(id, r) < lens[q]
        /\ id < lens[q]
    BY <1>1, <2>2, KeptTokens
  <2> QED BY <1>1, <1>3, <2>2, <2>3 DEF ToGlobal, Positions, NoId
<1> QED BY <1>2, <1>3

\* A rank-local kernel leaves local positions of the row.
LEMMA KernelIds ==
  ASSUME TypeOK, NEW r \in Ranks, NEW q \in RowSet, NEW columns \in Nat,
         NEW row \in LocalRows(r, q, columns)
  PROVE  row \in [Lanes -> LocalIds(r, q)]
<1>1. row \in [Lanes -> Visible(r, q, columns) \cup {NoId}]
  BY DEF LocalRows
<1>2. lens[q] \in Nat
  BY RowsAssumption DEF TypeOK
<1>3. LocalLen(lens[q], r) \in Nat /\ BlockSize \in Nat /\ columns * BlockSize \in Nat
  BY <1>2, LocalLenBounds, SizesAssumption
<1>4. Visible(r, q, columns) \subseteq 0 .. LocalLen(lens[q], r) - 1
  BY <1>3 DEF Visible, Smaller
<1> QED BY <1>1, <1>4 DEF LocalIds

\* Whatever the clamp makes of a position, the lane gets a score.
LEMMA LaneScoreValues ==
  ASSUME TypeOK, Scored, NEW r \in Ranks, NEW q \in RowSet, NEW row,
         NEW junk \in Scores
  PROVE  LaneScores(r, q, row, junk) \in [Lanes -> Values]
<1> DEFINE value == LocalScore(r, q)
           At(i) == IF i \in DOMAIN value THEN value[i] ELSE junk
<1>1. lens[q] \in Nat
  BY RowsAssumption DEF TypeOK
<1>2. LocalLen(lens[q], r) \in Nat
  BY <1>1, LocalLenBounds
<1>3. /\ DOMAIN value = 0 .. LocalLen(lens[q], r) - 1
      /\ \A i \in DOMAIN value : value[i] = score[q][GlobalPosition(i, r)]
  BY DEF LocalScore
<1> HIDE DEF value
<1>4. ASSUME NEW i \in DOMAIN value PROVE value[i] \in Scores
  <2>1. i \in Nat /\ i < LocalLen(lens[q], r)
    BY <1>2, <1>3
  <2>2. GlobalPosition(i, r) \in 0 .. lens[q] - 1
    BY <1>1, <2>1, KeptTokens
  <2> QED BY <1>3, <2>2 DEF Scored, Tokens
<1>5. \A i : At(i) \in Scores
  BY <1>4
<1>6. LaneScores(r, q, row, junk) =
        [j \in Lanes |-> IF row[j] = NoId THEN NegInf
                         ELSE At(Smaller(row[j], LogitsWidth(r) - 1))]
  BY DEF LaneScores, value
<1> HIDE DEF At
<1> QED BY <1>5, <1>6 DEF Values

\* What the second remap sends, and what a rank makes of it.
LEMMA RemadeFacts ==
  ASSUME NEW s \in Ranks
  PROVE  /\ \A id \in Positions : ToGlobal(s, id) \in Remade(s)
         /\ Remade(s) \subseteq Int
         /\ \A r \in Ranks, x \in Remade(s) : Finalized(r, x) \in Positions
<1>1. MaxLen \in Nat /\ NoId \in Positions
  BY RowsAssumption DEF Positions, NoId
<1>2. ASSUME NEW id \in Positions PROVE ToGlobal(s, id) \in Remade(s)
  BY <1>1 DEF Positions, NoId, ToGlobal, Remade
<1>3. ASSUME NEW g \in 0 .. MaxLen - 1
      PROVE  /\ GlobalPosition(g, s) \in Nat
             /\ LocalIndex(GlobalPosition(g, s)) = g
  BY <1>1, LocalRoundTrip
<1>4. Remade(s) \subseteq Int
  BY <1>3 DEF Remade, NoId
<1>5. ASSUME NEW r \in Ranks, NEW x \in Remade(s)
      PROVE  Finalized(r, x) \in Positions
  <2>1. CASE x = NoId
    BY <1>1, <2>1 DEF Finalized
  <2>2. CASE x # NoId
    <3>1. PICK g \in 0 .. MaxLen - 1 : x = GlobalPosition(g, s)
      BY <2>2 DEF Remade
    <3>2. LocalIndex(x) \in Positions
      BY <1>1, <1>3, <3>1 DEF Positions, NoId
    <3> QED BY <1>1, <3>2 DEF Finalized
  <2> QED BY <2>1, <2>2
<1> QED BY <1>2, <1>4, <1>5

\* A selection from a row of candidates keeps what all of them have.
LEMMA BestKeeps ==
  ASSUME NEW r, NEW row \in [Columns -> Int \X Int], NEW j \in Lanes
  PROVE  \E p \in Columns : Best(r, row)[j] = row[p]
<1>1. \A p \in Columns : row[p][2] \in Int
  OBVIOUS
<1>2. PICK f : /\ BestPlaces(row, f)
               /\ Best(r, row) = [l \in Lanes |-> row[f[l]]]
  BY <1>1, BestOfRow
<1>3. f[j] \in Columns /\ Best(r, row)[j] = row[f[j]]
  BY <1>2 DEF BestPlaces
<1> QED BY <1>3

\* At first nothing but what a former step left.
LEMMA InitTypes == Init => TypeInv
<1> SUFFICES ASSUME Init PROVE TypeInv
  OBVIOUS
<1>1. /\ MaxLen \in Nat \ {0} /\ Rows \in Nat \ {0} /\ 0 \in Scores
  BY RowsAssumption, ScoresAssumption
<1>2. mode \in Modes /\ mode.path \in {"b12x", "deepgemm"}
  BY ModesAssumption DEF Init
<1>3. lens \in [RowSet -> 0 .. MaxLen]
  <2>1. CASE mode.phase = "prefill"
    <3>1. PICK n \in 0 .. MaxLen :
            lens = [q \in RowSet |-> Larger(0, n - (Rows - 1 - q))]
      BY <2>1 DEF Init, LensOf
    <3>2. \A q \in RowSet : Larger(0, n - (Rows - 1 - q)) \in 0 .. MaxLen
      BY <1>1 DEF RowSet, Larger
    <3> QED BY <3>1, <3>2
  <2>2. CASE mode.phase # "prefill"
    BY <2>2, DecodeLensAssumption DEF Init, LensOf, RowSet
  <2> QED BY <2>1, <2>2
<1>4. score \in [RowSet -> UNION {[0 .. n - 1 -> Scores] : n \in 0 .. MaxLen}]
      /\ \A q \in RowSet : DOMAIN score[q] = Tokens(q)
  BY DEF Init
<1>5. Scored
  <2> SUFFICES ASSUME NEW q \in RowSet PROVE score[q] \in [Tokens(q) -> Scores]
    BY DEF Scored
  <2>1. PICK n \in 0 .. MaxLen : score[q] \in [0 .. n - 1 -> Scores]
    BY <1>4
  <2> QED BY <1>4, <2>1
<1>6. TypeOK
  <2>1. pc \in [Ranks -> {"clear", "indexer", "convert", "pack", "gather",
                          "unpack", "select", "repack", "regather", "reselect",
                          "done"}]
    BY DEF Init
  <2>2. width \in [Ranks -> Nat]
    BY DEF Init
  <2>3. 0 \in NoId .. MaxLen - 1 /\ 0 \in Scores \cup {NegInf}
    BY <1>1 DEF NoId
  <2>4. ids \in [Ranks -> [RowSet -> [Lanes -> NoId .. MaxLen - 1]]]
    BY <2>3 DEF Init
  <2>5. vals \in [Ranks -> [RowSet -> [Lanes -> Scores \cup {NegInf}]]]
    BY <2>3 DEF Init
  <2>6. packed \in [Ranks -> [RowSet -> [Fields -> [Lanes -> Int]]]]
    BY DEF Init
  <2>7. gathered \in [Ranks -> [Addresses -> Int]]
    BY DEF Init
  <2>8. table \in [Ranks -> [RowSet -> [Columns -> Int \X Int]]]
    BY DEF Init
  <2> QED BY <1>2, <1>3, <1>4, <2>1, <2>2, <2>4, <2>5, <2>6, <2>7, <2>8
             DEF TypeOK
<1>7. ASSUME NEW r \in Ranks PROVE Buffers(r)
  <2>1. pc[r] = IF mode.path = "b12x" THEN "indexer" ELSE "clear"
    BY DEF Init
  <2> QED BY <1>2, <2>1 DEF Buffers
<1> QED BY <1>5, <1>6, <1>7 DEF TypeInv

\* The other ranks' part of a step of one rank.
Elsewhere(r) ==
  /\ UNCHANGED <<mode, lens, score>>
  /\ \A s \in Ranks \ {r} :
       /\ pc'[s] = pc[s] /\ ids'[s] = ids[s] /\ vals'[s] = vals[s]
       /\ packed'[s] = packed[s] /\ gathered'[s] = gathered[s] /\ table'[s] = table[s]

LEMMA OneRankStep ==
  ASSUME TypeInv, NEW r \in Ranks, Elsewhere(r), TypeOK', Buffers(r)'
  PROVE  TypeInv'
<1>1. ASSUME NEW s \in Ranks, s # r PROVE Buffers(s)'
  <2>1. \A q \in RowSet : LocalIds(s, q)' = LocalIds(s, q)
    BY DEF Elsewhere, LocalIds
  <2>2. Buffers(s)
    BY DEF TypeInv
  <2> QED BY <1>1, <2>1, <2>2 DEF Elsewhere, Buffers
<1>2. Scored'
  BY DEF TypeInv, Scored, Elsewhere, Tokens
<1> QED BY <1>1, <1>2 DEF TypeInv

\* All that a step of rank r leaves of another rank's buffers is there.
LEMMA RankStepIsLocal ==
  ASSUME TypeOK, NEW r \in Ranks, RankStep(r)
  PROVE  Elsewhere(r)
<1>1. CASE PagedTopK(r)
  BY <1>1 DEF PagedTopK, Go, Elsewhere, TypeOK
<1>2. CASE EmptyChunk(r)
  BY <1>2 DEF EmptyChunk, Go, Elsewhere, TypeOK
<1>3. CASE Clear(r)
  BY <1>3 DEF Clear, Go, Elsewhere, TypeOK
<1>4. CASE PrefillTopK(r) \/ DecodeTopK(r)
  <2>1. \E new : ids' = [ids EXCEPT ![r] = new]
    BY <1>4 DEF PrefillTopK, DecodeTopK, LogitsTopK
  <2> QED BY <1>4, <2>1 DEF PrefillTopK, DecodeTopK, Go, Elsewhere, TypeOK
<1>5. CASE Convert(r)
  BY <1>5 DEF Convert, Go, Elsewhere, TypeOK
<1>6. CASE PackBuffers(r)
  BY <1>6 DEF PackBuffers, Go, Elsewhere, TypeOK
<1>7. CASE PackCandidates(r) \/ Repack(r)
  <2>1. \E new : packed' = [packed EXCEPT ![r] = new]
    BY <1>7 DEF PackCandidates, Repack, PackLogits
  <2> QED BY <1>7, <2>1 DEF PackCandidates, Repack, Go, Elsewhere, TypeOK
<1>8. CASE Unpack(r)
  BY <1>8 DEF Unpack, Go, Elsewhere, TypeOK
<1>9. CASE Select(r)
  BY <1>9 DEF Select, Go, Elsewhere, TypeOK
<1>10. CASE Reselect(r)
  BY <1>10 DEF Reselect, Go, Elsewhere, TypeOK
<1> QED BY <1>1, <1>2, <1>3, <1>4, <1>5, <1>6, <1>7, <1>8, <1>9, <1>10
           DEF RankStep

\* The rank-local selections.
LEMMA PagedTopKTypes ==
  ASSUME TypeInv, NEW r \in Ranks, PagedTopK(r) PROVE TypeOK' /\ Buffers(r)'
<1>1. TypeOK /\ Scored /\ lens \in [RowSet -> 0 .. MaxLen] /\ 0 \in Scores
  BY ScoresAssumption DEF TypeInv, TypeOK
<1> DEFINE rows(q) == LocalRows(r, q, ShownColumns(r))
           scores(choice) == [q \in RowSet |-> LaneScores(r, q, choice[q], 0)]
<1>2. PICK choice \in [RowSet -> UNION {rows(q) : q \in RowSet}] :
        /\ \A q \in RowSet : choice[q] \in rows(q)
        /\ ids' = [ids EXCEPT ![r] = choice]
        /\ vals' = [vals EXCEPT ![r] = scores(choice)]
  BY DEF PagedTopK
<1>3. ShownColumns(r) \in Nat
  BY <1>1, ShownIsBounded
<1>4. \A q \in RowSet : choice[q] \in [Lanes -> LocalIds(r, q)]
  BY <1>1, <1>2, <1>3, KernelIds
<1>5. choice \in [RowSet -> [Lanes -> Positions]]
  BY <1>1, <1>2, <1>4, LocalIdFacts
<1>6. scores(choice) \in [RowSet -> [Lanes -> Values]]
  BY <1>1, LaneScoreValues
<1> HIDE DEF rows, scores
<1>7. ids' \in [Ranks -> [RowSet -> [Lanes -> NoId .. MaxLen - 1]]]
  BY <1>1, <1>2, <1>5 DEF TypeOK, Positions
<1>8. vals' \in [Ranks -> [RowSet -> [Lanes -> Scores \cup {NegInf}]]]
  BY <1>1, <1>2, <1>6 DEF TypeOK, Values
<1>9. /\ width' \in [Ranks -> Nat]
      /\ pc' = [pc EXCEPT ![r] = "convert"] /\ pc'[r] = "convert"
      /\ mode.path = "b12x"
      /\ UNCHANGED <<mode, lens, score, packed, gathered, table>>
  BY <1>1, <1>3 DEF PagedTopK, Go, TypeOK
<1>10. pc' \in [Ranks -> {"clear", "indexer", "convert", "pack", "gather",
                          "unpack", "select", "repack", "regather", "reselect",
                          "done"}]
  BY <1>1, <1>9 DEF TypeOK
<1>11. TypeOK'
  BY <1>1, <1>7, <1>8, <1>9, <1>10 DEF TypeOK
<1>12. ids'[r] = choice
  BY <1>1, <1>2 DEF TypeOK
<1>13. \A q \in RowSet : LocalIds(r, q)' = LocalIds(r, q)
  BY <1>9 DEF LocalIds
<1> QED BY <1>4, <1>9, <1>11, <1>12, <1>13 DEF Buffers

LEMMA EmptyChunkTypes ==
  ASSUME TypeInv, NEW r \in Ranks, EmptyChunk(r) PROVE TypeOK' /\ Buffers(r)'
<1>1. TypeOK /\ NoId \in NoId .. MaxLen - 1 /\ NegInf \in Scores \cup {NegInf}
  BY RowsAssumption DEF TypeInv, NoId
<1>2. ids' \in [Ranks -> [RowSet -> [Lanes -> NoId .. MaxLen - 1]]]
      /\ ids'[r] = [q \in RowSet |-> [j \in Lanes |-> NoId]]
  BY <1>1 DEF TypeOK, EmptyChunk
<1>3. vals' \in [Ranks -> [RowSet -> [Lanes -> Scores \cup {NegInf}]]]
  BY <1>1 DEF TypeOK, EmptyChunk
<1>4. pc'[r] \in {"convert", "done"} /\ pc' = [pc EXCEPT ![r] = pc'[r]]
      /\ mode.path = "b12x"
      /\ UNCHANGED <<mode, lens, score, width, packed, gathered, table>>
  BY <1>1 DEF TypeOK, EmptyChunk, Go
<1>5. pc' \in [Ranks -> {"clear", "indexer", "convert", "pack", "gather",
                         "unpack", "select", "repack", "regather", "reselect",
                         "done"}]
  BY <1>1, <1>4 DEF TypeOK
<1>6. TypeOK'
  BY <1>1, <1>2, <1>3, <1>4, <1>5 DEF TypeOK
<1>7. \A q \in RowSet : NoId \in LocalIds(r, q)'
  BY DEF LocalIds
<1>8. \A q \in RowSet, j \in Lanes : ids'[r][q][j] = NoId
  BY <1>2
<1> QED BY <1>4, <1>6, <1>7, <1>8 DEF Buffers

LEMMA ClearTypes ==
  ASSUME TypeInv, NEW r \in Ranks, Clear(r) PROVE TypeOK' /\ Buffers(r)'
<1>1. TypeOK /\ NoId \in NoId .. MaxLen - 1
  BY RowsAssumption DEF TypeInv, NoId
<1>2. ids' \in [Ranks -> [RowSet -> [Lanes -> NoId .. MaxLen - 1]]]
      /\ ids'[r] = [q \in RowSet |-> [j \in Lanes |-> NoId]]
  BY <1>1 DEF TypeOK, Clear
<1>3. pc' \in [Ranks -> {"clear", "indexer", "convert", "pack", "gather",
                         "unpack", "select", "repack", "regather", "reselect",
                         "done"}]
      /\ pc'[r] = "indexer"
      /\ UNCHANGED <<mode, lens, score, width, vals, packed, gathered, table>>
  BY <1>1 DEF TypeOK, Clear, Go
<1>4. TypeOK'
  BY <1>1, <1>2, <1>3 DEF TypeOK
<1>5. \A q \in RowSet, j \in Lanes : ids'[r][q][j] = NoId
  BY <1>2
<1> QED BY <1>3, <1>4, <1>5 DEF Buffers

\* The buffer was filled before, so what a deepgemm kernel does not store is
\* padding.
LEMMA LogitsTopKTypes ==
  ASSUME TypeInv, NEW r \in Ranks, pc[r] = "indexer", mode.path = "deepgemm",
         LogitsTopK(r)
  PROVE  /\ \A q \in RowSet, j \in Lanes : ids'[r][q][j] \in LocalIds(r, q)
         /\ \E new \in [RowSet -> [Lanes -> Positions]] :
              ids' = [ids EXCEPT ![r] = new]
<1>1. TypeOK /\ Buffers(r) /\ lens \in [RowSet -> 0 .. MaxLen]
  BY DEF TypeInv, TypeOK
<1>2. TableWidth \in Nat
  BY ShareFitsPages, RowsAssumption DEF TableWidth
<1>3. PICK choice :
        /\ \A q \in RowSet : choice[q] \in LocalRows(r, q, TableWidth)
        /\ ids' = [ids EXCEPT ![r] = Stored(r, choice)]
  BY DEF LogitsTopK
<1>4. \A q \in RowSet : choice[q] \in [Lanes -> LocalIds(r, q)]
  BY <1>1, <1>2, <1>3, KernelIds
<1>5. \A q \in RowSet, j \in Lanes : ids[r][q][j] = NoId
  BY <1>1 DEF Buffers
<1>6. ASSUME NEW q \in RowSet, NEW j \in Lanes
      PROVE  Stored(r, choice)[q][j] \in LocalIds(r, q)
  <2>1. Stored(r, choice)[q][j]
          = IF choice[q][j] = NoId THEN ids[r][q][j] ELSE choice[q][j]
    BY DEF Stored
  <2>2. choice[q][j] \in LocalIds(r, q)
    BY <1>4
  <2> QED BY <1>5, <2>1, <2>2
<1>7. \A q \in RowSet, j \in Lanes : Stored(r, choice)[q][j] \in Positions
  BY <1>1, <1>6, LocalIdFacts
<1>8. Stored(r, choice) \in [RowSet -> [Lanes -> Positions]]
  BY <1>7 DEF Stored
<1>9. ids'[r] = Stored(r, choice)
  BY <1>1, <1>3 DEF TypeOK
<1> QED BY <1>3, <1>6, <1>8, <1>9

LEMMA DeepgemmTypes ==
  ASSUME TypeInv, NEW r \in Ranks, PrefillTopK(r) \/ DecodeTopK(r)
  PROVE  TypeOK' /\ Buffers(r)'
<1>1. /\ TypeOK /\ pc[r] = "indexer" /\ mode.path = "deepgemm"
      /\ UNCHANGED <<mode, lens, score, width, vals, packed, gathered, table>>
      /\ pc' = [pc EXCEPT ![r] = "pack"]
  BY DEF PrefillTopK, DecodeTopK, Go, TypeInv
<1>2. /\ \A q \in RowSet, j \in Lanes : ids'[r][q][j] \in LocalIds(r, q)
      /\ \E new \in [RowSet -> [Lanes -> Positions]] :
           ids' = [ids EXCEPT ![r] = new]
  <2>1. CASE LogitsTopK(r)
    BY <1>1, <2>1, LogitsTopKTypes
  <2>2. CASE ids' = [ids EXCEPT ![r] = [q \in RowSet |-> [j \in Lanes |-> NoId]]]
    <3> DEFINE none == [q \in RowSet |-> [j \in Lanes |-> NoId]]
    <3>1. NoId \in Positions /\ \A q \in RowSet : NoId \in LocalIds(r, q)
      BY RowsAssumption DEF Positions, NoId, LocalIds
    <3>2. /\ none \in [RowSet -> [Lanes -> Positions]]
          /\ \A q \in RowSet, j \in Lanes : none[q][j] = NoId
      BY <3>1
    <3> HIDE DEF none
    <3>3. ids' = [ids EXCEPT ![r] = none]
      BY <2>2 DEF none
    <3>4. ids'[r] = none
      BY <1>1, <3>3 DEF TypeOK
    <3> QED BY <3>1, <3>2, <3>3, <3>4
  <2> QED BY <2>1, <2>2 DEF PrefillTopK, DecodeTopK
<1>3. ids' \in [Ranks -> [RowSet -> [Lanes -> NoId .. MaxLen - 1]]]
  BY <1>1, <1>2 DEF TypeOK, Positions
<1>4. pc' \in [Ranks -> {"clear", "indexer", "convert", "pack", "gather",
                         "unpack", "select", "repack", "regather", "reselect",
                         "done"}]
      /\ pc'[r] = "pack"
  BY <1>1 DEF TypeOK
<1>5. TypeOK'
  BY <1>1, <1>3, <1>4 DEF TypeOK
<1>6. \A q \in RowSet : LocalIds(r, q)' = LocalIds(r, q)
  BY <1>1 DEF LocalIds
<1> QED BY <1>2, <1>4, <1>5, <1>6 DEF Buffers

\* The exchange.
LEMMA ConvertTypes ==
  ASSUME TypeInv, NEW r \in Ranks, Convert(r) PROVE TypeOK' /\ Buffers(r)'
<1> DEFINE new == [q \in RowSet |-> [j \in Lanes |-> ToGlobal(r, ids[r][q][j])]]
<1>1. /\ TypeOK /\ Buffers(r) /\ pc[r] = "convert" /\ mode.path # "deepgemm"
      /\ ids' = [ids EXCEPT ![r] = new]
      /\ UNCHANGED <<mode, lens, score, width, vals, packed, gathered, table>>
  BY DEF Convert, TypeInv, Buffers
<1>2. \A q \in RowSet, j \in Lanes : ToGlobal(r, ids[r][q][j]) \in Positions
  BY <1>1, LocalIdFacts DEF Buffers
<1>3. new \in [RowSet -> [Lanes -> Positions]]
  BY <1>2
<1> HIDE DEF new
<1>4. ids' \in [Ranks -> [RowSet -> [Lanes -> NoId .. MaxLen - 1]]]
  BY <1>1, <1>3 DEF TypeOK, Positions
<1>5. pc' \in [Ranks -> {"clear", "indexer", "convert", "pack", "gather",
                         "unpack", "select", "repack", "regather", "reselect",
                         "done"}]
      /\ pc'[r] \in {"pack", "done"}
  BY <1>1 DEF TypeOK, Convert, Go
<1>6. TypeOK'
  BY <1>1, <1>4, <1>5 DEF TypeOK
<1> QED BY <1>1, <1>5, <1>6 DEF Buffers

LEMMA PackBuffersTypes ==
  ASSUME TypeInv, NEW r \in Ranks, PackBuffers(r) PROVE TypeOK' /\ Buffers(r)'
<1> DEFINE new == [q \in RowSet |-> [f \in Fields |->
                     IF f = 0 THEN ids[r][q] ELSE vals[r][q]]]
<1>1. /\ TypeOK /\ mode.path = "b12x"
      /\ packed' = [packed EXCEPT ![r] = new]
      /\ pc' = [pc EXCEPT ![r] = "gather"]
      /\ UNCHANGED <<mode, lens, score, width, ids, vals, gathered, table>>
  BY DEF PackBuffers, Go, TypeInv
<1>2. /\ ids[r] \in [RowSet -> [Lanes -> Positions]]
      /\ vals[r] \in [RowSet -> [Lanes -> Values]]
  BY <1>1 DEF TypeOK, Positions, Values
<1>3. Positions \subseteq Int /\ Values \subseteq Int
  BY ScoresAssumption DEF Positions, Values, NegInf
<1>4. \A q \in RowSet : ids[r][q] \in [Lanes -> Int] /\ vals[r][q] \in [Lanes -> Int]
  BY <1>2, <1>3
<1>5. new \in [RowSet -> [Fields -> [Lanes -> Int]]]
  BY <1>4
<1>6. \A q \in RowSet, j \in Lanes :
        new[q][0][j] \in Positions /\ new[q][1][j] \in Values
  BY <1>2 DEF Fields
<1> HIDE DEF new
<1>7. packed' \in [Ranks -> [RowSet -> [Fields -> [Lanes -> Int]]]]
      /\ packed'[r] = new
  BY <1>1, <1>5 DEF TypeOK
<1>8. pc' \in [Ranks -> {"clear", "indexer", "convert", "pack", "gather",
                         "unpack", "select", "repack", "regather", "reselect",
                         "done"}]
      /\ pc'[r] = "gather"
  BY <1>1 DEF TypeOK
<1>9. TypeOK'
  BY <1>1, <1>7, <1>8 DEF TypeOK
<1> QED BY <1>6, <1>7, <1>8, <1>9 DEF Buffers, Positions, Values

\* deepgemm packs what it takes for local positions.
LEMMA PackLogitsTypes ==
  ASSUME TypeInv, NEW r \in Ranks, PackLogits(r)
  PROVE  /\ \E new \in [RowSet -> [Fields -> [Lanes -> Int]]] :
              packed' = [packed EXCEPT ![r] = new]
         /\ \A q \in RowSet, j \in Lanes :
              /\ packed'[r][q][0][j] = ToGlobal(r, ids[r][q][j])
              /\ packed'[r][q][1][j] \in Values
<1>1. TypeOK /\ Scored
  BY DEF TypeInv
<1>2. PICK junk \in Scores :
        packed' = [packed EXCEPT ![r] = [q \in RowSet |-> [f \in Fields |->
                    IF f = 0 THEN [j \in Lanes |-> ToGlobal(r, ids[r][q][j])]
                    ELSE LaneScores(r, q, ids[r][q], junk)]]]
  BY DEF PackLogits
<1> DEFINE part(q) == LaneScores(r, q, ids[r][q], junk)
           sent(q) == [j \in Lanes |-> ToGlobal(r, ids[r][q][j])]
           new == [q \in RowSet |-> [f \in Fields |->
                     IF f = 0 THEN sent(q) ELSE part(q)]]
<1>3. \A q \in RowSet : part(q) \in [Lanes -> Values]
  BY <1>1, LaneScoreValues
<1>4. Values \subseteq Int
  BY ScoresAssumption DEF Values, NegInf
<1>5. ASSUME NEW q \in RowSet PROVE sent(q) \in [Lanes -> Int]
  <2>1. ASSUME NEW j \in Lanes PROVE ToGlobal(r, ids[r][q][j]) \in Int
    <3>1. ids[r][q][j] \in Positions
      BY <1>1 DEF TypeOK, Positions
    <3>2. ToGlobal(r, ids[r][q][j]) \in Remade(r) /\ Remade(r) \subseteq Int
      BY <3>1, RemadeFacts
    <3> QED BY <3>2
  <2> QED BY <2>1
<1>6. \A q \in RowSet, j \in Lanes : sent(q)[j] = ToGlobal(r, ids[r][q][j])
  OBVIOUS
<1> HIDE DEF part, sent
<1>7. \A q \in RowSet : part(q) \in [Lanes -> Int]
  BY <1>3, <1>4
<1>8. new \in [RowSet -> [Fields -> [Lanes -> Int]]]
  BY <1>5, <1>7
<1>9. \A q \in RowSet : new[q][0] = sent(q) /\ new[q][1] = part(q)
  BY DEF Fields
<1>10. packed' = [packed EXCEPT ![r] = new]
  BY <1>2 DEF part, sent
<1> HIDE DEF new
<1>11. packed'[r] = new
  BY <1>1, <1>10 DEF TypeOK
<1>12. ASSUME NEW q \in RowSet, NEW j \in Lanes
       PROVE  /\ packed'[r][q][0][j] = ToGlobal(r, ids[r][q][j])
              /\ packed'[r][q][1][j] \in Values
  BY <1>3, <1>6, <1>9, <1>11
<1> QED BY <1>8, <1>10, <1>12

LEMMA PackCandidatesTypes ==
  ASSUME TypeInv, NEW r \in Ranks, PackCandidates(r) \/ Repack(r)
  PROVE  TypeOK' /\ Buffers(r)'
<1>1. /\ TypeOK /\ Buffers(r)
      /\ PackLogits(r)
      /\ pc' = [pc EXCEPT ![r] = IF pc[r] = "pack" THEN "gather" ELSE "regather"]
      /\ pc[r] \in {"pack", "repack"}
      /\ pc[r] = "pack" => mode.path = "deepgemm"
      /\ UNCHANGED <<mode, lens, score, width, ids, vals, gathered, table>>
  BY DEF PackCandidates, Repack, Go, TypeInv
<1>2. /\ packed' \in [Ranks -> [RowSet -> [Fields -> [Lanes -> Int]]]]
      /\ \A q \in RowSet, j \in Lanes :
           /\ packed'[r][q][0][j] = ToGlobal(r, ids[r][q][j])
           /\ packed'[r][q][1][j] \in Values
  BY <1>1, PackLogitsTypes DEF TypeOK
<1>3. pc' \in [Ranks -> {"clear", "indexer", "convert", "pack", "gather",
                         "unpack", "select", "repack", "regather", "reselect",
                         "done"}]
      /\ pc'[r] = IF pc[r] = "pack" THEN "gather" ELSE "regather"
  BY <1>1 DEF TypeOK
<1>4. TypeOK'
  BY <1>1, <1>2, <1>3 DEF TypeOK
<1>5. ASSUME pc[r] = "pack", NEW q \in RowSet, NEW j \in Lanes
      PROVE  packed'[r][q][0][j] \in Positions
  <2>1. ids[r][q][j] \in LocalIds(r, q)
    BY <1>1, <1>5 DEF Buffers
  <2> QED BY <1>1, <1>2, <2>1, LocalIdFacts
<1>6. ASSUME NEW q \in RowSet, NEW j \in Lanes
      PROVE  packed'[r][q][0][j] \in Remade(r)
  <2>1. ids[r][q][j] \in Positions
    BY <1>1 DEF TypeOK, Positions
  <2> QED BY <1>2, <2>1, RemadeFacts
<1> QED BY <1>1, <1>2, <1>3, <1>4, <1>5, <1>6 DEF Buffers, Positions, Values, Remade

\* What a collective sends on is what the ranks packed.
LEMMA AllGatherFlatTypes == ASSUME TypeInv, AllGatherFlat PROVE TypeInv'
<1>1. /\ TypeOK /\ Scored /\ \A r \in Ranks : Buffers(r) /\ pc[r] = "gather"
      /\ gathered' = [r \in Ranks |-> Concatenated]
      /\ pc' = [r \in Ranks |-> "unpack"]
      /\ UNCHANGED <<mode, lens, score, width, ids, vals, packed, table>>
  BY DEF AllGatherFlat, TypeInv
<1>2. Concatenated \in [Addresses -> Int]
  <2>1. ASSUME NEW a \in Addresses
        PROVE  packed[a \div (Rows * 2 * TopK)]
                     [(a \div (2 * TopK)) % Rows][(a \div TopK) % 2][a % TopK] \in Int
    BY <1>1, AddressParts DEF TypeOK
  <2> QED BY <2>1 DEF Concatenated
<1>3. TypeOK'
  BY <1>1, <1>2 DEF TypeOK
<1>4. ASSUME NEW r \in Ranks, NEW q \in RowSet, NEW p \in Columns
      PROVE  /\ gathered'[r][CandidateBase(q, p)] \in Positions
             /\ gathered'[r][CandidateBase(q, p) + TopK] \in Values
  <2>1. p \div TopK \in Ranks /\ p % TopK \in Lanes
    BY ColumnPlace
  <2>2. /\ packed[p \div TopK][q][0][p % TopK] \in Positions
        /\ packed[p \div TopK][q][1][p % TopK] \in Values
    BY <1>1, <2>1 DEF Buffers
  <2>3. gathered'[r] = Concatenated
    BY <1>1
  <2> QED BY <2>2, <2>3, CandidateAddress
<1>5. ASSUME NEW r \in Ranks PROVE Buffers(r)'
  BY <1>1, <1>4 DEF Buffers, CandidateBase, Positions, Values
<1>6. Scored'
  BY <1>1 DEF Scored, Tokens
<1> QED BY <1>3, <1>5, <1>6 DEF TypeInv

LEMMA AllGatherLanesTypes == ASSUME TypeInv, AllGatherLanes PROVE TypeInv'
<1>1. /\ TypeOK /\ Scored /\ \A r \in Ranks : Buffers(r)
      /\ table' = [r \in Ranks |-> SideBySide]
      /\ UNCHANGED <<mode, lens, score, width, ids, vals, packed, gathered>>
  BY DEF AllGatherLanes, TypeInv
<1>2. PICK here \in {"gather", "regather"} :
        /\ \A r \in Ranks : pc[r] = here
        /\ pc' = [r \in Ranks |->
                    IF here = "gather" THEN "select" ELSE "reselect"]
  BY DEF AllGatherLanes
<1>3. ASSUME NEW q \in RowSet, NEW p \in Columns
      PROVE  /\ p \div TopK \in Ranks /\ p % TopK \in Lanes
             /\ SideBySide[q][p] = <<packed[p \div TopK][q][0][p % TopK],
                                     packed[p \div TopK][q][1][p % TopK]>>
  BY ColumnPlace DEF SideBySide
<1>4. ASSUME NEW q \in RowSet, NEW p \in Columns
      PROVE  /\ packed[p \div TopK][q][0][p % TopK] \in Int
             /\ packed[p \div TopK][q][1][p % TopK] \in Int
  <2>1. 0 \in Fields /\ 1 \in Fields
    BY DEF Fields
  <2> QED BY <1>1, <1>3, <2>1 DEF TypeOK
<1>5. SideBySide \in [RowSet -> [Columns -> Int \X Int]]
  BY <1>3, <1>4 DEF SideBySide
<1>6. TypeOK'
  BY <1>1, <1>2, <1>5 DEF TypeOK
<1>7. ASSUME here = "gather", NEW q \in RowSet, NEW p \in Columns
      PROVE  SideBySide[q][p] \in Positions \X Values
  <2>1. /\ packed[p \div TopK][q][0][p % TopK] \in Positions
        /\ packed[p \div TopK][q][1][p % TopK] \in Values
    BY <1>1, <1>2, <1>3, <1>7 DEF Buffers
  <2>2. SideBySide[q][p] = <<packed[p \div TopK][q][0][p % TopK],
                             packed[p \div TopK][q][1][p % TopK]>>
    BY <1>3
  <2> DEFINE position == packed[p \div TopK][q][0][p % TopK]
             worth == packed[p \div TopK][q][1][p % TopK]
  <2> HIDE DEF position, worth
  <2>3. position \in Positions /\ worth \in Values /\ SideBySide[q][p] = <<position, worth>>
    BY <2>1, <2>2 DEF position, worth
  <2> QED BY <2>3
<1>8. ASSUME here = "regather", NEW q \in RowSet, NEW p \in Columns
      PROVE  \E s \in Ranks : SideBySide[q][p][1] \in Remade(s)
  <2>1. packed[p \div TopK][q][0][p % TopK] \in Remade(p \div TopK)
    BY <1>1, <1>2, <1>3, <1>8 DEF Buffers
  <2> QED BY <1>3, <2>1
<1>9. ASSUME NEW r \in Ranks PROVE Buffers(r)'
  <2>1. table'[r] = SideBySide
    BY <1>1
  <2>2. pc'[r] = IF here = "gather" THEN "select" ELSE "reselect"
    BY <1>2
  <2> QED BY <1>7, <1>8, <2>1, <2>2 DEF Buffers, Positions, Values, Remade
<1>10. Scored'
  BY <1>1 DEF Scored, Tokens
<1> QED BY <1>6, <1>9, <1>10 DEF TypeInv

LEMMA UnpackTypes ==
  ASSUME TypeInv, NEW r \in Ranks, Unpack(r) PROVE TypeOK' /\ Buffers(r)'
<1> DEFINE new == [q \in RowSet |-> [p \in Columns |->
                     <<gathered[r][CandidateBase(q, p)],
                       gathered[r][CandidateBase(q, p) + TopK]>>]]
<1>1. /\ TypeOK /\ Buffers(r) /\ pc[r] = "unpack"
      /\ table' = [table EXCEPT ![r] = new]
      /\ pc' = [pc EXCEPT ![r] = "select"]
      /\ UNCHANGED <<mode, lens, score, width, ids, vals, packed, gathered>>
  BY DEF Unpack, Go, TypeInv
<1>2. Positions \subseteq Int /\ Values \subseteq Int
  BY ScoresAssumption DEF Positions, Values, NegInf
<1>3. \A q \in RowSet, p \in Columns : new[q][p] \in Positions \X Values
  BY <1>1 DEF Buffers
<1>4. new \in [RowSet -> [Columns -> Int \X Int]]
  BY <1>2, <1>3
<1> HIDE DEF new
<1>5. table' \in [Ranks -> [RowSet -> [Columns -> Int \X Int]]] /\ table'[r] = new
  BY <1>1, <1>4 DEF TypeOK
<1>6. pc' \in [Ranks -> {"clear", "indexer", "convert", "pack", "gather",
                         "unpack", "select", "repack", "regather", "reselect",
                         "done"}]
      /\ pc'[r] = "select"
  BY <1>1 DEF TypeOK
<1>7. TypeOK'
  BY <1>1, <1>5, <1>6 DEF TypeOK
<1> QED BY <1>3, <1>5, <1>6, <1>7 DEF Buffers, Positions, Values

\* The selections from all candidates.
LEMMA SelectTypes ==
  ASSUME TypeInv, NEW r \in Ranks, Select(r) PROVE TypeOK' /\ Buffers(r)'
<1> DEFINE best == [q \in RowSet |-> Best(r, table[r][q])]
           chosen == [q \in RowSet |-> [j \in Lanes |-> best[q][j][1]]]
           worth == [q \in RowSet |-> [j \in Lanes |-> best[q][j][2]]]
<1>1. /\ TypeOK /\ Buffers(r) /\ pc[r] = "select"
      /\ ids' = [ids EXCEPT ![r] = chosen]
      /\ vals' = IF mode.path = "deepgemm" THEN vals
                 ELSE [vals EXCEPT ![r] = worth]
      /\ UNCHANGED <<mode, lens, score, width, packed, gathered, table>>
  BY DEF Select, TypeInv
<1>2. ASSUME NEW q \in RowSet, NEW j \in Lanes
      PROVE  best[q][j] \in Positions \X Values
  <2>1. table[r][q] \in [Columns -> Int \X Int]
    BY <1>1 DEF TypeOK
  <2>2. PICK p \in Columns : Best(r, table[r][q])[j] = table[r][q][p]
    BY <2>1, BestKeeps
  <2>3. table[r][q][p] \in Positions \X Values
    BY <1>1 DEF Buffers
  <2> QED BY <2>2, <2>3
<1> HIDE DEF best
<1>3. chosen \in [RowSet -> [Lanes -> Positions]]
      /\ worth \in [RowSet -> [Lanes -> Values]]
  BY <1>2
<1> HIDE DEF chosen, worth
<1>4. ids' \in [Ranks -> [RowSet -> [Lanes -> NoId .. MaxLen - 1]]]
  BY <1>1, <1>3 DEF TypeOK, Positions
<1>5. vals' \in [Ranks -> [RowSet -> [Lanes -> Scores \cup {NegInf}]]]
  BY <1>1, <1>3 DEF TypeOK, Values
<1>6. pc' \in [Ranks -> {"clear", "indexer", "convert", "pack", "gather",
                         "unpack", "select", "repack", "regather", "reselect",
                         "done"}]
      /\ pc'[r] \in {"repack", "done"}
  BY <1>1 DEF TypeOK, Select, Go
<1>7. TypeOK'
  BY <1>1, <1>4, <1>5, <1>6 DEF TypeOK
<1> QED BY <1>6, <1>7 DEF Buffers

LEMMA ReselectTypes ==
  ASSUME TypeInv, NEW r \in Ranks, Reselect(r) PROVE TypeOK' /\ Buffers(r)'
<1> DEFINE best == [q \in RowSet |-> Best(r, table[r][q])]
           chosen == [q \in RowSet |-> [j \in Lanes |-> Finalized(r, best[q][j][1])]]
<1>1. /\ TypeOK /\ Buffers(r) /\ pc[r] = "reselect"
      /\ ids' = [ids EXCEPT ![r] = chosen]
      /\ pc' = [pc EXCEPT ![r] = "done"]
      /\ UNCHANGED <<mode, lens, score, width, vals, packed, gathered, table>>
  BY DEF Reselect, Go, TypeInv
<1>2. ASSUME NEW q \in RowSet, NEW j \in Lanes
      PROVE  Finalized(r, best[q][j][1]) \in Positions
  <2>1. table[r][q] \in [Columns -> Int \X Int]
    BY <1>1 DEF TypeOK
  <2>2. PICK p \in Columns : Best(r, table[r][q])[j] = table[r][q][p]
    BY <2>1, BestKeeps
  <2>3. PICK s \in Ranks : table[r][q][p][1] \in Remade(s)
    BY <1>1 DEF Buffers
  <2> QED BY <2>2, <2>3, RemadeFacts
<1> HIDE DEF best
<1>3. chosen \in [RowSet -> [Lanes -> Positions]]
  BY <1>2
<1> HIDE DEF chosen
<1>4. ids' \in [Ranks -> [RowSet -> [Lanes -> NoId .. MaxLen - 1]]]
  BY <1>1, <1>3 DEF TypeOK, Positions
<1>5. pc' \in [Ranks -> {"clear", "indexer", "convert", "pack", "gather",
                         "unpack", "select", "repack", "regather", "reselect",
                         "done"}]
      /\ pc'[r] = "done"
  BY <1>1 DEF TypeOK
<1>6. TypeOK'
  BY <1>1, <1>4, <1>5 DEF TypeOK
<1> QED BY <1>5, <1>6 DEF Buffers

LEMMA TypeStep == TypeInv /\ [Next]_vars => TypeInv'
<1> SUFFICES ASSUME TypeInv, [Next]_vars PROVE TypeInv'
  OBVIOUS
<1>1. ASSUME NEW r \in Ranks, RankStep(r) PROVE TypeInv'
  <2>1. Elsewhere(r)
    BY <1>1, RankStepIsLocal DEF TypeInv
  <2>2. TypeOK' /\ Buffers(r)'
    BY <1>1, PagedTopKTypes, EmptyChunkTypes, ClearTypes, DeepgemmTypes,
       ConvertTypes, PackBuffersTypes, PackCandidatesTypes, UnpackTypes,
       SelectTypes, ReselectTypes DEF RankStep
  <2> QED BY <2>1, <2>2, OneRankStep
<1>2. CASE UNCHANGED vars
  <2>1. TypeOK' /\ Scored'
    BY <1>2 DEF TypeInv, TypeOK, Scored, Tokens, vars
  <2>2. ASSUME NEW r \in Ranks PROVE Buffers(r)'
    <3>1. \A q \in RowSet : LocalIds(r, q)' = LocalIds(r, q)
      BY <1>2 DEF LocalIds, vars
    <3>2. Buffers(r)
      BY DEF TypeInv
    <3> QED BY <1>2, <3>1, <3>2 DEF Buffers, vars
  <2> QED BY <2>1, <2>2 DEF TypeInv
<1> QED BY <1>1, <1>2, AllGatherFlatTypes, AllGatherLanesTypes DEF Next

\* No rank reads a lane as a position or a score that is none, for any
\* group, request, scores and ties, in either implementation.
THEOREM MergeTypes == Spec => []TypeOK
<1>1. TypeInv => TypeOK
  BY DEF TypeInv
<1> QED BY <1>1, InitTypes, TypeStep, PTL DEF Spec

\* A kernel of a prefill chunk is shown only columns that the request has
\* pages in, and the first, however the lengths of the ranks' shares differ.
THEOREM ColumnsAreCurrent == Spec => []NoStaleColumn
<1>1. Init => NoStaleColumn
  <2> SUFFICES ASSUME Init, NEW r \in Ranks PROVE width[r] <= Larger(1, Allocated)
    BY DEF NoStaleColumn
  <2>1. lens \in [RowSet -> 0 .. MaxLen]
    BY InitTypes DEF TypeInv, TypeOK
  <2>2. TotalLen \in Nat
    BY <2>1, TotalIsLongest, RowsAssumption
  <2>3. Allocated \in Nat
    BY <2>2, ShareFitsPages DEF Allocated
  <2>4. width[r] = 0
    BY DEF Init
  <2> QED BY <2>3, <2>4 DEF Larger
<1>2. TypeInv /\ NoStaleColumn /\ [Next]_vars => NoStaleColumn'
  <2> SUFFICES ASSUME TypeInv, NoStaleColumn, [Next]_vars PROVE NoStaleColumn'
    OBVIOUS
  <2>1. /\ TypeOK /\ lens \in [RowSet -> 0 .. MaxLen]
    BY DEF TypeInv, TypeOK
  <2>2. ASSUME UNCHANGED <<mode, lens, width>> PROVE NoStaleColumn'
    BY <2>2 DEF NoStaleColumn, Allocated, TotalLen
  <2>3. ASSUME NEW r \in Ranks, PagedTopK(r) PROVE NoStaleColumn'
    <3>1. /\ UNCHANGED <<mode, lens>>
          /\ width' = [width EXCEPT ![r] = ShownColumns(r)]
      BY <2>3 DEF PagedTopK
    <3>2. Allocated' = Allocated
      BY <3>1 DEF Allocated, TotalLen
    <3>3. \A s \in Ranks : width'[s] = IF s = r THEN ShownColumns(r) ELSE width[s]
      BY <2>1, <3>1 DEF TypeOK
    <3> QED BY <2>1, <3>1, <3>2, <3>3, ShownIsBounded DEF NoStaleColumn
  <2>4. ASSUME NEW r \in Ranks, RankStep(r), ~ PagedTopK(r) PROVE NoStaleColumn'
    BY <2>2, <2>4 DEF RankStep, EmptyChunk, Clear, PrefillTopK, DecodeTopK, Convert,
                      PackBuffers, PackCandidates, Unpack, Select, Repack, Reselect
  <2>5. CASE AllGatherFlat \/ AllGatherLanes
    BY <2>2, <2>5 DEF AllGatherFlat, AllGatherLanes
  <2>6. CASE UNCHANGED vars
    BY <2>2, <2>6 DEF vars
  <2> QED BY <2>3, <2>4, <2>5, <2>6 DEF Next
<1> QED BY <1>1, <1>2, InitTypes, TypeStep, PTL DEF Spec

-----------------------------------------------------------------------------
(***************************************************************************)
(* Selected once.                                                          *)
(***************************************************************************)

\* A set that is mapped one to one has as many elements as its image.
LEMMA ImageSize ==
  ASSUME NEW S, IsFiniteSet(S), NEW h, S \subseteq DOMAIN h,
         \A x, y \in S : h[x] = h[y] => x = y
  PROVE  /\ IsFiniteSet({h[x] : x \in S})
         /\ Cardinality({h[x] : x \in S}) = Cardinality(S)
<1> DEFINE T == {h[x] : x \in S}
           g == [x \in S |-> h[x]]
<1>1. g \in [S -> T] /\ \A x \in S : g[x] = h[x]
  OBVIOUS
<1> HIDE DEF g
<1>2. g \in Injection(S, T)
  BY <1>1 DEF Injection, IsInjective
<1>3. g \in Surjection(S, T)
  BY <1>1 DEF Surjection
<1>4. ExistsBijection(S, T)
  BY <1>2, <1>3 DEF ExistsBijection, Bijection
<1> HIDE DEF T
<1>5. IsFiniteSet(T) /\ Cardinality(T) = Cardinality(S)
  BY <1>4, FS_Bijection
<1> QED BY <1>5 DEF T

\* What is best stays best under other names.
LEMMA TopKRenamed ==
  ASSUME NEW C, IsFiniteSet(C), NEW value, NEW S, IsTopK(S, C, value),
         NEW h, C \subseteq DOMAIN h, \A x, y \in C : h[x] = h[y] => x = y,
         NEW other, \A x \in C : other[h[x]] = value[x]
  PROVE  IsTopK({h[x] : x \in S}, {h[x] : x \in C}, other)
<1> DEFINE T == {h[x] : x \in S}
           D == {h[x] : x \in C}
<1>1. S \subseteq C /\ IsFiniteSet(S)
  BY FS_Subset DEF IsTopK
<1>2. Cardinality(T) = Cardinality(S)
  <2>1. S \subseteq DOMAIN h /\ \A x, y \in S : h[x] = h[y] => x = y
    BY <1>1
  <2> QED BY <1>1, <2>1, ImageSize
<1>3. T \subseteq D
  BY <1>1
<1>4. T # D => S # C
  OBVIOUS
<1>5. ASSUME NEW c \in T, NEW x \in D \ T PROVE other[x] <= other[c]
  <2>1. PICK i \in S : c = h[i]
    OBVIOUS
  <2>2. PICK k \in C \ S : x = h[k]
    OBVIOUS
  <2>3. value[k] <= value[i]
    BY DEF IsTopK
  <2> QED BY <1>1, <2>1, <2>2, <2>3
<1> HIDE DEF T, D
<1>6. IsTopK(T, D, other)
  BY <1>2, <1>3, <1>4, <1>5 DEF IsTopK
<1> QED BY <1>6 DEF T, D

\* Longer requests leave a rank no less.
LEMMA ShareGrows ==
  ASSUME NEW a \in Nat, NEW b \in Nat, a <= b, NEW r \in Ranks
  PROVE  LocalLen(a, r) <= LocalLen(b, r)
<1>1. LocalLen(a, r) \in Nat /\ LocalLen(b, r) \in Nat
  BY LocalLenBounds
<1> DEFINE i == LocalLen(b, r)
           tok == GlobalPosition(i, r)
<1>2. SUFFICES ASSUME i < LocalLen(a, r) PROVE FALSE
  BY <1>1
<1>3. i \in Nat
  BY <1>1
<1>4. tok \in Nat /\ tok < a
  BY <1>2, <1>3, KeptTokens
<1>5. Owner(tok) = r /\ LocalIndex(tok) = i
  BY <1>3, LocalRoundTrip
<1>6. tok < b
  BY <1>4
<1> HIDE DEF tok
<1>7. LocalIndex(tok) < LocalLen(b, Owner(tok))
  BY <1>4, <1>6, LengthTestIsExact
<1> QED BY <1>1, <1>5, <1>7

\* The first rank has the longest share.
LEMMA FirstHasMost ==
  ASSUME NEW len \in Nat, NEW r \in Ranks, NEW i \in Nat, i < LocalLen(len, r)
  PROVE  0 \in Ranks /\ i < LocalLen(len, 0)
<1>1. 0 \in Ranks
  BY SizesAssumption DEF Ranks
<1>2. /\ DcpSize \in Nat \ {0} /\ Interleave \in Nat \ {0} /\ r \in Nat
  BY SizesAssumption DEF Ranks
<1> DEFINE first == GlobalPosition(i, 0)
           tok == GlobalPosition(i, r)
<1>3. tok \in Nat /\ tok < len
  BY KeptTokens
<1>4. first \in Nat /\ Owner(first) = 0 /\ LocalIndex(first) = i
  BY <1>1, LocalRoundTrip
<1>5. first <= tok
  <2> DEFINE x == (i \div Interleave) * Stride
             y == i % Interleave
  <2>1. i \div Interleave \in Nat /\ y \in Nat
    <3>1. i \div Interleave \in Nat /\ i % Interleave \in 0 .. Interleave - 1
      BY <1>2, DivMod
    <3> QED BY <1>2, <3>1
  <2>2. x \in Nat
    <3> HIDE DEF y
    <3>1. Stride \in Nat
      BY StrideIsPositive
    <3> QED BY <2>1, <3>1
  <2>3. 0 * Interleave = 0 /\ r * Interleave \in Nat
    BY <1>2
  <2>4. first = x + 0 * Interleave + y /\ tok = x + r * Interleave + y
    BY DEF GlobalPosition
  <2> HIDE DEF x, y, first, tok
  <2> QED BY <2>1, <2>2, <2>3, <2>4
<1>6. first < len
  BY <1>3, <1>4, <1>5
<1> HIDE DEF first
<1>7. LocalIndex(first) < LocalLen(len, Owner(first))
  BY <1>4, <1>6, LengthTestIsExact
<1> QED BY <1>1, <1>4, <1>7

-----------------------------------------------------------------------------
(***************************************************************************)
(* A rank's share of a row, and its best tokens.                           *)
(***************************************************************************)

\* The tokens of a row that rank r keeps.
Share(r, q) == {tok \in Tokens(q) : Owner(tok) = r}

\* A row of lanes names a top-K set of some tokens, each of them once.
Picked(row, tokens, value) ==
  /\ \A j, l \in Lanes : row[j] = row[l] /\ row[j] # NoId => j = l
  /\ IsTopK(Valid(row), tokens, value)

\* Every token a row of lanes names has its own score beside it.
Priced(row, worth, value) ==
  \A j \in Lanes : worth[j] = IF row[j] = NoId THEN NegInf ELSE value[row[j]]

\* A row of rank-local positions, as tokens of the request.
Globally(r, row) == [j \in Lanes |-> ToGlobal(r, row[j])]

\* The first n values of h are the tokens of a set, each of them once.
Numbers(h, n, tokens) ==
  /\ n \in Nat
  /\ tokens = {h[i] : i \in 0 .. n - 1}
  /\ \A i, k \in 0 .. n - 1 : h[i] = h[k] => i = k
  /\ \A i \in 0 .. n - 1 : h[i] \in Nat

\* The tokens a rank keeps of a row are those at its local positions.
LEMMA ShareIsKept ==
  ASSUME NEW r \in Ranks, NEW q \in RowSet, lens[q] \in Nat,
         NEW N, N = LocalLen(lens[q], r),
         NEW h, h = [i \in 0 .. N - 1 |-> GlobalPosition(i, r)]
  PROVE  Numbers(h, N, Share(r, q))
<1>1. N \in Nat
  BY LocalLenBounds
<1>2. ASSUME NEW i \in 0 .. N - 1
      PROVE  /\ h[i] \in Nat /\ h[i] < lens[q]
             /\ Owner(h[i]) = r /\ LocalIndex(h[i]) = i
  <2>1. i \in Nat /\ i < LocalLen(lens[q], r) /\ h[i] = GlobalPosition(i, r)
    BY <1>1
  <2> QED BY <2>1, KeptTokens, LocalRoundTrip
<1>3. ASSUME NEW i \in 0 .. N - 1 PROVE h[i] \in Share(r, q)
  BY <1>2 DEF Share, Tokens
<1>4. ASSUME NEW tok \in Share(r, q)
      PROVE  LocalIndex(tok) \in 0 .. N - 1 /\ h[LocalIndex(tok)] = tok
  <2>1. tok \in Nat /\ tok < lens[q] /\ Owner(tok) = r
    BY <1>4 DEF Share, Tokens
  <2>2. LocalIndex(tok) \in Nat /\ GlobalPosition(LocalIndex(tok), r) = tok
    BY <2>1, TokenRoundTrip
  <2>3. LocalIndex(tok) < N
    BY <2>1, LengthTestIsExact
  <2> QED BY <1>1, <2>2, <2>3
<1>5. Share(r, q) = {h[i] : i \in 0 .. N - 1}
  <2>1. ASSUME NEW tok \in Share(r, q) PROVE tok \in {h[i] : i \in 0 .. N - 1}
    BY <1>4
  <2> QED BY <1>3, <2>1
<1> QED BY <1>1, <1>2, <1>5 DEF Numbers

LEMMA ShareSize ==
  ASSUME NEW r \in Ranks, NEW q \in RowSet, lens[q] \in Nat
  PROVE  IsFiniteSet(Share(r, q)) /\ Cardinality(Share(r, q)) = LocalLen(lens[q], r)
<1> DEFINE N == LocalLen(lens[q], r)
           h == [i \in 0 .. N - 1 |-> GlobalPosition(i, r)]
<1>1. DOMAIN h = 0 .. N - 1
  OBVIOUS
<1>2. /\ N \in Nat /\ Share(r, q) = {h[i] : i \in 0 .. N - 1}
      /\ \A i, k \in 0 .. N - 1 : h[i] = h[k] => i = k
  <2>1. h = [i \in 0 .. N - 1 |-> GlobalPosition(i, r)] /\ N = LocalLen(lens[q], r)
    OBVIOUS
  <2> HIDE DEF h, N
  <2>2. Numbers(h, N, Share(r, q))
    BY <2>1, ShareIsKept
  <2> QED BY <2>2 DEF Numbers
<1> HIDE DEF h, N
<1>3. IsFiniteSet(0 .. N - 1) /\ Cardinality(0 .. N - 1) = N
  <2> DEFINE m == N - 1
  <2>1. m \in Int /\ 0 \in Int /\ (0 > m => N = 0) /\ m - 0 + 1 = N
    BY <1>2
  <2> HIDE DEF m
  <2>2. /\ IsFiniteSet(0 .. m)
        /\ Cardinality(0 .. m) = IF 0 > m THEN 0 ELSE m - 0 + 1
    BY <2>1, FS_Interval
  <2> QED BY <2>1, <2>2 DEF m
<1>4. /\ IsFiniteSet({h[i] : i \in 0 .. N - 1})
      /\ Cardinality({h[i] : i \in 0 .. N - 1}) = Cardinality(0 .. N - 1)
  BY <1>1, <1>2, <1>3, ImageSize
<1> QED BY <1>2, <1>3, <1>4 DEF N

\* The kernels are shown every token the rank keeps of a row.
LEMMA ShownSuffices ==
  ASSUME TypeOK, NEW r \in Ranks, NEW q \in RowSet
  PROVE  /\ LocalLen(lens[q], r) <= TableWidth * BlockSize
         /\ LocalLen(lens[q], r) <= ShownColumns(r) * BlockSize
<1> DEFINE N == LocalLen(lens[q], r)
           all == LocalLen(TotalLen, r)
           needed == Cdiv(all, BlockSize)
           part == ActiveWidth(all)
<1>1. /\ lens \in [RowSet -> 0 .. MaxLen] /\ lens[q] \in Nat /\ lens[q] <= MaxLen
      /\ MaxLen \in Nat /\ BlockSize \in Nat \ {0}
  BY RowsAssumption, SizesAssumption DEF TypeOK
<1>2. TotalLen \in Nat /\ lens[q] <= TotalLen
  BY <1>1, TotalIsLongest
<1>3. N \in Nat /\ N <= all /\ all \in Nat
  BY <1>1, <1>2, ShareGrows, LocalLenBounds
<1>4. N <= LocalLen(MaxLen, r) /\ LocalLen(MaxLen, r) \in Nat
  BY <1>1, ShareGrows, LocalLenBounds
<1>5. TableWidth \in Nat /\ LocalLen(MaxLen, r) <= TableWidth * BlockSize
  BY <1>1, ShareFitsPages DEF TableWidth
<1>6. TableWidth * BlockSize \in Nat
  BY <1>1, <1>5
<1>7. N <= TableWidth * BlockSize
  BY <1>3, <1>4, <1>5, <1>6
<1>8. needed \in Nat /\ all <= BlockSize * needed
  BY <1>1, <1>3, CdivCovers
<1>9. N <= part * BlockSize
  <2>1. part \in Nat /\ (part = TableWidth \/ needed <= part)
    <3>1. part = Smaller(Larger(1, needed), TableWidth)
      BY DEF ActiveWidth
    <3> HIDE DEF part, needed
    <3> QED BY <1>5, <1>8, <3>1 DEF Smaller, Larger
  <2> HIDE DEF part, needed, all, N
  <2>2. CASE part = TableWidth
    BY <1>7, <2>2
  <2>3. CASE needed <= part
    <3>1. BlockSize * needed <= BlockSize * part
      BY <1>1, <1>8, <2>1, <2>3, MulMono
    <3>2. /\ BlockSize * part = part * BlockSize /\ BlockSize * needed \in Nat
          /\ BlockSize * part \in Nat
      BY <1>1, <1>8, <2>1
    <3> QED BY <1>3, <1>8, <3>1, <3>2
  <2> QED BY <2>1, <2>2, <2>3
<1> QED BY <1>7, <1>9 DEF ShownColumns

LEMMA AllVisible ==
  ASSUME TypeOK, NEW r \in Ranks, NEW q \in RowSet,
         NEW columns \in {TableWidth, ShownColumns(r)}
  PROVE  Visible(r, q, columns) = 0 .. LocalLen(lens[q], r) - 1
<1>1. LocalLen(lens[q], r) <= columns * BlockSize
  BY ShownSuffices
<1>2. lens[q] \in Nat
  BY RowsAssumption DEF TypeOK
<1>3. LocalLen(lens[q], r) \in Nat
  BY <1>2, LocalLenBounds
<1>4. columns \in Nat /\ BlockSize \in Nat
  <2>1. lens \in [RowSet -> 0 .. MaxLen]
    BY DEF TypeOK
  <2>2. TableWidth \in Nat
    BY ShareFitsPages, RowsAssumption DEF TableWidth
  <2>3. ShownColumns(r) \in Nat
    BY <2>1, ShownIsBounded
  <2> QED BY <2>2, <2>3, SizesAssumption
<1>5. columns * BlockSize \in Nat
  BY <1>4
<1>6. Smaller(LocalLen(lens[q], r), columns * BlockSize) = LocalLen(lens[q], r)
  BY <1>1, <1>3, <1>5 DEF Smaller
<1> QED BY <1>6 DEF Visible

\* A kernel's lanes name the rank's best tokens of the row.
LEMMA KernelPicks ==
  ASSUME TypeOK, Scored, NEW r \in Ranks, NEW q \in RowSet,
         NEW columns \in {TableWidth, ShownColumns(r)},
         NEW row \in LocalRows(r, q, columns)
  PROVE  /\ row \in [Lanes -> LocalIds(r, q)]
         /\ Picked(Globally(r, row), Share(r, q), score[q])
<1> DEFINE N == LocalLen(lens[q], r)
           C == 0 .. N - 1
           h == [i \in C |-> GlobalPosition(i, r)]
           value == LocalScore(r, q)
<1>1. lens[q] \in Nat /\ Visible(r, q, columns) = C
  BY AllVisible, RowsAssumption DEF TypeOK
<1>2. /\ row \in [Lanes -> C \cup {NoId}]
      /\ \A j \in Lanes : \A l \in 0 .. j - 1 :
           row[j] # NoId => row[l] # NoId /\ row[l] < row[j]
      /\ IsTopK(Valid(row), C, value)
  BY <1>1 DEF LocalRows
<1>3. /\ N \in Nat /\ Share(r, q) = {h[i] : i \in C}
      /\ \A i, k \in C : h[i] = h[k] => i = k
      /\ \A i \in C : h[i] \in Nat
      /\ DOMAIN h = C
  <2>1. h = [i \in 0 .. N - 1 |-> GlobalPosition(i, r)] /\ N = LocalLen(lens[q], r)
    OBVIOUS
  <2>2. DOMAIN h = C
    OBVIOUS
  <2> HIDE DEF h, N
  <2>3. Numbers(h, N, Share(r, q))
    BY <1>1, <2>1, ShareIsKept
  <2> QED BY <2>2, <2>3 DEF Numbers
<1>4. \A i \in C : value[i] = score[q][h[i]] /\ h[i] = GlobalPosition(i, r)
  BY DEF LocalScore
<1> HIDE DEF h, value
<1>5. \A j \in Lanes : Globally(r, row)[j] = IF row[j] = NoId THEN NoId ELSE h[row[j]]
  BY <1>2, <1>4 DEF Globally, ToGlobal
<1>6. C \subseteq Nat /\ NoId \notin C /\ NoId \notin Nat
  BY <1>3 DEF NoId
<1> HIDE DEF C
<1>7. ASSUME NEW j \in Lanes, NEW l \in Lanes, row[j] = row[l], row[j] # NoId
      PROVE  j = l
  <2>1. j \in Nat /\ l \in Nat /\ row[j] \in Nat
    <3>1. row[j] \in C
      BY <1>2, <1>7
    <3>2. row[j] \in Nat
      BY <1>6, <3>1
    <3>3. j \in Nat /\ l \in Nat
      BY TopKAssumption DEF Lanes
    <3> QED BY <3>2, <3>3
  <2>2. CASE l < j
    <3>1. l \in 0 .. j - 1
      BY <2>1, <2>2
    <3>2. row[l] < row[j]
      BY <1>2, <1>7, <3>1
    <3> QED BY <1>7, <2>1, <3>2
  <2>3. CASE j < l
    <3>1. j \in 0 .. l - 1
      BY <2>1, <2>3
    <3>2. row[j] < row[l]
      BY <1>2, <1>7, <3>1
    <3> QED BY <1>7, <2>1, <3>2
  <2> QED BY <2>1, <2>2, <2>3
<1>8. ASSUME NEW j \in Lanes, NEW l \in Lanes,
             Globally(r, row)[j] = Globally(r, row)[l], Globally(r, row)[j] # NoId
      PROVE  j = l
  <2>1. row[j] \in C /\ row[l] \in C
    BY <1>2, <1>3, <1>5, <1>6, <1>8
  <2>2. row[j] = row[l]
    BY <1>3, <1>5, <1>6, <1>8, <2>1
  <2> QED BY <1>6, <1>7, <2>1, <2>2
<1>9. Valid(Globally(r, row)) = {h[i] : i \in Valid(row)}
  <2>1. ASSUME NEW x \in Valid(Globally(r, row)) PROVE x \in {h[i] : i \in Valid(row)}
    BY <1>5, <2>1 DEF Valid
  <2>2. ASSUME NEW i \in Valid(row) PROVE h[i] \in Valid(Globally(r, row))
    <3>1. PICK j \in Lanes : i = row[j] /\ row[j] # NoId
      BY <2>2 DEF Valid
    <3>2. h[i] # NoId
      BY <1>2, <1>3, <1>6, <3>1
    <3> QED BY <1>5, <3>1, <3>2 DEF Valid
  <2> QED BY <2>1, <2>2
<1>10. IsFiniteSet(C)
  BY <1>3, FS_Interval DEF C
<1>11. IsTopK({h[i] : i \in Valid(row)}, {h[i] : i \in C}, score[q])
  BY <1>2, <1>3, <1>4, <1>10, TopKRenamed
<1>12. Picked(Globally(r, row), Share(r, q), score[q])
  BY <1>3, <1>8, <1>9, <1>11 DEF Picked
<1>13. row \in [Lanes -> LocalIds(r, q)]
  BY <1>2 DEF LocalIds, C, N
<1> QED BY <1>12, <1>13

\* The clamp to the logits changes no position that is the row's own.
LEMMA LanePrices ==
  ASSUME TypeOK, NEW r \in Ranks, NEW q \in RowSet, NEW junk,
         NEW row, \A j \in Lanes : row[j] \in LocalIds(r, q)
  PROVE  Priced(Globally(r, row), LaneScores(r, q, row, junk), score[q])
<1> DEFINE value == LocalScore(r, q)
           At(i) == IF i \in DOMAIN value THEN value[i] ELSE junk
<1>1. lens \in [RowSet -> 0 .. MaxLen] /\ lens[q] \in Nat
  BY RowsAssumption DEF TypeOK
<1>2. TotalLen \in Nat /\ lens[q] <= TotalLen
  BY <1>1, TotalIsLongest, RowsAssumption
<1>3. LocalLen(lens[q], r) \in Nat /\ LocalLen(TotalLen, r) \in Nat
      /\ LocalLen(lens[q], r) <= LocalLen(TotalLen, r)
  BY <1>1, <1>2, LocalLenBounds, ShareGrows
<1>4. /\ DOMAIN value = 0 .. LocalLen(lens[q], r) - 1
      /\ \A i \in DOMAIN value : value[i] = score[q][GlobalPosition(i, r)]
  BY DEF LocalScore
<1>5. \A j \in Lanes : LaneScores(r, q, row, junk)[j] =
        IF row[j] = NoId THEN NegInf ELSE At(Smaller(row[j], LogitsWidth(r) - 1))
  BY DEF LaneScores
<1> HIDE DEF value
<1>6. ASSUME NEW j \in Lanes, row[j] # NoId
      PROVE  /\ LaneScores(r, q, row, junk)[j] = score[q][GlobalPosition(row[j], r)]
             /\ GlobalPosition(row[j], r) \in Nat
  <2> DEFINE i == row[j]
  <2>1. i \in Nat /\ i < LocalLen(lens[q], r)
    BY <1>3, <1>6 DEF LocalIds
  <2> HIDE DEF i
  <2>2. i < LocalLen(TotalLen, r)
    BY <1>3, <2>1
  <2>3. 0 \in Ranks /\ i < LocalLen(TotalLen, 0)
    BY <1>2, <2>1, <2>2, FirstHasMost
  <2>4. LocalLen(TotalLen, 0) \in Nat
    BY <1>2, <2>3, LocalLenBounds
  <2>5. LogitsWidth(r) = LocalLen(TotalLen, 0)
    BY <1>3, <2>1, <2>2 DEF LogitsWidth
  <2>6. Smaller(i, LogitsWidth(r) - 1) = i
    BY <2>1, <2>3, <2>4, <2>5 DEF Smaller
  <2>7. i \in DOMAIN value
    BY <1>3, <1>4, <2>1
  <2>8. GlobalPosition(i, r) \in Nat
    BY <2>1, LocalRoundTrip
  <2> QED BY <1>4, <1>5, <1>6, <2>6, <2>7, <2>8 DEF i
<1>7. ASSUME NEW j \in Lanes
      PROVE  LaneScores(r, q, row, junk)[j]
               = IF Globally(r, row)[j] = NoId THEN NegInf
                 ELSE score[q][Globally(r, row)[j]]
  <2>1. CASE row[j] = NoId
    BY <1>5, <2>1 DEF Globally, ToGlobal
  <2>2. CASE row[j] # NoId
    <3>1. Globally(r, row)[j] = GlobalPosition(row[j], r)
      BY <2>2 DEF Globally, ToGlobal
    <3>2. GlobalPosition(row[j], r) # NoId
      BY <1>6, <2>2 DEF NoId
    <3> QED BY <1>6, <2>2, <3>1, <3>2
  <2> QED BY <2>1, <2>2
<1> QED BY <1>7 DEF Priced

-----------------------------------------------------------------------------
(***************************************************************************)
(* The best of the candidates.                                             *)
(***************************************************************************)

\* The rank's part of a row of candidates.
PartOf(row, s) == [j \in Lanes |-> row[s * TopK + j][1]]
WorthOf(row, s) == [j \in Lanes |-> row[s * TopK + j][2]]

\* What every rank picked of its own tokens, side by side.
Offered(q, row) ==
  \A s \in Ranks :
    /\ Picked(PartOf(row, s), Share(s, q), score[q])
    /\ Priced(PartOf(row, s), WorthOf(row, s), score[q])

\* A lane of a rank is a column of the row.
LEMMA ColumnAt ==
  ASSUME NEW s \in Ranks, NEW j \in Lanes
  PROVE  /\ s * TopK + j \in Columns
         /\ (s * TopK + j) \div TopK = s /\ (s * TopK + j) % TopK = j
<1>1. /\ TopK \in Nat \ {0} /\ DcpSize \in Nat \ {0} /\ s \in Nat /\ s < DcpSize
      /\ j \in Nat /\ j < TopK /\ j \in 0 .. TopK - 1
  BY TopKAssumption, SizesAssumption DEF Ranks, Lanes
<1>2. TopK * s + TopK <= TopK * DcpSize
  BY <1>1, MulStep
<1>3. /\ s * TopK = TopK * s /\ TopK * s \in Nat
      /\ TopK * DcpSize = DcpSize * TopK /\ TopK * DcpSize \in Nat
  BY <1>1
<1>4. s * TopK + j \in Nat /\ s * TopK + j < DcpSize * TopK
  BY <1>1, <1>2, <1>3
<1>5. s * TopK + j \in Columns
  BY <1>3, <1>4 DEF Columns
<1>6. (TopK * s + j) \div TopK = s /\ (TopK * s + j) % TopK = j
  BY <1>1, DivUnique
<1> QED BY <1>3, <1>5, <1>6

\* Candidates of different columns are different tokens, at their scores.
Distinct(q, row, V) ==
  /\ \A p \in V : row[p][1] \in Tokens(q) /\ row[p][2] = score[q][row[p][1]]
  /\ \A p \in Columns \ V : row[p][2] = NegInf
  /\ \A p, c \in V : row[p][1] = row[c][1] => p = c
  /\ {row[p][1] : p \in V} = UNION {Valid(PartOf(row, s)) : s \in Ranks}

LEMMA OfferedColumns ==
  ASSUME NEW q \in RowSet, NEW row, Offered(q, row),
         NEW V, V = {p \in Columns : row[p][1] # NoId}
  PROVE  Distinct(q, row, V)
<1>1. ASSUME NEW p \in Columns
      PROVE  \E s \in Ranks, j \in Lanes :
               /\ p = s * TopK + j
               /\ row[p][1] = PartOf(row, s)[j] /\ row[p][2] = WorthOf(row, s)[j]
  <2> DEFINE s == p \div TopK
             j == p % TopK
  <2>1. s \in Ranks /\ j \in Lanes /\ p = TopK * s + j
    BY ColumnPlace
  <2> HIDE DEF s, j
  <2>2. TopK * s = s * TopK
    BY <2>1, TopKAssumption, SizesAssumption DEF Ranks
  <2>3. p = s * TopK + j
    BY <2>1, <2>2
  <2> QED BY <2>1, <2>3 DEF PartOf, WorthOf
<1>2. ASSUME NEW s \in Ranks, NEW j \in Lanes, PartOf(row, s)[j] # NoId
      PROVE  /\ PartOf(row, s)[j] \in Share(s, q)
             /\ WorthOf(row, s)[j] = score[q][PartOf(row, s)[j]]
  <2>1. PartOf(row, s)[j] \in Valid(PartOf(row, s))
    BY <1>2 DEF Valid
  <2> QED BY <1>2, <2>1 DEF Offered, Picked, Priced, IsTopK
<1>3. ASSUME NEW p \in V
      PROVE  row[p][1] \in Tokens(q) /\ row[p][2] = score[q][row[p][1]]
  <2>1. PICK s \in Ranks, j \in Lanes :
          /\ row[p][1] = PartOf(row, s)[j] /\ row[p][2] = WorthOf(row, s)[j]
    BY <1>1
  <2> QED BY <1>2, <2>1 DEF Share
<1>4. ASSUME NEW p \in Columns \ V PROVE row[p][2] = NegInf
  <2>1. PICK s \in Ranks, j \in Lanes :
          /\ row[p][1] = PartOf(row, s)[j] /\ row[p][2] = WorthOf(row, s)[j]
    BY <1>1
  <2>2. Priced(PartOf(row, s), WorthOf(row, s), score[q])
    BY DEF Offered
  <2> QED BY <2>1, <2>2 DEF Priced
<1>5. ASSUME NEW p \in V, NEW c \in V, row[p][1] = row[c][1] PROVE p = c
  <2>1. PICK s \in Ranks, j \in Lanes :
          p = s * TopK + j /\ row[p][1] = PartOf(row, s)[j]
    BY <1>1
  <2>2. PICK t \in Ranks, l \in Lanes :
          c = t * TopK + l /\ row[c][1] = PartOf(row, t)[l]
    BY <1>1
  <2>3. s = t
    BY <1>2, <1>5, <2>1, <2>2 DEF Share
  <2>4. j = l
    BY <1>5, <2>1, <2>2, <2>3 DEF Offered, Picked
  <2> QED BY <2>1, <2>2, <2>3, <2>4
<1>6. ASSUME NEW p \in V PROVE row[p][1] \in UNION {Valid(PartOf(row, s)) : s \in Ranks}
  <2>1. PICK s \in Ranks, j \in Lanes : row[p][1] = PartOf(row, s)[j]
    BY <1>1
  <2> QED BY <2>1 DEF Valid
<1>7. ASSUME NEW s \in Ranks, NEW tok \in Valid(PartOf(row, s))
      PROVE  tok \in {row[p][1] : p \in V}
  <2>1. PICK j \in Lanes : tok = PartOf(row, s)[j] /\ tok # NoId
    BY <1>7 DEF Valid
  <2>2. s * TopK + j \in Columns /\ tok = row[s * TopK + j][1]
    BY <2>1, ColumnAt DEF PartOf
  <2> QED BY <2>1, <2>2
<1>8. {row[p][1] : p \in V} = UNION {Valid(PartOf(row, s)) : s \in Ranks}
  BY <1>6, <1>7
<1> QED BY <1>3, <1>4, <1>5, <1>8 DEF Distinct

LEMMA ColumnsAreFinite == IsFiniteSet(Columns)
<1> DEFINE m == DcpSize * TopK - 1
<1>1. m \in Int /\ 0 \in Int
  BY SizesAssumption, TopKAssumption
<1> HIDE DEF m
<1>2. IsFiniteSet(0 .. m)
  BY <1>1, FS_Interval
<1> QED BY <1>2 DEF m, Columns

\* The best columns that hold a token are the best of those.
LEMMA BestAreTokens ==
  ASSUME NEW q \in RowSet, Scored, NEW row, Offered(q, row),
         NEW V, V = {p \in Columns : row[p][1] # NoId},
         NEW value, value = [p \in Columns |-> row[p][2]],
         NEW F, IsTopK(F, Columns, value)
  PROVE  IsTopK(F \cap V, V, value)
<1>1. IsFiniteSet(F) /\ TopK \in Nat
  BY ColumnsAreFinite, FS_Subset, TopKAssumption DEF IsTopK
<1>2. /\ \A p \in V : value[p] \in Nat
      /\ \A p \in Columns \ V : value[p] = NegInf
  <2>1. Distinct(q, row, V)
    BY OfferedColumns
  <2>2. \A tok \in Tokens(q) : score[q][tok] \in Nat
    BY ScoresAssumption DEF Scored
  <2> QED BY <2>1, <2>2 DEF Distinct
<1>3. Cardinality(F \cap V) <= Cardinality(F) /\ Cardinality(F) \in Nat
      /\ Cardinality(F \cap V) \in Nat
  BY <1>1, FS_Subset, FS_CardinalityType
<1>4. ASSUME F \cap V # V PROVE F \cap V = F /\ Cardinality(F) = TopK
  <2>1. PICK v \in V : v \notin F
    BY <1>4
  <2>2. v \in Columns \ F
    BY <2>1
  <2>3. Cardinality(F) = TopK
    BY <2>2 DEF IsTopK
  <2>4. ASSUME NEW c \in F PROVE c \in V
    <3>1. value[v] <= value[c] /\ c \in Columns
      BY <2>2, <2>4 DEF IsTopK
    <3>2. value[v] \in Nat
      BY <1>2
    <3>3. ASSUME c \notin V PROVE FALSE
      <4>1. value[c] = -1
        BY <1>2, <3>1, <3>3 DEF NegInf
      <4> QED BY <3>1, <3>2, <4>1
    <3> QED BY <3>3
  <2> QED BY <2>3, <2>4
<1>5. Cardinality(F) <= TopK /\ \A c \in F : \A x \in Columns \ F : value[x] <= value[c]
  BY DEF IsTopK
<1>6. Cardinality(F \cap V) <= TopK
  BY <1>1, <1>3, <1>5
<1>7. F \cap V # V => Cardinality(F \cap V) = TopK
  BY <1>4
<1> QED BY <1>5, <1>6, <1>7 DEF IsTopK

\* The selection from all candidates names the row's best tokens.
LEMMA SelectPicks ==
  ASSUME Scored, TypeOK, NEW r, NEW q \in RowSet,
         NEW row \in [Columns -> Int \X Int], Offered(q, row)
  PROVE  Picked([j \in Lanes |-> Best(r, row)[j][1]], Tokens(q), score[q])
<1> DEFINE V == {p \in Columns : row[p][1] # NoId}
           value == [p \in Columns |-> row[p][2]]
           name == [p \in Columns |-> row[p][1]]
           ids0 == [j \in Lanes |-> Best(r, row)[j][1]]
           Local == [s \in Ranks |-> Valid(PartOf(row, s))]
           Shard == [s \in Ranks |-> Share(s, q)]
<1>1. \A p \in Columns : row[p][2] \in Int
  OBVIOUS
<1>2. PICK f : /\ BestPlaces(row, f)
               /\ Best(r, row) = [j \in Lanes |-> row[f[j]]]
  BY <1>1, BestOfRow
<1> DEFINE F == {f[j] : j \in Lanes}
<1>3. /\ f \in [Lanes -> Columns]
      /\ \A j, l \in Lanes : f[j] = f[l] => j = l
      /\ IsTopK(F, Columns, value)
  BY <1>2 DEF BestPlaces
<1>4. \A j \in Lanes : ids0[j] = name[f[j]]
  BY <1>2, <1>3
<1>5. /\ \A p \in V : name[p] \in Tokens(q) /\ value[p] = score[q][name[p]]
      /\ \A p, c \in V : name[p] = name[c] => p = c
      /\ {name[p] : p \in V} = UNION {Local[s] : s \in Ranks}
  <2>1. V = {p \in Columns : row[p][1] # NoId}
    OBVIOUS
  <2>2. \A p \in V : name[p] = row[p][1] /\ value[p] = row[p][2]
    OBVIOUS
  <2> HIDE DEF V, name, value
  <2>3. Distinct(q, row, V)
    BY <2>1, OfferedColumns
  <2>5. {row[p][1] : p \in V} = {name[p] : p \in V}
    BY <2>2
  <2>4. UNION {Valid(PartOf(row, s)) : s \in Ranks} = UNION {Local[s] : s \in Ranks}
    OBVIOUS
  <2> HIDE DEF Local
  <2>6. \A p \in V : name[p] \in Tokens(q) /\ value[p] = score[q][name[p]]
    BY <2>2, <2>3 DEF Distinct
  <2>7. \A p, c \in V : name[p] = name[c] => p = c
    BY <2>2, <2>3 DEF Distinct
  <2>8. {row[p][1] : p \in V} = UNION {Valid(PartOf(row, s)) : s \in Ranks}
    BY <2>3 DEF Distinct
  <2> QED BY <2>4, <2>5, <2>6, <2>7, <2>8
<1>6. IsTopK(F \cap V, V, value)
  <2>1. V = {p \in Columns : row[p][1] # NoId} /\ value = [p \in Columns |-> row[p][2]]
    OBVIOUS
  <2> HIDE DEF V, value, F
  <2> QED BY <1>3, <2>1, BestAreTokens
<1>7. DOMAIN name = Columns /\ V \subseteq Columns
      /\ \A p \in Columns : p \in V <=> name[p] # NoId
  OBVIOUS
<1>8. IsFiniteSet(V)
  BY <1>7, ColumnsAreFinite, FS_Subset
<1> HIDE DEF V, value, name, ids0, F
<1>9. IsTopK({name[p] : p \in F \cap V}, {name[p] : p \in V}, score[q])
  BY <1>5, <1>6, <1>7, <1>8, TopKRenamed
<1>10. Valid(ids0) = {name[p] : p \in F \cap V}
  <2>1. ASSUME NEW x \in Valid(ids0) PROVE x \in {name[p] : p \in F \cap V}
    <3>1. PICK j \in Lanes : x = ids0[j] /\ x # NoId
      BY <2>1 DEF Valid
    <3>2. f[j] \in F /\ f[j] \in Columns /\ x = name[f[j]]
      BY <1>3, <1>4, <3>1 DEF F
    <3> QED BY <1>7, <3>1, <3>2
  <2>2. ASSUME NEW p \in F \cap V PROVE name[p] \in Valid(ids0)
    <3>1. PICK j \in Lanes : p = f[j]
      BY <2>2 DEF F
    <3>2. ids0[j] = name[p] /\ name[p] # NoId
      BY <1>4, <1>7, <2>2, <3>1
    <3> QED BY <3>2 DEF Valid
  <2> QED BY <2>1, <2>2
<1>11. ASSUME NEW j \in Lanes, NEW l \in Lanes, ids0[j] = ids0[l], ids0[j] # NoId
       PROVE  j = l
  <2>1. f[j] \in Columns /\ f[l] \in Columns
    BY <1>3
  <2>2. f[j] \in V /\ f[l] \in V /\ name[f[j]] = name[f[l]]
    BY <1>4, <1>7, <1>11, <2>1
  <2>3. f[j] = f[l]
    BY <1>5, <2>2
  <2> QED BY <1>3, <2>3
<1>12. \A s \in Ranks : IsTopK(Local[s], Shard[s], score[q])
  BY DEF Offered, Picked
<1>13. Shard \in [Ranks -> SUBSET Tokens(q)]
  BY DEF Share
<1>14. UNION {Shard[s] : s \in Ranks} = Tokens(q)
  <2>1. ASSUME NEW tok \in Tokens(q) PROVE Owner(tok) \in Ranks
    <3>1. lens[q] \in Nat
      BY RowsAssumption DEF TypeOK
    <3>2. tok \in Nat
      BY <3>1 DEF Tokens
    <3> QED BY <3>2, TokenRoundTrip
  <2>2. ASSUME NEW tok \in Tokens(q) PROVE tok \in UNION {Shard[s] : s \in Ranks}
    BY <2>1 DEF Share
  <2> QED BY <1>13, <2>2
<1>15. score[q] \in [Tokens(q) -> Int] /\ IsFiniteSet(Tokens(q))
  <2> DEFINE m == lens[q] - 1
  <2>1. m \in Int /\ 0 \in Int
    BY RowsAssumption DEF TypeOK
  <2>2. Tokens(q) = 0 .. m
    BY DEF Tokens
  <2> HIDE DEF m
  <2>3. IsFiniteSet(0 .. m)
    BY <2>1, FS_Interval
  <2>4. score[q] \in [Tokens(q) -> Scores] /\ Scores \subseteq Int
    BY ScoresAssumption DEF Scored
  <2> QED BY <2>2, <2>3, <2>4
<1> HIDE DEF Local, Shard
<1>16. IsTopK(Valid(ids0), UNION {Local[s] : s \in Ranks}, score[q])
  BY <1>5, <1>9, <1>10
<1>17. IsTopK(Valid(ids0), UNION {Shard[s] : s \in Ranks}, score[q])
  <2> DEFINE worth == score[q]
             Tok == Tokens(q)
             chosen == Valid(ids0)
  <2>1. /\ worth \in [Tok -> Int] /\ IsFiniteSet(Tok) /\ Shard \in [Ranks -> SUBSET Tok]
        /\ \A s \in Ranks : IsTopK(Local[s], Shard[s], worth)
        /\ IsTopK(chosen, UNION {Local[s] : s \in Ranks}, worth)
    BY <1>12, <1>13, <1>15, <1>16
  <2> HIDE DEF worth, Tok, chosen
  <2>2. IsTopK(chosen, UNION {Shard[s] : s \in Ranks}, worth)
    BY <2>1, LocalTopKSuffices
  <2> QED BY <2>2 DEF worth, chosen
<1>18. IsTopK(Valid(ids0), Tokens(q), score[q])
  BY <1>14, <1>17
<1>19. Picked(ids0, Tokens(q), score[q])
  BY <1>11, <1>18 DEF Picked
<1> QED BY <1>19 DEF ids0

-----------------------------------------------------------------------------
(***************************************************************************)
(* What a rank holds at each place of its path.                            *)
(***************************************************************************)

\* What rank r has made of row q at each place of its path.
Holds(r, q) ==
  /\ pc[r] = "convert" =>
       /\ Picked(Globally(r, ids[r][q]), Share(r, q), score[q])
       /\ Priced(Globally(r, ids[r][q]), vals[r][q], score[q])
  /\ pc[r] = "pack" /\ mode.path = "b12x" =>
       /\ Picked(ids[r][q], Share(r, q), score[q])
       /\ Priced(ids[r][q], vals[r][q], score[q])
  /\ pc[r] = "pack" /\ mode.path = "deepgemm" =>
       Picked(Globally(r, ids[r][q]), Share(r, q), score[q])
  /\ pc[r] = "gather" =>
       /\ Picked(packed[r][q][0], Share(r, q), score[q])
       /\ Priced(packed[r][q][0], packed[r][q][1], score[q])
  /\ pc[r] = "unpack" => Offered(q, Unpacked(gathered[r])[q])
  /\ pc[r] = "select" => Offered(q, table[r][q])
  /\ pc[r] = "done" /\ ~ Merged => Picked(ids[r][q], Share(r, q), score[q])
  /\ pc[r] = "done" /\ Merged /\ ~ Remapped =>
       Picked(ids[r][q], Tokens(q), score[q])

Exact == \A r \in Ranks, q \in RowSet : Holds(r, q)

\* The chunk stays what it is.
LEMMA ChunkStays ==
  ASSUME UNCHANGED <<mode, lens, score>>
  PROVE  /\ \A r, q : Share(r, q)' = Share(r, q)
         /\ \A q : Tokens(q)' = Tokens(q)
         /\ Merged' = Merged /\ Remapped' = Remapped
  BY DEF Share, Tokens, Merged, Remapped

LEMMA HoldsElsewhere ==
  ASSUME NEW r \in Ranks, Elsewhere(r), NEW s \in Ranks \ {r},
         NEW q \in RowSet, Holds(s, q)
  PROVE  Holds(s, q)'
<1>1. /\ UNCHANGED <<mode, lens, score>>
      /\ pc'[s] = pc[s] /\ ids'[s] = ids[s] /\ vals'[s] = vals[s]
      /\ packed'[s] = packed[s] /\ gathered'[s] = gathered[s] /\ table'[s] = table[s]
  BY DEF Elsewhere
<1>2. /\ Share(s, q)' = Share(s, q) /\ Tokens(q)' = Tokens(q)
      /\ Merged' = Merged /\ Remapped' = Remapped
  BY <1>1, ChunkStays
<1>3. Offered(q, Unpacked(gathered[s])[q]) => Offered(q, Unpacked(gathered[s])[q])'
  BY <1>1, <1>2 DEF Offered, Share, Tokens, Unpacked
<1>4. Offered(q, table[s][q]) => Offered(q, table[s][q])'
  BY <1>1, <1>2 DEF Offered, Share, Tokens
<1> QED BY <1>1, <1>2, <1>3, <1>4 DEF Holds

\* Padding alone is right where the rank keeps nothing.
LEMMA PaddingPicks ==
  ASSUME NEW r, NEW value, NEW row, \A j \in Lanes : row[j] = NoId
  PROVE  /\ Picked(row, {}, value) /\ Picked(Globally(r, row), {}, value)
         /\ \A worth : (\A j \in Lanes : worth[j] = NegInf) =>
              /\ Priced(row, worth, value) /\ Priced(Globally(r, row), worth, value)
<1>1. \A j \in Lanes : Globally(r, row)[j] = NoId
  BY DEF Globally, ToGlobal
<1>2. Valid(row) = {} /\ Valid(Globally(r, row)) = {}
  BY <1>1 DEF Valid
<1>3. IsTopK({}, {}, value)
  BY FS_EmptySet, TopKAssumption DEF IsTopK
<1> QED BY <1>1, <1>2, <1>3 DEF Picked, Priced

LEMMA NothingKept ==
  ASSUME TypeOK, NEW r \in Ranks, NEW q \in RowSet,
         TotalLen = 0 \/ LocalLen(TotalLen, r) = 0
  PROVE  Share(r, q) = {}
<1>1. lens \in [RowSet -> 0 .. MaxLen] /\ lens[q] \in Nat
  BY RowsAssumption DEF TypeOK
<1>2. TotalLen \in Nat /\ lens[q] <= TotalLen
  BY <1>1, TotalIsLongest, RowsAssumption
<1>3. SUFFICES ASSUME NEW tok \in Share(r, q) PROVE FALSE
  OBVIOUS
<1>4. tok \in Nat /\ tok < TotalLen /\ Owner(tok) = r
  BY <1>1, <1>2 DEF Share, Tokens
<1>5. LocalIndex(tok) < LocalLen(TotalLen, r) /\ LocalIndex(tok) \in Nat
  BY <1>2, <1>4, LengthTestIsExact, TokenRoundTrip
<1> QED BY <1>2, <1>4, <1>5

-----------------------------------------------------------------------------
\* The rank-local selections.
LEMMA PagedTopKHolds ==
  ASSUME TypeInv, NEW r \in Ranks, PagedTopK(r), NEW q \in RowSet
  PROVE  Holds(r, q)'
<1>1. TypeOK /\ Scored
  BY DEF TypeInv
<1> DEFINE rows(k) == LocalRows(r, k, ShownColumns(r))
           worth(choice) == [k \in RowSet |-> LaneScores(r, k, choice[k], 0)]
<1>2. PICK choice \in [RowSet -> UNION {rows(k) : k \in RowSet}] :
        /\ \A k \in RowSet : choice[k] \in rows(k)
        /\ ids' = [ids EXCEPT ![r] = choice]
        /\ vals' = [vals EXCEPT ![r] = worth(choice)]
  BY DEF PagedTopK
<1>3. /\ pc'[r] = "convert" /\ UNCHANGED <<mode, lens, score>>
      /\ ids'[r] = choice /\ vals'[r] = worth(choice)
  BY <1>1, <1>2 DEF PagedTopK, Go, TypeOK
<1>4. /\ choice[q] \in [Lanes -> LocalIds(r, q)]
      /\ Picked(Globally(r, choice[q]), Share(r, q), score[q])
  BY <1>1, <1>2, KernelPicks
<1>5. Priced(Globally(r, choice[q]), LaneScores(r, q, choice[q], 0), score[q])
  BY <1>1, <1>4, LanePrices
<1>6. vals'[r][q] = LaneScores(r, q, choice[q], 0)
  BY <1>3
<1> QED BY <1>3, <1>4, <1>5, <1>6, ChunkStays DEF Holds

LEMMA EmptyChunkHolds ==
  ASSUME TypeInv, NEW r \in Ranks, EmptyChunk(r), NEW q \in RowSet
  PROVE  Holds(r, q)'
<1>1. TypeOK
  BY DEF TypeInv
<1>2. /\ UNCHANGED <<mode, lens, score>> /\ mode.path = "b12x" /\ TotalLen = 0
      /\ pc'[r] = IF mode.global THEN "convert" ELSE "done"
      /\ \A j \in Lanes : ids'[r][q][j] = NoId /\ vals'[r][q][j] = NegInf
  BY <1>1 DEF EmptyChunk, Go, TypeOK
<1>3. Share(r, q) = {}
  BY <1>1, <1>2, NothingKept
<1>4. /\ Picked(ids'[r][q], {}, score[q])
      /\ Picked(Globally(r, ids'[r][q]), {}, score[q])
      /\ Priced(Globally(r, ids'[r][q]), vals'[r][q], score[q])
  BY <1>2, PaddingPicks
<1>5. Merged <=> mode.global
  BY <1>2 DEF Merged
<1> QED BY <1>2, <1>3, <1>4, <1>5, ChunkStays DEF Holds

\* A deepgemm kernel's lanes, over a buffer of padding.
LEMMA DeepgemmHolds ==
  ASSUME TypeInv, NEW r \in Ranks, PrefillTopK(r) \/ DecodeTopK(r), NEW q \in RowSet
  PROVE  Holds(r, q)'
<1>1. TypeOK /\ Scored /\ Buffers(r)
  BY DEF TypeInv
<1>2. /\ UNCHANGED <<mode, lens, score>> /\ pc[r] = "indexer"
      /\ mode.path = "deepgemm" /\ pc'[r] = "pack"
  BY <1>1 DEF PrefillTopK, DecodeTopK, Go, TypeOK
<1>3. Picked(Globally(r, ids'[r][q]), Share(r, q), score[q])
  <2>1. CASE LogitsTopK(r)
    <3>1. PICK choice :
            /\ \A k \in RowSet : choice[k] \in LocalRows(r, k, TableWidth)
            /\ ids' = [ids EXCEPT ![r] = Stored(r, choice)]
      BY <2>1 DEF LogitsTopK
    <3>2. /\ choice[q] \in [Lanes -> LocalIds(r, q)]
          /\ Picked(Globally(r, choice[q]), Share(r, q), score[q])
      BY <1>1, <3>1, KernelPicks
    <3>3. \A j \in Lanes : ids[r][q][j] = NoId
      BY <1>1, <1>2 DEF Buffers
    <3>4. \A j \in Lanes : ids'[r][q][j] = choice[q][j]
      <4>1. ids'[r] = Stored(r, choice)
        BY <1>1, <3>1 DEF TypeOK
      <4> QED BY <3>3, <4>1 DEF Stored
    <3>5. Globally(r, ids'[r][q]) = Globally(r, choice[q])
      BY <3>4 DEF Globally
    <3> QED BY <3>2, <3>5
  <2>2. CASE ~ LogitsTopK(r)
    <3>1. /\ LocalLen(TotalLen, r) = 0
          /\ ids' = [ids EXCEPT ![r] = [k \in RowSet |-> [j \in Lanes |-> NoId]]]
      BY <2>2 DEF PrefillTopK, DecodeTopK
    <3>2. \A j \in Lanes : ids'[r][q][j] = NoId
      BY <1>1, <3>1 DEF TypeOK
    <3>3. Share(r, q) = {}
      BY <1>1, <3>1, NothingKept
    <3>4. Picked(Globally(r, ids'[r][q]), {}, score[q])
      BY <3>2, PaddingPicks
    <3> QED BY <3>3, <3>4
  <2> QED BY <2>1, <2>2
<1> QED BY <1>2, <1>3, ChunkStays DEF Holds

\* The exchange.
LEMMA ConvertHolds ==
  ASSUME TypeInv, NEW r \in Ranks, Convert(r), NEW q \in RowSet, Holds(r, q)
  PROVE  Holds(r, q)'
<1>1. TypeOK /\ Buffers(r)
  BY DEF TypeInv
<1>2. /\ UNCHANGED <<mode, lens, score, vals>> /\ pc[r] = "convert"
      /\ mode.path = "b12x"
      /\ pc'[r] = IF mode.global THEN "pack" ELSE "done"
      /\ ids'[r][q] = Globally(r, ids[r][q])
  BY <1>1 DEF Convert, Go, TypeOK, Buffers, Globally
<1>3. Merged <=> mode.global
  BY <1>2 DEF Merged
<1> QED BY <1>2, <1>3, ChunkStays DEF Holds

LEMMA PackBuffersHolds ==
  ASSUME TypeInv, NEW r \in Ranks, PackBuffers(r), NEW q \in RowSet, Holds(r, q)
  PROVE  Holds(r, q)'
<1>1. TypeOK
  BY DEF TypeInv
<1> DEFINE new == [k \in RowSet |-> [f \in Fields |-> IF f = 0 THEN ids[r][k] ELSE vals[r][k]]]
<1>2. /\ UNCHANGED <<mode, lens, score>> /\ pc[r] = "pack" /\ mode.path = "b12x"
      /\ pc'[r] = "gather" /\ packed'[r] = new
  BY <1>1 DEF PackBuffers, Go, TypeOK
<1>3. new[q][0] = ids[r][q] /\ new[q][1] = vals[r][q]
  BY DEF Fields
<1> HIDE DEF new
<1> QED BY <1>2, <1>3, ChunkStays DEF Holds

LEMMA PackCandidatesHolds ==
  ASSUME TypeInv, NEW r \in Ranks, PackCandidates(r), NEW q \in RowSet, Holds(r, q)
  PROVE  Holds(r, q)'
<1>1. TypeOK /\ Buffers(r)
  BY DEF TypeInv
<1>2. /\ UNCHANGED <<mode, lens, score>> /\ pc[r] = "pack" /\ mode.path = "deepgemm"
      /\ pc'[r] = "gather" /\ PackLogits(r)
  BY <1>1 DEF PackCandidates, Go, TypeOK
<1>3. PICK junk \in Scores :
        packed' = [packed EXCEPT ![r] = [k \in RowSet |-> [f \in Fields |->
                    IF f = 0 THEN [j \in Lanes |-> ToGlobal(r, ids[r][k][j])]
                    ELSE LaneScores(r, k, ids[r][k], junk)]]]
  BY <1>2 DEF PackLogits
<1>4. /\ packed'[r][q][0] = Globally(r, ids[r][q])
      /\ packed'[r][q][1] = LaneScores(r, q, ids[r][q], junk)
  BY <1>1, <1>3 DEF TypeOK, Fields, Globally
<1>5. \A j \in Lanes : ids[r][q][j] \in LocalIds(r, q)
  BY <1>1, <1>2 DEF Buffers
<1>6. Priced(Globally(r, ids[r][q]), LaneScores(r, q, ids[r][q], junk), score[q])
  BY <1>1, <1>5, LanePrices
<1> QED BY <1>2, <1>4, <1>6, ChunkStays DEF Holds

\* Rows of candidates put together of what the ranks have packed.
LEMMA PackedAreOffered ==
  ASSUME TypeOK, NEW q \in RowSet, NEW row,
         \A s \in Ranks : pc[s] = "gather" /\ Holds(s, q),
         \A p \in Columns : row[p] = <<packed[p \div TopK][q][0][p % TopK],
                                       packed[p \div TopK][q][1][p % TopK]>>
  PROVE  Offered(q, row)
<1> SUFFICES ASSUME NEW s \in Ranks
             PROVE  /\ Picked(PartOf(row, s), Share(s, q), score[q])
                    /\ Priced(PartOf(row, s), WorthOf(row, s), score[q])
  BY DEF Offered
<1>1. \A j \in Lanes : /\ row[s * TopK + j][1] = packed[s][q][0][j]
                       /\ row[s * TopK + j][2] = packed[s][q][1][j]
  BY ColumnAt
<1>2. /\ packed[s][q][0] \in [Lanes -> Int] /\ packed[s][q][1] \in [Lanes -> Int]
  BY DEF TypeOK, Fields
<1>3. PartOf(row, s) = packed[s][q][0] /\ WorthOf(row, s) = packed[s][q][1]
  BY <1>1, <1>2 DEF PartOf, WorthOf
<1> QED BY <1>3 DEF Holds

LEMMA AllGatherFlatHolds ==
  ASSUME TypeInv, Exact, AllGatherFlat, NEW r \in Ranks, NEW q \in RowSet
  PROVE  Holds(r, q)'
<1>1. TypeOK
  BY DEF TypeInv
<1>2. /\ UNCHANGED <<mode, lens, score>> /\ pc'[r] = "unpack"
      /\ gathered'[r] = Concatenated
      /\ \A s \in Ranks : pc[s] = "gather" /\ Holds(s, q)
  BY DEF AllGatherFlat, Exact
<1> DEFINE row == Unpacked(Concatenated)[q]
<1>3. ASSUME NEW p \in Columns
      PROVE  row[p] = <<packed[p \div TopK][q][0][p % TopK],
                        packed[p \div TopK][q][1][p % TopK]>>
  <2>1. row[p] = <<Concatenated[CandidateBase(q, p)],
                   Concatenated[CandidateBase(q, p) + TopK]>>
    BY DEF Unpacked
  <2> HIDE DEF row
  <2> QED BY <2>1, CandidateAddress
<1> HIDE DEF row
<1>4. Offered(q, row)
  BY <1>1, <1>2, <1>3, PackedAreOffered
<1>5. Offered(q, Unpacked(gathered[r])[q])'
  <2>1. Unpacked(gathered'[r])[q] = row
    BY <1>2 DEF row
  <2>2. Unpacked(gathered[r])' = Unpacked(gathered'[r])
    BY DEF Unpacked, CandidateBase
  <2> QED BY <1>2, <1>4, <2>1, <2>2, ChunkStays DEF Offered
<1> QED BY <1>2, <1>5 DEF Holds

LEMMA AllGatherLanesHolds ==
  ASSUME TypeInv, Exact, AllGatherLanes, NEW r \in Ranks, NEW q \in RowSet
  PROVE  Holds(r, q)'
<1>1. TypeOK
  BY DEF TypeInv
<1>2. PICK here \in {"gather", "regather"} :
        /\ \A s \in Ranks : pc[s] = here
        /\ pc' = [s \in Ranks |-> IF here = "gather" THEN "select" ELSE "reselect"]
  BY DEF AllGatherLanes
<1>3. /\ UNCHANGED <<mode, lens, score>> /\ table'[r][q] = SideBySide[q]
      /\ pc'[r] = IF here = "gather" THEN "select" ELSE "reselect"
  BY <1>2 DEF AllGatherLanes
<1> DEFINE row == SideBySide[q]
<1>4. \A p \in Columns : row[p] = <<packed[p \div TopK][q][0][p % TopK],
                                    packed[p \div TopK][q][1][p % TopK]>>
  BY DEF SideBySide
<1> HIDE DEF row
<1>5. ASSUME here = "gather" PROVE Offered(q, row)
  <2>1. \A s \in Ranks : pc[s] = "gather" /\ Holds(s, q)
    BY <1>2, <1>5 DEF Exact
  <2> QED BY <1>1, <1>4, <2>1, PackedAreOffered
<1>6. here = "gather" => Offered(q, table[r][q])'
  BY <1>3, <1>5, ChunkStays DEF Offered, row
<1> QED BY <1>3, <1>6 DEF Holds

LEMMA UnpackHolds ==
  ASSUME TypeInv, NEW r \in Ranks, Unpack(r), NEW q \in RowSet, Holds(r, q)
  PROVE  Holds(r, q)'
<1>1. TypeOK
  BY DEF TypeInv
<1>2. /\ UNCHANGED <<mode, lens, score>> /\ pc[r] = "unpack" /\ pc'[r] = "select"
      /\ table'[r] = Unpacked(gathered[r])
  BY <1>1 DEF Unpack, Unpacked, Go, TypeOK
<1>3. Offered(q, Unpacked(gathered[r])[q])
  BY <1>2 DEF Holds
<1>4. Offered(q, table[r][q])'
  BY <1>2, <1>3, ChunkStays DEF Offered
<1> QED BY <1>2, <1>4 DEF Holds

\* The selections from all candidates.
LEMMA SelectHolds ==
  ASSUME TypeInv, Path, NEW r \in Ranks, Select(r), NEW q \in RowSet, Holds(r, q)
  PROVE  Holds(r, q)'
<1>1. TypeOK /\ Scored
  BY DEF TypeInv
<1> DEFINE best == [k \in RowSet |-> Best(r, table[r][k])]
           chosen == [k \in RowSet |-> [j \in Lanes |-> best[k][j][1]]]
<1>2. /\ UNCHANGED <<mode, lens, score>> /\ pc[r] = "select"
      /\ pc'[r] = IF Remapped THEN "repack" ELSE "done"
      /\ ids'[r] = chosen
  BY <1>1 DEF Select, Go, TypeOK
<1>3. Merged
  BY <1>2 DEF Path
<1>4. chosen[q] = [j \in Lanes |-> Best(r, table[r][q])[j][1]]
  OBVIOUS
<1> HIDE DEF best, chosen
<1>5. table[r][q] \in [Columns -> Int \X Int] /\ Offered(q, table[r][q])
  BY <1>1, <1>2 DEF TypeOK, Holds
<1>6. Picked(chosen[q], Tokens(q), score[q])
  BY <1>1, <1>4, <1>5, SelectPicks
<1> QED BY <1>2, <1>3, <1>6, ChunkStays DEF Holds

LEMMA RemapHolds ==
  ASSUME TypeInv, Path, NEW r \in Ranks, Clear(r) \/ Repack(r) \/ Reselect(r),
         NEW q \in RowSet
  PROVE  Holds(r, q)'
<1>1. TypeOK
  BY DEF TypeInv
<1>2. CASE Clear(r) \/ Repack(r)
  <2>1. pc'[r] \in {"indexer", "regather"}
    BY <1>1, <1>2 DEF Clear, Repack, Go, TypeOK
  <2> QED BY <2>1 DEF Holds
<1>3. CASE Reselect(r)
  <2>1. pc[r] = "reselect" /\ pc'[r] = "done" /\ UNCHANGED <<mode, lens, score>>
    BY <1>1, <1>3 DEF Reselect, Go, TypeOK
  <2>2. Remapped /\ Merged
    BY <2>1 DEF Path, Remapped, Merged
  <2> QED BY <2>1, <2>2, ChunkStays DEF Holds
<1> QED BY <1>2, <1>3

LEMMA ExactStep == TypeInv /\ Agreement /\ Exact /\ [Next]_vars => Exact'
<1> SUFFICES ASSUME TypeInv, Agreement, Exact, [Next]_vars PROVE Exact'
  OBVIOUS
<1>1. TypeOK /\ Path
  BY DEF TypeInv, Agreement
<1>2. ASSUME NEW r \in Ranks, RankStep(r) PROVE Exact'
  <2>1. Elsewhere(r)
    BY <1>1, <1>2, RankStepIsLocal
  <2>2. ASSUME NEW q \in RowSet PROVE Holds(r, q)'
    <3>1. Holds(r, q)
      BY DEF Exact
    <3> QED BY <1>1, <1>2, <3>1, PagedTopKHolds, EmptyChunkHolds, DeepgemmHolds,
               ConvertHolds, PackBuffersHolds, PackCandidatesHolds, UnpackHolds,
               SelectHolds, RemapHolds DEF RankStep
  <2>3. ASSUME NEW s \in Ranks \ {r}, NEW q \in RowSet PROVE Holds(s, q)'
    <3>1. Holds(s, q)
      BY DEF Exact
    <3> QED BY <2>1, <3>1, HoldsElsewhere
  <2>4. ASSUME NEW s \in Ranks, NEW q \in RowSet PROVE Holds(s, q)'
    BY <2>2, <2>3
  <2> QED BY <2>4 DEF Exact
<1>3. CASE AllGatherFlat \/ AllGatherLanes
  BY <1>3, AllGatherFlatHolds, AllGatherLanesHolds DEF Exact
<1>4. CASE UNCHANGED vars
  <2>1. ASSUME NEW r \in Ranks, NEW q \in RowSet PROVE Holds(r, q)'
    <3>1. Holds(r, q)
      BY DEF Exact
    <3>2. Unpacked(gathered[r])' = Unpacked(gathered[r])
      BY <1>4 DEF Unpacked, vars
    <3> QED BY <1>4, <3>1, <3>2, ChunkStays DEF Holds, Offered, vars
  <2> QED BY <2>1 DEF Exact
<1> QED BY <1>2, <1>3, <1>4 DEF Next

LEMMA ExactInit == Init => Exact
<1> SUFFICES ASSUME Init PROVE Exact
  OBVIOUS
<1>1. \A r \in Ranks : pc[r] \in {"indexer", "clear"}
  BY DEF Init
<1> QED BY <1>1 DEF Exact, Holds

-----------------------------------------------------------------------------
(***************************************************************************)
(* From the selected positions to the attention.                           *)
(***************************************************************************)

\* The slot of a token a rank keeps holds that token.
LEMMA SlotRoundTrip ==
  ASSUME TypeOK, NEW r \in Ranks, NEW q \in RowSet, NEW tok \in Share(r, q)
  PROVE  TokenAt(r, SlotOf(tok)) = tok
<1> DEFINE i == LocalIndex(tok)
           c == i \div BlockSize
           m == i % BlockSize
           at == BlockTable(c)
<1>1. lens \in [RowSet -> 0 .. MaxLen] /\ lens[q] \in Nat /\ MaxLen \in Nat
  BY RowsAssumption DEF TypeOK
<1>2. tok \in Nat /\ tok < lens[q] /\ Owner(tok) = r
  BY <1>1 DEF Share, Tokens
<1>3. i \in Nat /\ GlobalPosition(i, r) = tok
  BY <1>2, TokenRoundTrip
<1>4. i < LocalLen(lens[q], r) /\ LocalLen(lens[q], r) \in Nat
  BY <1>1, <1>2, LengthTestIsExact, LocalLenBounds
<1>5. TableWidth \in Nat /\ BlockSize \in Nat \ {0}
  BY <1>1, ShareFitsPages, SizesAssumption DEF TableWidth
<1>6. i < TableWidth * BlockSize /\ TableWidth * BlockSize = BlockSize * TableWidth
      /\ BlockSize * TableWidth \in Nat
  <2>1. TableWidth * BlockSize \in Nat /\ TableWidth * BlockSize = BlockSize * TableWidth
    BY <1>5
  <2>2. LocalLen(lens[q], r) <= TableWidth * BlockSize
    BY ShownSuffices
  <2> QED BY <1>3, <1>4, <2>1, <2>2
<1> HIDE DEF i
<1>7. c \in Nat /\ m \in 0 .. BlockSize - 1 /\ i = BlockSize * c + m
  BY <1>3, <1>5, DivMod
<1> HIDE DEF c, m
<1>8. c < TableWidth
  <2>1. SUFFICES ASSUME TableWidth <= c PROVE FALSE
    BY <1>5, <1>7
  <2>2. BlockSize * TableWidth <= BlockSize * c
    BY <1>5, <1>7, <2>1, MulMono
  <2>3. BlockSize * c \in Nat /\ m \in Nat
    BY <1>5, <1>7
  <2> QED BY <1>3, <1>6, <1>7, <2>2, <2>3
<1>9. at \in Nat /\ BlockTable(at) = c
  BY <1>5, <1>7, <1>8 DEF BlockTable
<1>10. SlotOf(tok) = at * BlockSize + m
  BY DEF SlotOf, i, c, m
<1> HIDE DEF at
<1>11. at * BlockSize + m = BlockSize * at + m /\ c * BlockSize + m = BlockSize * c + m
  BY <1>5, <1>7, <1>9
<1>12. (BlockSize * at + m) \div BlockSize = at /\ (BlockSize * at + m) % BlockSize = m
  BY <1>5, <1>7, <1>9, DivUnique
<1>13. SlotOf(tok) \div BlockSize = at /\ SlotOf(tok) % BlockSize = m
  BY <1>10, <1>11, <1>12
<1>14. TokenAt(r, SlotOf(tok)) = GlobalPosition(c * BlockSize + m, r)
  BY <1>9, <1>13 DEF TokenAt
<1> QED BY <1>3, <1>7, <1>11, <1>14

\* The tokens of a row's lanes that its rank keeps.
OwnTokens(r, q) == {ids[r][q][j] : j \in OwnLanes(r, q)}

\* They are as many as their lanes, and within the rank's length of the row.
LEMMA OwnFits ==
  ASSUME TypeOK, NEW r \in Ranks, NEW q \in RowSet,
         NEW X \in SUBSET Tokens(q), Picked(ids[r][q], X, score[q])
  PROVE  /\ OwnTokens(r, q) = Valid(ids[r][q]) \cap Share(r, q)
         /\ OwnCount(r, q) \in Nat
         /\ Cardinality(OwnTokens(r, q)) = OwnCount(r, q)
         /\ OwnCount(r, q) <= TopK
         /\ OwnCount(r, q) <= LocalLen(lens[q], r)
<1> DEFINE row == ids[r][q]
           own == OwnLanes(r, q)
<1>1. lens[q] \in Nat /\ TopK \in Nat \ {0}
  BY RowsAssumption, TopKAssumption DEF TypeOK
<1>2. row \in [Lanes -> NoId .. MaxLen - 1]
  BY DEF TypeOK
<1>3. IsFiniteSet(Lanes) /\ Cardinality(Lanes) = TopK
  <2> HIDE DEF row, own
  <2>1. TopK \in Nat \ {0}
    BY <1>1
  <2> QED BY <2>1, FS_Interval DEF Lanes
<1>4. own \subseteq Lanes /\ IsFiniteSet(own) /\ Cardinality(own) <= TopK
      /\ Cardinality(own) \in Nat
  <2>1. own \subseteq Lanes
    BY DEF OwnLanes
  <2> HIDE DEF own
  <2> QED BY <1>3, <2>1, FS_Subset, FS_CardinalityType
<1>5. OwnTokens(r, q) = Valid(row) \cap Share(r, q)
  <2>1. Valid(row) \subseteq Tokens(q)
    BY DEF Picked, IsTopK
  <2>2. ASSUME NEW tok \in OwnTokens(r, q) PROVE tok \in Valid(row) \cap Share(r, q)
    <3>1. PICK j \in Lanes : tok = row[j] /\ row[j] # NoId /\ Owner(row[j]) = r
      BY DEF OwnTokens, OwnLanes
    <3>2. tok \in Valid(row)
      BY <3>1 DEF Valid
    <3> QED BY <2>1, <3>1, <3>2 DEF Share
  <2>3. ASSUME NEW tok \in Valid(row) \cap Share(r, q) PROVE tok \in OwnTokens(r, q)
    BY DEF OwnTokens, OwnLanes, Valid, Share
  <2> QED BY <2>2, <2>3
<1>6. \A j, l \in own : row[j] = row[l] => j = l
  BY DEF OwnLanes, Picked
<1> HIDE DEF row, own
<1>7. Cardinality({row[j] : j \in own}) = Cardinality(own)
  <2>1. own \subseteq DOMAIN row
    BY <1>2, <1>4
  <2> QED BY <1>4, <1>6, <2>1, ImageSize
<1>8. Cardinality(OwnTokens(r, q)) = OwnCount(r, q) /\ OwnCount(r, q) = Cardinality(own)
  BY <1>7 DEF OwnTokens, OwnCount, row, own
<1>9. Cardinality(OwnTokens(r, q)) <= LocalLen(lens[q], r)
  <2>1. IsFiniteSet(Share(r, q)) /\ Cardinality(Share(r, q)) = LocalLen(lens[q], r)
    BY <1>1, ShareSize
  <2>2. OwnTokens(r, q) \subseteq Share(r, q)
    BY <1>5
  <2>3. Cardinality(OwnTokens(r, q)) <= Cardinality(Share(r, q))
    BY <2>1, <2>2, FS_Subset
  <2> QED BY <2>1, <2>3
<1> QED BY <1>4, <1>5, <1>8, <1>9 DEF row

\* A length that may be an upper bound cuts none of them off.
LEMMA NothingCutOff ==
  ASSUME TypeOK, NEW r \in Ranks, NEW q \in RowSet, NEW lag \in Nat,
         NEW n \in Nat, n <= LocalLen(lens[q], r)
  PROVE  Smaller(n, PerTokenLen(r, q, lag)) = n
<1>1. lens[q] \in Nat
  BY RowsAssumption DEF TypeOK
<1>2. lens[q] + lag \in Nat /\ lens[q] <= lens[q] + lag
  BY <1>1
<1>3. /\ LocalLen(lens[q], r) \in Nat /\ LocalLen(lens[q] + lag, r) \in Nat
      /\ LocalLen(lens[q], r) <= LocalLen(lens[q] + lag, r)
  BY <1>1, <1>2, LocalLenBounds, ShareGrows
<1>4. PerTokenLen(r, q, lag) \in Nat /\ n <= PerTokenLen(r, q, lag)
  BY <1>3 DEF PerTokenLen
<1> QED BY <1>4 DEF Smaller

\* The tokens that so many slots of a row hold.
Taken(r, row, n) == {TokenAt(r, row[j]) : j \in 0 .. n - 1}

\* What the masked slots hold are those tokens, in whatever order.
LEMMA SlotsHoldOwn ==
  ASSUME TypeOK, NEW r \in Ranks, NEW q \in RowSet,
         NEW X \in SUBSET Tokens(q), Picked(ids[r][q], X, score[q]),
         NEW order \in Orders(r, q),
         NEW lag \in Nat, NEW n, n = Kept(r, q, lag),
         NEW row, row = Masked(r, q, order, n)
  PROVE  /\ n \in Nat /\ Cardinality(Taken(r, row, n)) = n
         /\ Taken(r, row, n) = Valid(ids[r][q]) \cap Share(r, q)
<1>0. /\ OwnCount(r, q) \in Nat /\ OwnCount(r, q) <= LocalLen(lens[q], r)
      /\ OwnCount(r, q) <= TopK /\ TopK \in Nat
      /\ Cardinality(OwnTokens(r, q)) = OwnCount(r, q)
      /\ OwnTokens(r, q) = Valid(ids[r][q]) \cap Share(r, q)
  BY OwnFits, TopKAssumption
<1>1. n = OwnCount(r, q) /\ n \in Nat /\ n <= TopK
  BY <1>0, NothingCutOff DEF Kept
<1>2. /\ order \in [1 .. n -> OwnLanes(r, q)]
      /\ \A l \in OwnLanes(r, q) : \E j \in 1 .. n : order[j] = l
  BY <1>1 DEF Orders, Bijection, Injection, Surjection
<1>3. ASSUME NEW j \in 0 .. n - 1
      PROVE  /\ j + 1 \in 1 .. n /\ order[j + 1] \in OwnLanes(r, q)
             /\ TokenAt(r, row[j]) = ids[r][q][order[j + 1]]
  <2>1. j \in Lanes /\ j < n /\ j + 1 \in 1 .. n
    BY <1>0, <1>1 DEF Lanes
  <2>2. order[j + 1] \in OwnLanes(r, q)
    BY <1>2, <2>1
  <2>3. row[j] = SlotOf(ids[r][q][order[j + 1]])
    BY <2>1 DEF Masked
  <2>4. ids[r][q][order[j + 1]] \in Share(r, q)
    BY <1>0, <2>2 DEF OwnTokens
  <2> QED BY <2>1, <2>2, <2>3, <2>4, SlotRoundTrip
<1>4. ASSUME NEW tok \in OwnTokens(r, q)
      PROVE  tok \in {TokenAt(r, row[j]) : j \in 0 .. n - 1}
  <2>1. PICK l \in OwnLanes(r, q) : tok = ids[r][q][l]
    BY DEF OwnTokens
  <2>2. PICK k \in 1 .. n : order[k] = l
    BY <1>2
  <2>3. k - 1 \in 0 .. n - 1 /\ (k - 1) + 1 = k
    BY <1>1
  <2>4. TokenAt(r, row[k - 1]) = ids[r][q][order[(k - 1) + 1]]
    BY <1>3, <2>3
  <2> QED BY <2>1, <2>2, <2>3, <2>4
<1>5. ASSUME NEW j \in 0 .. n - 1 PROVE TokenAt(r, row[j]) \in OwnTokens(r, q)
  BY <1>3 DEF OwnTokens
<1>6. Taken(r, row, n) = OwnTokens(r, q)
  BY <1>4, <1>5 DEF Taken
<1> QED BY <1>0, <1>1, <1>6

\* Nothing was handed to the attention, or all of it, and rightly.
Served ==
  \/ counts = [r \in Ranks |-> [q \in RowSet |-> Unset]]
  \/ /\ \A r \in Ranks : pc[r] = "done"
     /\ \A r \in Ranks, q \in RowSet : counts[r][q] # Unset
     /\ SelectedOnce

\* One step hands over what every rank selected.
LEMMA FilterServes ==
  ASSUME TypeInv, Agreement, Exact, FilterRows PROVE Served'
<1>1. TypeOK /\ UNCHANGED vars /\ ~ Remapped /\ \A r \in Ranks : pc[r] = "done"
  BY DEF TypeInv, FilterRows
<1>2. PICK lag \in Lags, order \in [Ranks -> [RowSet -> AnyOrder]] :
        /\ \A r \in Ranks, q \in RowSet : order[r][q] \in Orders(r, q)
        /\ counts' = [r \in Ranks |-> [q \in RowSet |-> Kept(r, q, lag)]]
        /\ slots' = [r \in Ranks |-> [q \in RowSet |->
                       Masked(r, q, order[r][q], Kept(r, q, lag))]]
  BY DEF FilterRows
<1>3. ASSUME NEW r \in Ranks, NEW q \in RowSet
      PROVE  \E X \in SUBSET Tokens(q) :
               /\ Picked(ids[r][q], X, score[q])
               /\ X = IF Merged THEN Tokens(q) ELSE Share(r, q)
  <2>1. Holds(r, q)
    BY DEF Exact
  <2>2. CASE Merged
    BY <1>1, <2>1, <2>2 DEF Holds
  <2>3. CASE ~ Merged
    <3>1. Share(r, q) \in SUBSET Tokens(q)
      BY DEF Share
    <3> QED BY <1>1, <2>1, <2>3, <3>1 DEF Holds
  <2> QED BY <2>2, <2>3
<1> DEFINE seen(r, q) == Taken(r, slots'[r][q], counts'[r][q])
<1>4. ASSUME NEW r \in Ranks, NEW q \in RowSet
      PROVE  /\ counts'[r][q] \in Nat
             /\ Cardinality(seen(r, q)) = counts'[r][q]
             /\ seen(r, q) = Valid(ids[r][q]) \cap Share(r, q)
  <2> DEFINE n == counts'[r][q]
             f == order[r][q]
             row == slots'[r][q]
  <2>1. lag \in Nat /\ f \in Orders(r, q)
        /\ n = Kept(r, q, lag) /\ row = Masked(r, q, f, n)
    BY <1>2, LagsAssumption
  <2> HIDE DEF n, f, row
  <2>2. PICK X \in SUBSET Tokens(q) : Picked(ids[r][q], X, score[q])
    BY <1>3
  <2>3. /\ n \in Nat /\ Cardinality(Taken(r, row, n)) = n
        /\ Taken(r, row, n) = Valid(ids[r][q]) \cap Share(r, q)
    BY <1>1, <2>1, <2>2, SlotsHoldOwn
  <2> QED BY <2>3 DEF n, row
<1> HIDE DEF seen
<1>5. ASSUME NEW q \in RowSet, Merged
      PROVE  IsTopK(UNION {seen(r, q) : r \in Ranks}, Tokens(q), score[q])
  <2>1. 0 \in Ranks
    BY SizesAssumption DEF Ranks
  <2>2. \A r \in Ranks : Valid(ids[r][q]) = Valid(ids[0][q])
    BY <1>1, <1>5, <2>1, AgreementSuffices DEF RanksAgree
  <2>3. IsTopK(Valid(ids[0][q]), Tokens(q), score[q])
    BY <1>3, <1>5, <2>1 DEF Picked
  <2>4. ASSUME NEW tok \in Valid(ids[0][q])
        PROVE  tok \in UNION {seen(r, q) : r \in Ranks}
    <3>1. tok \in Tokens(q)
      BY <2>3 DEF IsTopK
    <3>2. tok \in Nat
      BY <1>1, <3>1, RowsAssumption DEF TypeOK, Tokens
    <3>3. Owner(tok) \in Ranks
      BY <3>2, TokenRoundTrip
    <3>4. tok \in Valid(ids[Owner(tok)][q]) \cap Share(Owner(tok), q)
      BY <2>2, <3>1, <3>3 DEF Share
    <3> QED BY <1>4, <3>3, <3>4
  <2>5. ASSUME NEW r \in Ranks PROVE seen(r, q) \subseteq Valid(ids[0][q])
    BY <1>4, <2>2
  <2>6. UNION {seen(r, q) : r \in Ranks} = Valid(ids[0][q])
    BY <2>4, <2>5
  <2> QED BY <2>3, <2>6
<1>6. ASSUME NEW r \in Ranks, NEW q \in RowSet, ~ Merged
      PROVE  IsTopK(seen(r, q), Share(r, q), score[q])
  <2>1. IsTopK(Valid(ids[r][q]), Share(r, q), score[q])
    BY <1>3, <1>6 DEF Picked
  <2>2. seen(r, q) = Valid(ids[r][q])
    BY <1>4, <2>1 DEF IsTopK
  <2> QED BY <2>1, <2>2
<1>7. /\ \A r, q : Seen(r, q)' = seen(r, q)
      /\ Merged' = Merged /\ score' = score
      /\ \A q : Tokens(q)' = Tokens(q)
  BY <1>1 DEF Merged, Tokens, vars, Seen, seen, Taken, TokenAt, BlockTable, TableWidth,
              GlobalPosition, Stride, Cdiv
<1>8. SelectedOnce'
  <2>1. ASSUME NEW q \in RowSet, NEW r \in Ranks
        PROVE  /\ Cardinality(seen(r, q)) = counts'[r][q]
               /\ \A tok \in seen(r, q) : Owner(tok) = r
    BY <1>4 DEF Share
  <2>2. \A r \in Ranks, q \in RowSet : {tok \in Tokens(q)' : Owner(tok) = r} = Share(r, q)
    BY <1>7 DEF Share
  <2>3. \A q \in RowSet :
          IF Merged' THEN IsTopK(UNION {Seen(r, q)' : r \in Ranks}, Tokens(q)', score'[q])
          ELSE \A r \in Ranks :
                 IsTopK(Seen(r, q)', {tok \in Tokens(q)' : Owner(tok) = r}, score'[q])
    BY <1>5, <1>6, <1>7, <2>2
  <2> QED BY <1>7, <2>1, <2>3 DEF SelectedOnce
<1>9. \A r \in Ranks, q \in RowSet : counts'[r][q] # Unset
  BY <1>4 DEF Unset
<1> QED BY <1>1, <1>8, <1>9 DEF Served, vars

\* Once it is handed over no kernel of the chunk is left to run.
LEMMA DoneIsLast ==
  ASSUME TypeInv, \A r \in Ranks : pc[r] = "done" PROVE ~ Next
<1>1. 0 \in Ranks
  BY SizesAssumption DEF Ranks
<1> QED BY <1>1 DEF Next, RankStep, PagedTopK, EmptyChunk, Clear, PrefillTopK, DecodeTopK,
           Convert, PackBuffers, PackCandidates, Unpack, Select, Repack, Reselect,
           AllGatherFlat, AllGatherLanes

LEMMA ServedStep ==
  TypeInv /\ Agreement /\ Exact /\ Served /\ [SelectNext]_selectVars => Served'
<1> SUFFICES ASSUME TypeInv, Agreement, Exact, Served, [SelectNext]_selectVars
             PROVE  Served'
  OBVIOUS
<1>1. CASE FilterRows
  BY <1>1, FilterServes
<1>2. CASE Next /\ UNCHANGED <<slots, counts>>
  <2>1. counts = [r \in Ranks |-> [q \in RowSet |-> Unset]]
    BY <1>2, DoneIsLast DEF Served
  <2> QED BY <1>2, <2>1 DEF Served, Unset
<1>3. CASE UNCHANGED selectVars
  <2>1. \A r, q : Seen(r, q)' = Seen(r, q)
    BY <1>3 DEF selectVars, Seen, TokenAt, BlockTable, TableWidth, GlobalPosition, Stride,
                Cdiv
  <2>2. Merged' = Merged /\ \A q : Tokens(q)' = Tokens(q)
    BY <1>3 DEF selectVars, vars, Merged, Tokens
  <2>3. UNCHANGED <<counts, pc, score>>
    BY <1>3 DEF selectVars, vars
  <2>4. SelectedOnce => SelectedOnce'
    BY <2>1, <2>2, <2>3 DEF SelectedOnce, Owner
  <2> QED BY <2>3, <2>4 DEF Served, Unset
<1> QED BY <1>1, <1>2, <1>3 DEF SelectNext

\* Every best token of a row is attended to once, on the rank that keeps it,
\* and nothing else is: for any group, pages, scores, ties, order of a
\* kernel's output and bound on the lengths.
THEOREM EachAttendedOnce == SelectSpec => []SelectedOnce
<1>1. SelectInit => Init /\ Served
  BY DEF SelectInit, Served
<1>2. [SelectNext]_selectVars => [Next]_vars
  <2>1. FilterRows => UNCHANGED vars
    BY DEF FilterRows
  <2>2. UNCHANGED selectVars => UNCHANGED vars
    BY DEF selectVars
  <2> QED BY <2>1, <2>2 DEF SelectNext
<1>3. Served => SelectedOnce
  <2>1. ASSUME counts = [r \in Ranks |-> [q \in RowSet |-> Unset]] PROVE SelectedOnce
    <3>1. 0 \in Ranks /\ 0 \in RowSet
      BY SizesAssumption, RowsAssumption DEF Ranks, RowSet
    <3>2. counts[0][0] = Unset
      BY <2>1, <3>1
    <3> QED BY <3>1, <3>2 DEF SelectedOnce
  <2> QED BY <2>1 DEF Served
<1>4. TypeInv /\ Agreement /\ Exact /\ Served /\ [SelectNext]_selectVars
        => (TypeInv /\ Agreement /\ Exact /\ Served)'
  BY <1>2, TypeStep, AgreementStep, ExactStep, ServedStep
<1>5. SelectInit => TypeInv /\ Agreement /\ Exact /\ Served
  BY <1>1, InitTypes, AgreementInit, ExactInit
<1> QED BY <1>3, <1>4, <1>5, PTL DEF SelectSpec

-----------------------------------------------------------------------------
(***************************************************************************)
(* The remap kernel: offsets within a tile.                                *)
(***************************************************************************)

\* A tile has at most Width valid lanes.
LEMMA ValidIsFinite ==
  ASSUME NEW row
  PROVE  /\ IsFiniteSet(ValidLanes(row))
         /\ Cardinality(ValidLanes(row)) \in Nat
         /\ Cardinality(ValidLanes(row)) <= Width
<1>1. IsFiniteSet(TileLanes) /\ Cardinality(TileLanes) = Width
  BY WidthAssumption, FS_Interval DEF TileLanes
<1>2. ValidLanes(row) \in SUBSET TileLanes
  BY DEF ValidLanes
<1> QED BY <1>1, <1>2, FS_Subset, FS_CardinalityType

\* Strictly smaller sets of lanes have strictly fewer elements.
LEMMA ProperSubset ==
  ASSUME NEW S, IsFiniteSet(S), NEW T \in SUBSET S, T # S
  PROVE  /\ Cardinality(T) \in Nat /\ Cardinality(S) \in Nat
         /\ Cardinality(T) < Cardinality(S)
<1>1. IsFiniteSet(T) /\ Cardinality(T) <= Cardinality(S)
      /\ Cardinality(S) # Cardinality(T)
  BY FS_Subset
<1>2. Cardinality(T) \in Nat /\ Cardinality(S) \in Nat
  BY <1>1, FS_CardinalityType
<1> QED BY <1>1, <1>2

\* An offset is less than the number of columns the tile reserves.
LEMMA OffsetBound ==
  ASSUME NEW row, NEW l \in ValidLanes(row)
  PROVE  Offset(row, l) \in Nat /\ Offset(row, l) < Cardinality(ValidLanes(row))
<1> DEFINE T == {m \in ValidLanes(row) : m < l}
<1>1. T \in SUBSET ValidLanes(row) /\ l \notin T
  BY DEF ValidLanes, TileLanes
<1> QED BY <1>1, ValidIsFinite, ProperSubset DEF Offset

\* Two valid lanes of a tile have different offsets.
LEMMA OffsetInjective ==
  ASSUME NEW row, NEW l \in ValidLanes(row), NEW m \in ValidLanes(row),
         Offset(row, l) = Offset(row, m)
  PROVE  l = m
<1>1. ASSUME NEW a \in ValidLanes(row), NEW b \in ValidLanes(row), a < b
      PROVE  Offset(row, a) < Offset(row, b)
  <2> DEFINE A == {k \in ValidLanes(row) : k < a}
             B == {k \in ValidLanes(row) : k < b}
  <2>1. a \in Nat /\ b \in Nat /\ \A k \in ValidLanes(row) : k \in Nat
    BY WidthAssumption DEF ValidLanes, TileLanes
  <2>2. A \in SUBSET B /\ a \in B /\ a \notin A
    <3>1. \A k \in ValidLanes(row) : k < a => k < b
      BY <1>1, <2>1
    <3>2. ~ (a < a)
      BY <2>1
    <3> QED BY <1>1, <3>1, <3>2
  <2>3. IsFiniteSet(B)
    BY ValidIsFinite, FS_Subset, B \in SUBSET ValidLanes(row)
  <2> HIDE DEF A, B
  <2>4. Cardinality(A) < Cardinality(B)
    BY <2>2, <2>3, ProperSubset
  <2> QED BY <2>4 DEF A, B, Offset
<1>2. l \in Nat /\ m \in Nat
  BY WidthAssumption DEF ValidLanes, TileLanes
<1>3. ~ (l < m) /\ ~ (m < l)
  BY <1>1, OffsetBound
<1> QED BY <1>2, <1>3

\* Every column the tile reserves is the place of one of its valid lanes.
LEMMA OffsetOnto ==
  ASSUME NEW row, NEW i \in 0 .. Cardinality(ValidLanes(row)) - 1
  PROVE  \E l \in ValidLanes(row) : Offset(row, l) = i
<1> DEFINE V == ValidLanes(row)
           n == Cardinality(V)
           f == [l \in V |-> Offset(row, l)]
<1>1. IsFiniteSet(V) /\ n \in Nat
  BY ValidIsFinite
<1>2. f \in [V -> 0 .. n - 1]
  BY <1>1, OffsetBound
<1>3. f \in Injection(V, 0 .. n - 1)
  BY <1>2, OffsetInjective DEF Injection, IsInjective
<1>4. IsFiniteSet(0 .. n - 1) /\ Cardinality(0 .. n - 1) = n
  BY <1>1, FS_Interval
<1> HIDE DEF n, f
<1>5. f \in Surjection(V, 0 .. n - 1)
  BY <1>3, <1>4, FS_Injection DEF n
<1> QED BY <1>5 DEF Surjection, f, n

-----------------------------------------------------------------------------
(***************************************************************************)
(* The inductive invariant.  While a launch runs, the tiles that have      *)
(* reserved own disjoint ranges of columns that together make up the       *)
(* prefix below the count, and a column holds a slot just when the lane it *)
(* belongs to has stored.                                                  *)
(***************************************************************************)
Reserved == {t \in Tiles : tile[t] = "store"}
Size(t) == Cardinality(ValidLanes(pick[t]))
Place(t, l) == base[t] + Offset(pick[t], l)

Launched == \A t \in Tiles : tile[t] # "idle"

Uniform == Launched \/ \A t \in Tiles : tile[t] = "idle"
Bounded == count <= Width * Cardinality(Reserved)
Below == \A t \in Reserved : base[t] + Size(t) <= count
Apart == \A t, u \in Reserved :
           t # u => base[t] + Size(t) <= base[u] \/ base[u] + Size(u) <= base[t]
Covered == \A i \in 0 .. count - 1 : \E t \in Reserved : base[t] <= i /\ i < base[t] + Size(t)
Unstored == \A t \in Tiles : tile[t] # "store" => stored[t] = {}
Written == \A t \in Reserved : \A l \in stored[t] : out[Place(t, l)] = pick[t][l]
Clean == \A c \in RowColumns : out[c] # None => \E t \in Reserved : \E l \in stored[t] : c = Place(t, l)

RemapInv ==
  /\ RemapTypeOK
  /\ Uniform
  /\ Unstored
  /\ Launched => Bounded /\ Below /\ Apart /\ Covered /\ Written /\ Clean

\* A lane of a tile that has reserved has its place within the row.
LEMMA PlaceInRow ==
  ASSUME RemapTypeOK, Below, NEW t \in Reserved, NEW l \in ValidLanes(pick[t])
  PROVE  /\ t \in Tiles /\ base[t] \in Nat /\ Size(t) \in Nat
         /\ Offset(pick[t], l) \in Nat
         /\ base[t] <= Place(t, l) /\ Place(t, l) < base[t] + Size(t)
         /\ Place(t, l) \in Nat /\ Place(t, l) < count
         /\ Place(t, l) \in RowColumns
<1>1. t \in Tiles /\ base[t] \in Nat /\ base[t] + Size(t) <= count
      /\ count \in 0 .. Cardinality(Tiles) * Width
  BY DEF RemapTypeOK, Below, Reserved
<1>2. Offset(pick[t], l) \in Nat /\ Offset(pick[t], l) < Size(t) /\ Size(t) \in Nat
  BY OffsetBound, ValidIsFinite DEF Size
<1>3. Cardinality(Tiles) * Width \in Nat
  BY FS_CardinalityType, TilesAssumption, WidthAssumption
<1>4. Place(t, l) = base[t] + Offset(pick[t], l)
  BY DEF Place
<1> QED BY <1>1, <1>2, <1>3, <1>4 DEF RowColumns

\* Different lanes, of the same or of different tiles, have different places.
LEMMA PlaceInjective ==
  ASSUME RemapTypeOK, Below, Apart,
         NEW t \in Reserved, NEW l \in ValidLanes(pick[t]),
         NEW u \in Reserved, NEW m \in ValidLanes(pick[u]),
         Place(t, l) = Place(u, m)
  PROVE  t = u /\ l = m
<1>1. /\ base[t] \in Nat /\ Size(t) \in Nat /\ base[t] <= Place(t, l)
      /\ Place(t, l) < base[t] + Size(t) /\ Offset(pick[t], l) \in Nat
      /\ Place(t, l) \in Nat
  BY PlaceInRow
<1>2. /\ base[u] \in Nat /\ Size(u) \in Nat /\ base[u] <= Place(u, m)
      /\ Place(u, m) < base[u] + Size(u) /\ Offset(pick[u], m) \in Nat
  BY PlaceInRow
<1>3. t = u
  BY <1>1, <1>2 DEF Apart
<1>4. Offset(pick[t], l) = Offset(pick[t], m)
  BY <1>1, <1>2, <1>3 DEF Place
<1> QED BY <1>3, <1>4, OffsetInjective

-----------------------------------------------------------------------------
\* The invariant holds before the first launch.
LEMMA InitInv == RemapInit => RemapInv
<1> SUFFICES ASSUME RemapInit PROVE RemapInv
  OBVIOUS
<1>1. \A t \in Tiles : ValidLanes(pick[t]) = {}
  BY DEF RemapInit, ValidLanes
<1>2. pick \in Selections
  BY DEF RemapInit, Selections
<1>3. RemapTypeOK
  BY <1>1, <1>2 DEF RemapInit, RemapTypeOK
<1>4. Uniform /\ Unstored
  BY DEF RemapInit, Uniform, Unstored
<1>5. ASSUME Launched
      PROVE  Bounded /\ Below /\ Apart /\ Covered /\ Written /\ Clean
  <2>1. Tiles = {}
    BY <1>5 DEF RemapInit, Launched
  <2>2. Cardinality(Tiles) = 0
    BY <2>1, FS_EmptySet
  <2>3. Cardinality(Tiles) * Width = 0
    BY <2>2, WidthAssumption
  <2>4. count = 0 /\ RowColumns = {} /\ Reserved = {}
    BY <2>1, <2>3 DEF RemapInit, RowColumns, Reserved
  <2>5. Bounded
    BY <2>4, FS_EmptySet, WidthAssumption DEF Bounded
  <2> QED BY <2>4, <2>5 DEF Below, Apart, Covered, Written, Clean
<1> QED BY <1>3, <1>4, <1>5 DEF RemapInv

\* A launch starts with no tile, an empty row and a count of zero.
LEMMA LaunchInv == ASSUME RemapInv, Launch PROVE RemapInv'
<1>1. /\ pick' \in Selections /\ tile' = [t \in Tiles |-> "load"]
      /\ stored' = [t \in Tiles |-> {}] /\ out' = [c \in RowColumns |-> None]
      /\ count' = 0 /\ base' = base
  BY DEF Launch
<1>2. Cardinality(Tiles) * Width \in Nat
  BY FS_CardinalityType, TilesAssumption, WidthAssumption
<1>3. RemapTypeOK'
  BY <1>1, <1>2 DEF RemapInv, RemapTypeOK
<1>4. Uniform' /\ Unstored'
  BY <1>1 DEF Uniform, Launched, Unstored
<1>5. Reserved' = {}
  BY <1>1 DEF Reserved
<1>6. Bounded'
  BY <1>1, <1>5, FS_EmptySet, WidthAssumption DEF Bounded
<1>7. Covered'
  BY <1>1 DEF Covered
<1>8. (Below /\ Apart /\ Written)'
  BY <1>5 DEF Below, Apart, Written
<1>9. Clean'
  BY <1>1 DEF Clean
<1> QED BY <1>3, <1>4, <1>6, <1>7, <1>8, <1>9 DEF RemapInv

\* A tile that reserves takes the columns from the count on, which no other
\* tile has.
LEMMA ReserveInv == ASSUME RemapInv, NEW t \in Tiles, Reserve(t) PROVE RemapInv'
<1>1. /\ tile[t] = "load" /\ base' = [base EXCEPT ![t] = count]
      /\ count' = count + Size(t) /\ tile' = [tile EXCEPT ![t] = "store"]
      /\ pick' = pick /\ stored' = stored /\ out' = out
  BY DEF Reserve, Size
<1>2. RemapTypeOK /\ Uniform /\ Unstored
  BY DEF RemapInv
<1>3. Launched
  BY <1>1, <1>2 DEF Uniform
<1>4. Bounded /\ Below /\ Apart /\ Covered /\ Written /\ Clean
  BY <1>3 DEF RemapInv
<1>5. tile \in [Tiles -> {"idle", "load", "store"}] /\ base \in [Tiles -> Nat]
  BY <1>2 DEF RemapTypeOK
<1>6. Reserved' = Reserved \cup {t} /\ t \notin Reserved /\ Reserved \subseteq Tiles
  BY <1>1, <1>5 DEF Reserved
<1>7. /\ base'[t] = count
      /\ \A u \in Reserved : u # t /\ base'[u] = base[u]
  BY <1>1, <1>5, <1>6
<1>8. \A u \in Tiles : Size(u)' = Size(u) /\ Size(u) \in Nat /\ Size(u) <= Width
  BY <1>1, ValidIsFinite DEF Size
<1>9. \A u \in Reserved : \A l : Place(u, l)' = Place(u, l)
  BY <1>1, <1>7 DEF Place
<1>10. IsFiniteSet(Tiles) /\ Cardinality(Tiles) \in Nat
       /\ Cardinality(Tiles) * Width \in Nat
  BY FS_CardinalityType, TilesAssumption, WidthAssumption
<1>11. count \in Nat
  BY <1>2, <1>10 DEF RemapTypeOK
<1>12. count' <= Width * Cardinality(Reserved') /\ count' <= Cardinality(Tiles) * Width
  <2>1. IsFiniteSet(Reserved) /\ Cardinality(Reserved') = Cardinality(Reserved) + 1
        /\ IsFiniteSet(Reserved')
    BY <1>6, <1>10, FS_Subset, FS_AddElement
  <2>2. Cardinality(Reserved') <= Cardinality(Tiles)
    BY <1>6, <1>10, FS_Subset, Reserved' \in SUBSET Tiles
  <2> DEFINE k == Cardinality(Reserved)
             n == Cardinality(Tiles)
  <2>3. k \in Nat /\ n \in Nat /\ k + 1 <= n /\ Cardinality(Reserved') = k + 1
    BY <1>10, <2>1, <2>2, FS_CardinalityType
  <2>4. count <= Width * k
    BY <1>4 DEF Bounded
  <2> HIDE DEF k, n
  <2>5. Width * (k + 1) = Width * k + Width /\ Width * k \in Nat
    BY <2>3, WidthAssumption
  <2>6. Width * (k + 1) <= n * Width
    BY <2>3, WidthAssumption
  <2>7. count' <= Width * (k + 1)
    BY <1>1, <1>8, <1>11, <2>4, <2>5, WidthAssumption
  <2>8. count' \in Nat /\ Width * (k + 1) \in Nat /\ n * Width \in Nat
    BY <1>1, <1>8, <1>11, <2>3, WidthAssumption
  <2>9. count' <= n * Width
    BY <2>6, <2>7, <2>8
  <2> QED BY <2>3, <2>7, <2>9 DEF n
<1>13. RemapTypeOK'
  <2>1. count' \in 0 .. Cardinality(Tiles) * Width
    BY <1>1, <1>8, <1>10, <1>11, <1>12
  <2> QED BY <1>1, <1>2, <1>11, <2>1 DEF RemapTypeOK
<1>14. Uniform' /\ Launched' /\ Unstored'
  BY <1>1, <1>2, <1>3, <1>5 DEF Uniform, Launched, Unstored
<1>15. Below'
  <2>1. \A u \in Reserved : base[u] + Size(u) <= count /\ base[u] \in Nat
    BY <1>4, <1>5, <1>6 DEF Below
  <2>2. \A u \in Reserved : base'[u] + Size(u)' <= count'
    BY <1>1, <1>6, <1>7, <1>8, <1>11, <2>1
  <2>3. base'[t] + Size(t)' <= count'
    BY <1>1, <1>7, <1>8, <1>11
  <2> QED BY <1>6, <2>2, <2>3 DEF Below
<1>16. Apart'
  BY <1>4, <1>6, <1>7, <1>8 DEF Apart, Below
<1>17. Covered'
  <2>1. SUFFICES ASSUME NEW i \in 0 .. count' - 1
                 PROVE  \E u \in Reserved' : base'[u] <= i /\ i < base'[u] + Size(u)'
    BY DEF Covered
  <2>2. CASE i < count
    <3>1. PICK u \in Reserved : base[u] <= i /\ i < base[u] + Size(u)
      BY <1>4, <1>11, <2>2 DEF Covered
    <3> QED BY <1>6, <1>7, <1>8, <3>1
  <2>3. CASE ~ (i < count)
    BY <1>1, <1>6, <1>7, <1>8, <1>11, <2>3
  <2> QED BY <2>2, <2>3
<1>18. Written'
  <2>1. stored[t] = {}
    BY <1>1, <1>2 DEF Unstored
  <2> QED BY <1>1, <1>4, <1>6, <1>9, <2>1 DEF Written
<1>19. Clean'
  BY <1>1, <1>4, <1>6, <1>9 DEF Clean
<1> QED BY <1>12, <1>13, <1>14, <1>15, <1>16, <1>17, <1>18, <1>19 DEF RemapInv, Bounded

\* A store fills the place of its lane and disturbs no other.
LEMMA StoreInv ==
  ASSUME RemapInv, NEW t \in Tiles, NEW l \in TileLanes, Store(t, l) PROVE RemapInv'
<1>1. /\ tile[t] = "store" /\ l \in ValidLanes(pick[t]) \ stored[t]
      /\ out' = [out EXCEPT ![Place(t, l)] = pick[t][l]]
      /\ stored' = [stored EXCEPT ![t] = @ \cup {l}]
      /\ pick' = pick /\ tile' = tile /\ base' = base /\ count' = count
  BY DEF Store, Place
<1>2. RemapTypeOK /\ Uniform /\ Unstored
  BY DEF RemapInv
<1>3. Launched
  BY <1>1, <1>2 DEF Uniform
<1>4. Bounded /\ Below /\ Apart /\ Covered /\ Written /\ Clean
  BY <1>3 DEF RemapInv
<1>5. /\ Reserved' = Reserved /\ t \in Reserved
      /\ \A u : Size(u)' = Size(u)
      /\ \A u, m : Place(u, m)' = Place(u, m)
  BY <1>1 DEF Reserved, Size, Place
<1>6. /\ out \in [RowColumns -> Slots \cup {None}] /\ stored \in [Tiles -> SUBSET TileLanes]
      /\ \A u \in Tiles : stored[u] \subseteq ValidLanes(pick[u])
      /\ pick[t][l] \in Slots \cup {None}
  BY <1>2 DEF RemapTypeOK, Selections
<1>7. Place(t, l) \in RowColumns
  BY <1>1, <1>2, <1>4, <1>5, PlaceInRow
<1>8. /\ stored'[t] = stored[t] \cup {l}
      /\ \A u \in Tiles : u # t => stored'[u] = stored[u]
  BY <1>1, <1>6
<1>9. RemapTypeOK'
  <2>1. \A u \in Tiles : stored'[u] \subseteq ValidLanes(pick'[u])
    BY <1>1, <1>6, <1>8
  <2>2. out' \in [RowColumns -> Slots \cup {None}] /\ stored' \in [Tiles -> SUBSET TileLanes]
    BY <1>1, <1>6
  <2> QED BY <1>1, <1>2, <2>1, <2>2 DEF RemapTypeOK
<1>10. Uniform' /\ Unstored'
  BY <1>1, <1>2, <1>8 DEF Uniform, Launched, Unstored
<1>11. Bounded' /\ Below' /\ Apart' /\ Covered'
  BY <1>1, <1>4, <1>5 DEF Bounded, Below, Apart, Covered
<1>12. Written'
  <2>1. SUFFICES ASSUME NEW u \in Reserved, NEW m \in stored'[u]
                 PROVE  out'[Place(u, m)] = pick[u][m]
    BY <1>1, <1>5 DEF Written
  <2>2. u \in Tiles
    BY DEF Reserved
  <2>3. CASE u = t /\ m = l
    BY <1>1, <1>6, <1>7, <2>3
  <2>4. CASE ~ (u = t /\ m = l)
    <3>1. m \in stored[u] /\ m \in ValidLanes(pick[u])
      BY <1>6, <1>8, <2>2, <2>4
    <3>2. Place(u, m) # Place(t, l)
      BY <1>1, <1>2, <1>4, <1>5, <2>4, <3>1, PlaceInjective
    <3>3. Place(u, m) \in RowColumns
      BY <1>2, <1>4, <3>1, PlaceInRow
    <3>4. out'[Place(u, m)] = out[Place(u, m)]
      BY <1>1, <1>6, <3>2, <3>3
    <3> QED BY <1>4, <3>1, <3>4 DEF Written
  <2> QED BY <2>3, <2>4
<1>13. Clean'
  <2>1. SUFFICES ASSUME NEW c \in RowColumns, out'[c] # None
                 PROVE  \E u \in Reserved : \E m \in stored'[u] : c = Place(u, m)
    BY <1>5 DEF Clean
  <2>2. CASE c = Place(t, l)
    BY <1>5, <1>8, <2>2
  <2>3. CASE c # Place(t, l)
    <3>1. out[c] # None
      BY <1>1, <1>6, <2>1, <2>3
    <3>2. PICK u \in Reserved : \E m \in stored[u] : c = Place(u, m)
      BY <1>4, <3>1 DEF Clean
    <3>3. stored[u] \subseteq stored'[u]
      BY <1>8 DEF Reserved
    <3> QED BY <3>2, <3>3
  <2> QED BY <2>2, <2>3
<1> QED BY <1>9, <1>10, <1>11, <1>12, <1>13 DEF RemapInv

\* A step that changes nothing.
LEMMA StutterInv == ASSUME RemapInv, UNCHANGED remapVars PROVE RemapInv'
  BY DEF remapVars, RemapInv, RemapTypeOK, Uniform, Launched, Unstored, Bounded, Below, Apart,
         Covered, Written, Clean, Reserved, Size, Place, ValidLanes, Offset

\* The invariant is inductive.
THEOREM RemapInductive == RemapSpec => []RemapInv
<1>1. RemapInit => RemapInv
  BY InitInv
<1>2. RemapInv /\ [RemapNext]_remapVars => RemapInv'
  BY LaunchInv, ReserveInv, StoreInv, StutterInv DEF RemapNext
<1> QED BY <1>1, <1>2, PTL DEF RemapSpec

\* Every state is of its type; in particular the count never exceeds the row,
\* so no tile stores outside it.
THEOREM RemapTypes == RemapSpec => []RemapTypeOK
<1>1. RemapInv => RemapTypeOK
  BY DEF RemapInv
<1> QED BY <1>1, RemapInductive, PTL

-----------------------------------------------------------------------------
\* With no tile there is no row, and otherwise a kernel that is done was
\* launched.
LEMMA DoneWasLaunched == ASSUME KernelDone PROVE Launched
  BY DEF KernelDone, TileDone, Launched

\* When the tiles are done the invariant gives the exact prefix.
LEMMA DoneIsExact == ASSUME RemapInv PROVE PrefixExact
<1> SUFFICES ASSUME KernelDone
             PROVE  /\ {out[c] : c \in {c \in RowColumns : c < count}} = Selected
                    /\ \A c \in RowColumns : c >= count => out[c] = None
  BY DEF PrefixExact
<1>1. RemapTypeOK /\ Below /\ Apart /\ Covered /\ Written /\ Clean
  BY DoneWasLaunched DEF RemapInv
<1>2. Reserved = Tiles /\ \A t \in Tiles : stored[t] = ValidLanes(pick[t])
  BY DEF KernelDone, TileDone, Reserved
<1>3. count \in Nat /\ \A t \in Tiles : base[t] \in Nat /\ Size(t) \in Nat
  BY <1>1, ValidIsFinite, FS_CardinalityType, TilesAssumption, WidthAssumption
     DEF RemapTypeOK, Size
<1>4. \A t \in Tiles : \A l \in ValidLanes(pick[t]) :
        /\ Place(t, l) \in RowColumns /\ Place(t, l) < count
        /\ out[Place(t, l)] = pick[t][l]
  BY <1>1, <1>2, PlaceInRow DEF Written
<1>5. ASSUME NEW c \in RowColumns, c < count
      PROVE  \E t \in Tiles : \E l \in ValidLanes(pick[t]) : c = Place(t, l)
  <2>1. c \in Nat /\ c \in 0 .. count - 1
    BY <1>3, <1>5, FS_CardinalityType, TilesAssumption, WidthAssumption DEF RowColumns
  <2>2. PICK t \in Tiles : base[t] <= c /\ c < base[t] + Size(t)
    BY <1>1, <1>2, <2>1 DEF Covered
  <2>3. c - base[t] \in 0 .. Size(t) - 1
    BY <1>3, <2>1, <2>2
  <2>4. PICK l \in ValidLanes(pick[t]) : Offset(pick[t], l) = c - base[t]
    BY <2>3, OffsetOnto DEF Size
  <2>5. c = Place(t, l)
    BY <1>3, <2>1, <2>2, <2>4 DEF Place
  <2> QED BY <2>5
<1>6. {out[c] : c \in {c \in RowColumns : c < count}} \subseteq Selected
  BY <1>4, <1>5 DEF Selected
<1>7. Selected \subseteq {out[c] : c \in {c \in RowColumns : c < count}}
  BY <1>4 DEF Selected
<1>8. ASSUME NEW c \in RowColumns, c >= count PROVE out[c] = None
  <2>1. SUFFICES ASSUME out[c] # None PROVE FALSE
    OBVIOUS
  <2>2. PICK t \in Tiles : \E l \in ValidLanes(pick[t]) : c = Place(t, l)
    BY <1>1, <1>2, <2>1 DEF Clean
  <2>3. c < count
    BY <1>4, <2>2
  <2>4. c \in Int
    BY DEF RowColumns
  <2> QED BY <1>3, <1>8, <2>3, <2>4
<1> QED BY <1>6, <1>7, <1>8

\* The racing tiles leave exactly the valid slots in a contiguous prefix, and
\* nothing behind it, for every width, number of tiles and selection.
THEOREM PrefixIsExact == RemapSpec => []PrefixExact
<1>1. RemapInv => PrefixExact
  BY DoneIsExact
<1> QED BY <1>1, RemapInductive, PTL

\* No store of a tile hits a column that already holds a slot of the launch.
THEOREM StoresAreDisjoint == RemapSpec => NothingOverwritten
<1> DEFINE SlotsStay == \A c \in RowColumns : out[c] # None => out'[c] = out[c]
<1>1. ASSUME RemapInv, RemapNext PROVE Launch \/ SlotsStay
  <2>1. ASSUME NEW t \in Tiles, Reserve(t) PROVE SlotsStay
    BY <2>1 DEF Reserve
  <2>2. ASSUME NEW t \in Tiles, NEW l \in TileLanes, Store(t, l) PROVE SlotsStay
    <3>1. SUFFICES ASSUME NEW c \in RowColumns, out[c] # None PROVE out'[c] = out[c]
      OBVIOUS
    <3>2. /\ tile[t] = "store" /\ l \in ValidLanes(pick[t]) \ stored[t]
          /\ out' = [out EXCEPT ![Place(t, l)] = pick[t][l]]
      BY <2>2 DEF Store, Place
    <3>3. RemapTypeOK /\ Uniform
      BY <1>1 DEF RemapInv
    <3>4. Launched
      BY <3>2, <3>3 DEF Uniform
    <3>5. Below /\ Apart /\ Clean /\ t \in Reserved
      BY <1>1, <3>2, <3>4 DEF RemapInv, Reserved
    <3>6. PICK u \in Reserved : \E m \in stored[u] : c = Place(u, m)
      BY <3>1, <3>5 DEF Clean
    <3>7. PICK m \in stored[u] : c = Place(u, m)
      BY <3>6
    <3>8. m \in ValidLanes(pick[u])
      BY <3>3, <3>7 DEF RemapTypeOK, Reserved
    <3>9. c # Place(t, l)
      BY <3>2, <3>3, <3>5, <3>7, <3>8, PlaceInjective
    <3> QED BY <3>2, <3>3, <3>9 DEF RemapTypeOK
  <2> QED BY <1>1, <2>1, <2>2 DEF RemapNext
<1>2. RemapInv /\ [RemapNext]_remapVars => [Launch \/ SlotsStay]_remapVars
  BY <1>1
<1> HIDE DEF SlotsStay
<1>3. RemapSpec => [][Launch \/ SlotsStay]_remapVars
  BY <1>2, RemapInductive, PTL DEF RemapSpec
<1> QED BY <1>3 DEF NothingOverwritten, SlotsStay
=============================================================================
