-------------------------- MODULE CkvLayoutProofs --------------------------
(***************************************************************************)
(* Facts about the layout of the split and gathered cache, for every group *)
(* size, interleaving, page size, token and batch.                         *)
(***************************************************************************)
EXTENDS CkvLayout, WellFoundedInduction, TLAPS

-----------------------------------------------------------------------------
(***************************************************************************)
(* Arithmetic.                                                             *)
(***************************************************************************)

\* Quotient and remainder recombine, and the remainder is below the divisor.
LEMMA DivMod ==
  ASSUME NEW a \in Nat, NEW b \in Nat \ {0}
  PROVE  /\ a \div b \in Nat /\ a % b \in 0 .. b - 1
         /\ a = b * (a \div b) + (a % b)
  OBVIOUS

\* They are the only such pair.
LEMMA DivUnique ==
  ASSUME NEW b \in Nat \ {0}, NEW q \in Nat, NEW r \in 0 .. b - 1
  PROVE  (b * q + r) \div b = q /\ (b * q + r) % b = r
  OBVIOUS

\* Multiplication is monotone.
LEMMA MulMono ==
  ASSUME NEW a \in Nat, NEW b \in Nat, NEW c \in Nat, a <= b
  PROVE  c * a <= c * b
  OBVIOUS

\* Strictly below by at least the factor.
LEMMA MulStep ==
  ASSUME NEW a \in Nat, NEW b \in Nat, NEW c \in Nat, a < b
  PROVE  c * a + c <= c * b
<1>1. c * (a + 1) <= c * b
  BY MulMono, a + 1 <= b, a + 1 \in Nat
<1>2. c * (a + 1) = c * a + c
  OBVIOUS
<1> QED BY <1>1, <1>2

\* Two bounds add up.
LEMMA AddBounds ==
  ASSUME NEW a \in Nat, NEW b \in Nat, NEW c \in Nat, NEW d \in Nat,
         NEW e \in Nat, NEW f \in Nat, a <= c + d, b <= e + f
  PROVE  a + b <= (c + e) + (d + f)
  OBVIOUS

\* A set of numbers with 0 that is closed under successor has every number.
\* The library's induction theorems speak of an operator; a set serves here.
LEMMA SetInduction ==
  ASSUME NEW T, T \subseteq Nat, 0 \in T, \A n \in T : n + 1 \in T
  PROVE  T = Nat
<1> DEFINE R == OpToRel(<, Nat)
<1>1. IsWellFoundedOn(R, Nat)
  BY NatLessThanWellFounded
<1>2. ASSUME NEW x \in Nat, NEW y \in Nat, y < x PROVE <<y, x>> \in R
  BY <1>2 DEF OpToRel
<1> HIDE DEF R
<1>3. SUFFICES ASSUME Nat \ T # {} PROVE FALSE
  OBVIOUS
<1>4. PICK x \in Nat \ T : \A y \in Nat \ T : ~ (<<y, x>> \in R)
  BY <1>1, <1>3, WFMin
<1>5. x # 0 /\ x - 1 \in Nat /\ x - 1 < x /\ x = (x - 1) + 1
  BY <1>4
<1>6. x - 1 \in T
  BY <1>2, <1>4, <1>5
<1> QED BY <1>4, <1>5, <1>6

\* Finitely many numbers, at least one, have a largest.
LEMMA LargestExists ==
  ASSUME NEW n \in Nat \ {0}, NEW h \in [0 .. n - 1 -> Int]
  PROVE  \E i \in 0 .. n - 1 : \A j \in 0 .. n - 1 : h[j] <= h[i]
<1> DEFINE T == {m \in Nat : m < n =>
                   \E i \in 0 .. m : \A j \in 0 .. m : h[j] <= h[i]}
<1>1. \A m \in Nat : m < n => h[m] \in Int
  OBVIOUS
<1>2. 0 \in T
  <2>1. h[0] \in Int /\ \A j \in 0 .. 0 : j = 0
    BY <1>1
  <2>2. \A j \in 0 .. 0 : h[j] <= h[0]
    BY <2>1
  <2> QED BY <2>2
<1>3. ASSUME NEW m \in T PROVE m + 1 \in T
  <2> SUFFICES ASSUME m + 1 < n
               PROVE  \E i \in 0 .. m + 1 : \A j \in 0 .. m + 1 : h[j] <= h[i]
    BY <1>3
  <2>1. m \in Nat /\ m < n
    BY <1>3
  <2>2. PICK i \in 0 .. m : \A j \in 0 .. m : h[j] <= h[i]
    BY <1>3, <2>1
  <2>3. /\ i \in 0 .. m + 1 /\ m + 1 \in 0 .. m + 1
        /\ h[i] \in Int /\ h[m + 1] \in Int
        /\ \A j \in 0 .. m + 1 : j \in 0 .. m \/ j = m + 1
    BY <1>1, <2>1, <2>2
  <2>4. CASE h[m + 1] <= h[i]
    BY <2>2, <2>3, <2>4
  <2>5. CASE ~ (h[m + 1] <= h[i])
    <3>1. \A j \in 0 .. m : h[j] \in Int
      BY <1>1, <2>1
    <3>2. \A j \in 0 .. m + 1 : h[j] <= h[m + 1]
      BY <2>2, <2>3, <2>5, <3>1
    <3> QED BY <2>3, <3>2
  <2> QED BY <2>4, <2>5
<1>4. T = Nat
  BY <1>2, <1>3, SetInduction
<1>5. n - 1 \in Nat /\ n - 1 < n
  OBVIOUS
<1> QED BY <1>4, <1>5

-----------------------------------------------------------------------------
(***************************************************************************)
(* A token in coordinates: round q, rank r, place m of the run.           *)
(***************************************************************************)

\* A round deals at least one token.
LEMMA StrideIsPositive == Stride \in Nat \ {0}
  BY SizesAssumption DEF Stride

\* A run ends within its round.
LEMMA RunInRound ==
  ASSUME NEW r \in Ranks, NEW m \in 0 .. Interleave - 1
  PROVE  r * Interleave + m \in 0 .. Stride - 1
<1>1. r \in Nat /\ DcpSize \in Nat /\ Interleave \in Nat /\ r < DcpSize
  BY SizesAssumption DEF Ranks
<1>2. Interleave * r + Interleave <= Interleave * DcpSize
  BY <1>1, MulStep
<1>3. r * Interleave \in Nat /\ r * Interleave = Interleave * r
      /\ Stride = Interleave * DcpSize
  BY <1>1 DEF Stride
<1> HIDE DEF Stride
<1> QED BY <1>1, <1>2, <1>3

\* The token at given coordinates has them as its owner and local index.
LEMMA AtCoordinates ==
  ASSUME NEW q \in Nat, NEW r \in Ranks, NEW m \in 0 .. Interleave - 1,
         NEW tok, tok = q * Stride + r * Interleave + m
  PROVE  /\ tok \in Nat
         /\ tok \div Stride = q
         /\ tok % Interleave = m
         /\ Owner(tok) = r
         /\ LocalIndex(tok) = q * Interleave + m
<1>1. r \in Nat /\ DcpSize \in Nat \ {0} /\ Interleave \in Nat \ {0}
      /\ r \in 0 .. DcpSize - 1 /\ m \in Nat
  BY SizesAssumption DEF Ranks
<1>2. r * Interleave + m \in 0 .. Stride - 1 /\ Stride \in Nat \ {0}
  BY RunInRound, StrideIsPositive
<1>3. tok = Stride * q + (r * Interleave + m)
  BY <1>1, <1>2
<1>4. tok \div Stride = q
  BY <1>2, <1>3, DivUnique
<1>5. tok = Interleave * (DcpSize * q + r) + m
  <2>1. Stride * q = Interleave * (DcpSize * q)
    BY <1>1 DEF Stride
  <2>2. DcpSize * q \in Nat
    BY <1>1
  <2>3. Interleave * (DcpSize * q + r) = Interleave * (DcpSize * q) + r * Interleave
    BY <1>1, <2>2
  <2> QED BY <1>1, <1>2, <1>3, <2>1, <2>2, <2>3
<1>6. DcpSize * q + r \in Nat
  BY <1>1
<1>7. tok \div Interleave = DcpSize * q + r /\ tok % Interleave = m
  BY <1>1, <1>5, <1>6, DivUnique
<1>8. Owner(tok) = r
  BY <1>1, <1>7, DivUnique DEF Owner
<1>9. LocalIndex(tok) = q * Interleave + m
  BY <1>4, <1>7 DEF LocalIndex
<1>10. tok \in Nat
  BY <1>1, <1>5, <1>6
<1> QED BY <1>4, <1>7, <1>8, <1>9, <1>10

\* Every token has coordinates.
LEMMA HasCoordinates ==
  ASSUME NEW tok \in Nat
  PROVE  \E q \in Nat, r \in Ranks, m \in 0 .. Interleave - 1 :
           tok = q * Stride + r * Interleave + m
<1> DEFINE run == tok \div Interleave
           q == run \div DcpSize
           r == run % DcpSize
           m == tok % Interleave
<1>1. DcpSize \in Nat \ {0} /\ Interleave \in Nat \ {0}
  BY SizesAssumption
<1>2. run \in Nat /\ m \in 0 .. Interleave - 1 /\ tok = Interleave * run + m
  BY <1>1, DivMod
<1> HIDE DEF run, m
<1>3. q \in Nat /\ r \in 0 .. DcpSize - 1 /\ run = DcpSize * q + r
  BY <1>1, <1>2, DivMod
<1> HIDE DEF q, r
<1>4. Interleave * (DcpSize * q + r) = q * Stride + r * Interleave
  <2>1. Interleave * (DcpSize * q) = q * Stride
    BY <1>1, <1>3 DEF Stride
  <2>2. DcpSize * q \in Nat /\ r \in Nat
    BY <1>1, <1>3
  <2> QED BY <1>1, <2>1, <2>2
<1>5. tok = q * Stride + r * Interleave + m
  BY <1>2, <1>3, <1>4
<1> QED BY <1>2, <1>3, <1>5 DEF Ranks

-----------------------------------------------------------------------------
\* Every token has one owner, and the owner finds it again under its local
\* index: splitting a request's cache loses no token.
THEOREM TokenRoundTrip ==
  ASSUME NEW tok \in Nat
  PROVE  /\ Owner(tok) \in Ranks
         /\ LocalIndex(tok) \in Nat
         /\ GlobalPosition(LocalIndex(tok), Owner(tok)) = tok
<1>1. PICK q \in Nat, r \in Ranks, m \in 0 .. Interleave - 1 :
        tok = q * Stride + r * Interleave + m
  BY HasCoordinates
<1>2. Owner(tok) = r /\ LocalIndex(tok) = q * Interleave + m
  BY <1>1, AtCoordinates
<1>3. Interleave \in Nat \ {0} /\ m \in Nat
  BY SizesAssumption
<1>4. q * Interleave + m \in Nat /\ q * Interleave + m = Interleave * q + m
  BY <1>3
<1>5. (q * Interleave + m) \div Interleave = q /\ (q * Interleave + m) % Interleave = m
  BY <1>3, <1>4, DivUnique
<1>6. GlobalPosition(LocalIndex(tok), Owner(tok)) = tok
  BY <1>1, <1>2, <1>5 DEF GlobalPosition
<1> QED BY <1>2, <1>4, <1>6

\* The other way round: what a rank keeps under a local index is its own, so
\* no two ranks keep the same token and no rank keeps one twice.
THEOREM LocalRoundTrip ==
  ASSUME NEW l \in Nat, NEW rank \in Ranks
  PROVE  /\ GlobalPosition(l, rank) \in Nat
         /\ Owner(GlobalPosition(l, rank)) = rank
         /\ LocalIndex(GlobalPosition(l, rank)) = l
<1>1. Interleave \in Nat \ {0}
  BY SizesAssumption
<1>2. /\ l \div Interleave \in Nat /\ l % Interleave \in 0 .. Interleave - 1
      /\ l = Interleave * (l \div Interleave) + (l % Interleave)
  BY <1>1, DivMod
<1>3. Interleave * (l \div Interleave) = (l \div Interleave) * Interleave
  BY <1>1, <1>2
<1> QED BY <1>2, <1>3, AtCoordinates DEF GlobalPosition

-----------------------------------------------------------------------------
\* What a rank keeps of the first len tokens: whole rounds, and its share of
\* the last one.
LEMMA LocalLenBounds ==
  ASSUME NEW len \in Nat, NEW rank \in Ranks
  PROVE  /\ LocalLen(len, rank) \in Nat
         /\ (len \div Stride) * Interleave <= LocalLen(len, rank)
         /\ LocalLen(len, rank) <= (len \div Stride) * Interleave + Interleave
<1>1. Interleave \in Nat /\ rank \in Nat /\ rank * Interleave \in Nat
  BY SizesAssumption DEF Ranks
<1>2. len \div Stride \in Nat /\ len % Stride \in Nat
  BY StrideIsPositive, DivMod
<1>3. (len \div Stride) * Interleave \in Nat
  BY <1>1, <1>2
<1> DEFINE rest == len % Stride
           over == IF rest > rank * Interleave THEN rest - rank * Interleave ELSE 0
           share == IF over < Interleave THEN over ELSE Interleave
<1>4. over \in Nat
  BY <1>1, <1>2
<1>5. share \in Nat /\ share <= Interleave
  BY <1>1, <1>4
<1>6. LocalLen(len, rank) = (len \div Stride) * Interleave + share
  BY DEF LocalLen
<1> HIDE DEF share
<1> QED BY <1>1, <1>3, <1>5, <1>6

\* The length test of the remap kernel is exact: a token is among the first
\* len ones of its request just when its local index is below its owner's
\* length.  Hence no slot of a later request, of padding or of an earlier
\* gather is ever selected, and no token of the request is dropped.
THEOREM LengthTestIsExact ==
  ASSUME NEW tok \in Nat, NEW len \in Nat
  PROVE  LocalIndex(tok) < LocalLen(len, Owner(tok)) <=> tok < len
<1>1. PICK q \in Nat, r \in Ranks, m \in 0 .. Interleave - 1 :
        tok = q * Stride + r * Interleave + m
  BY HasCoordinates
<1>2. Owner(tok) = r /\ LocalIndex(tok) = q * Interleave + m
  BY <1>1, AtCoordinates
<1> DEFINE Q == len \div Stride
           rest == len % Stride
<1>3. /\ Interleave \in Nat \ {0} /\ Stride \in Nat \ {0} /\ m \in Nat /\ m < Interleave
      /\ r \in Nat
  BY SizesAssumption, StrideIsPositive DEF Ranks
<1>4. Q \in Nat /\ rest \in 0 .. Stride - 1 /\ len = Stride * Q + rest
  BY <1>3, DivMod
<1>5. r * Interleave + m \in 0 .. Stride - 1
  BY RunInRound
<1>6. /\ LocalLen(len, r) \in Nat
      /\ Q * Interleave <= LocalLen(len, r)
      /\ LocalLen(len, r) <= Q * Interleave + Interleave
  BY LocalLenBounds
<1>7. /\ q * Stride = Stride * q /\ Stride * q \in Nat /\ Stride * Q \in Nat
      /\ q * Interleave = Interleave * q /\ Q * Interleave = Interleave * Q
      /\ Interleave * q \in Nat /\ Interleave * Q \in Nat /\ r * Interleave \in Nat
  BY <1>3, <1>4
<1>8. CASE q < Q
  <2>1. Stride * q + Stride <= Stride * Q /\ Interleave * q + Interleave <= Interleave * Q
    BY <1>3, <1>4, <1>8, MulStep
  <2> HIDE DEF Q, rest
  <2>2. tok < len
    BY <1>1, <1>3, <1>4, <1>5, <1>7, <2>1
  <2>3. q * Interleave + m < LocalLen(len, r)
    BY <1>3, <1>6, <1>7, <2>1
  <2> QED BY <1>2, <2>2, <2>3
<1>9. CASE Q < q
  <2>1. Stride * Q + Stride <= Stride * q /\ Interleave * Q + Interleave <= Interleave * q
    BY <1>3, <1>4, <1>9, MulStep
  <2> HIDE DEF Q, rest
  <2>2. ~ (tok < len)
    BY <1>1, <1>3, <1>4, <1>5, <1>7, <2>1
  <2>3. ~ (q * Interleave + m < LocalLen(len, r))
    BY <1>3, <1>6, <1>7, <2>1
  <2> QED BY <1>2, <2>2, <2>3
<1>10. CASE q = Q
  <2> DEFINE over == IF rest > r * Interleave THEN rest - r * Interleave ELSE 0
             share == IF over < Interleave THEN over ELSE Interleave
  <2>1. LocalLen(len, r) = Q * Interleave + share
    BY DEF LocalLen
  <2> HIDE DEF Q, rest
  <2>2. tok < len <=> r * Interleave + m < rest
    BY <1>1, <1>3, <1>4, <1>7, <1>10
  <2>3. r * Interleave + m < rest <=> m < over
    BY <1>3, <1>4, <1>7
  <2>4. over \in Nat
    BY <1>4, <1>7
  <2> HIDE DEF over
  <2>5. m < over <=> m < share
    BY <1>3, <2>4
  <2>6. share \in Nat
    BY <1>3, <2>4
  <2> HIDE DEF share
  <2>7. q * Interleave + m < LocalLen(len, r) <=> m < share
    BY <1>3, <1>7, <1>10, <2>1, <2>6
  <2> QED BY <1>2, <2>2, <2>3, <2>5, <2>7
<1> QED BY <1>4, <1>8, <1>9, <1>10

\* A rank counts no further than the request does.
LEMMA LocalIndexBelow ==
  ASSUME NEW tok \in Nat
  PROVE  LocalIndex(tok) <= tok
<1>1. PICK q \in Nat, r \in Ranks, m \in 0 .. Interleave - 1 :
        tok = q * Stride + r * Interleave + m
  BY HasCoordinates
<1>2. LocalIndex(tok) = q * Interleave + m
  BY <1>1, AtCoordinates
<1>3. q * Interleave <= q * Stride
  <2>1. /\ Interleave \in Nat /\ Stride \in Nat /\ DcpSize \in Nat \ {0}
        /\ Stride = Interleave * DcpSize
    BY SizesAssumption DEF Stride
  <2>2. Interleave * 1 <= Interleave * DcpSize
    BY <2>1, MulMono
  <2>3. Interleave <= Stride
    BY <2>1, <2>2
  <2> QED BY <1>1, <2>1, <2>3, MulMono
<1>4. r * Interleave \in Nat /\ q * Interleave \in Nat /\ q * Stride \in Nat /\ m \in Nat
  BY <1>1, SizesAssumption, StrideIsPositive DEF Ranks
<1> QED BY <1>1, <1>2, <1>3, <1>4

\* What a rank keeps of a request are the request's own tokens.
LEMMA KeptTokens ==
  ASSUME NEW len \in Nat, NEW rank \in Ranks, NEW i \in Nat,
         i < LocalLen(len, rank)
  PROVE  /\ GlobalPosition(i, rank) \in Nat /\ GlobalPosition(i, rank) < len
         /\ i <= GlobalPosition(i, rank) /\ i < len
<1> DEFINE tok == GlobalPosition(i, rank)
<1>1. tok \in Nat /\ Owner(tok) = rank /\ LocalIndex(tok) = i
  BY LocalRoundTrip
<1> HIDE DEF tok
<1>2. tok < len
  BY <1>1, LengthTestIsExact
<1>3. i <= tok
  BY <1>1, LocalIndexBelow
<1>4. i < len
  BY <1>1, <1>2, <1>3
<1> QED BY <1>1, <1>2, <1>3, <1>4 DEF tok

-----------------------------------------------------------------------------
(***************************************************************************)
(* The gathered buffer.  The starts of a rank are the running sums of its  *)
(* lengths, as the metadata builder computes them, and the last one, the   *)
(* rank's total, is at most the padded size.                               *)
(***************************************************************************)

\* Running sums of numbers are numbers.
LEMMA StartsAreNumbers ==
  ASSUME NEW n \in Nat, NEW starts, NEW lens \in [0 .. n - 1 -> Nat],
         RunningSum(starts, lens, n)
  PROVE  \A q \in 0 .. n : starts[q] \in Nat
<1> DEFINE T == {k \in Nat : k <= n => starts[k] \in Nat}
<1>1. 0 \in T
  BY DEF RunningSum
<1>2. ASSUME NEW k \in T PROVE k + 1 \in T
  <2>1. SUFFICES ASSUME k + 1 <= n PROVE starts[k + 1] \in Nat
    OBVIOUS
  <2>2. k \in 0 .. n - 1 /\ starts[k] \in Nat /\ lens[k] \in Nat
    BY <1>2, <2>1
  <2>3. starts[k + 1] = starts[k] + lens[k]
    BY <2>2 DEF RunningSum
  <2> QED BY <2>2, <2>3
<1> HIDE DEF T
<1>3. T \subseteq Nat
  BY DEF T
<1>4. T = Nat
  BY <1>1, <1>2, <1>3, SetInduction
<1> QED BY <1>4 DEF T

\* Each request ends where or before any later one starts.
LEMMA RequestsInOrder ==
  ASSUME NEW n \in Nat, NEW starts, NEW lens \in [0 .. n - 1 -> Nat],
         RunningSum(starts, lens, n),
         NEW p \in 0 .. n - 1, NEW q \in 0 .. n, p < q
  PROVE  starts[p] + lens[p] <= starts[q]
<1> DEFINE T == {k \in Nat : p + 1 + k <= n => starts[p] + lens[p] <= starts[p + 1 + k]}
<1>1. \A i \in 0 .. n : starts[i] \in Nat
  BY StartsAreNumbers
<1>2. p \in Nat /\ p \in 0 .. n /\ lens[p] \in Nat /\ starts[p] \in Nat
  BY <1>1
<1>3. 0 \in T
  BY <1>2 DEF RunningSum
<1>4. ASSUME NEW k \in T PROVE k + 1 \in T
  <2>1. SUFFICES ASSUME p + 1 + (k + 1) <= n
                 PROVE  starts[p] + lens[p] <= starts[p + 1 + (k + 1)]
    OBVIOUS
  <2> DEFINE i == p + 1 + k
  <2>2. i \in 0 .. n - 1 /\ i \in 0 .. n /\ i + 1 = p + 1 + (k + 1)
    BY <1>2, <1>4, <2>1
  <2>3. starts[p] + lens[p] <= starts[i]
    BY <1>4, <2>2
  <2> HIDE DEF i
  <2>4. starts[i + 1] = starts[i] + lens[i] /\ lens[i] \in Nat /\ starts[i] \in Nat
    BY <1>1, <2>2 DEF RunningSum
  <2>5. starts[p + 1 + (k + 1)] = starts[i] + lens[i]
    BY <2>2, <2>4
  <2>6. starts[p] + lens[p] \in Nat
    BY <1>2
  <2> QED BY <2>3, <2>4, <2>5, <2>6
<1>5. T \subseteq Nat
  BY DEF T
<1> HIDE DEF T
<1>6. T = Nat
  BY <1>3, <1>4, <1>5, SetInduction
<1>7. q - p - 1 \in T /\ p + 1 + (q - p - 1) = q /\ q <= n
  BY <1>2, <1>6
<1> QED BY <1>7 DEF T

\* The whole of a request lies within the rank's total.
LEMMA RequestFits ==
  ASSUME NEW n \in Nat, NEW starts, NEW lens \in [0 .. n - 1 -> Nat],
         RunningSum(starts, lens, n), NEW p \in 0 .. n - 1
  PROVE  starts[p] + lens[p] <= starts[n]
  BY RequestsInOrder, p < n, n \in 0 .. n

\* The place of a token splits uniquely into its owner's part and a place in
\* that part.
LEMMA SlotSplits ==
  ASSUME NEW tok \in Nat, NEW start \in Nat, NEW padded \in Nat,
         start + LocalIndex(tok) < padded
  PROVE  /\ GatheredSlot(tok, start, padded) \in Nat
         /\ GatheredSlot(tok, start, padded) \div padded = Owner(tok)
         /\ GatheredSlot(tok, start, padded) % padded = start + LocalIndex(tok)
         /\ GatheredSlot(tok, start, padded) < DcpSize * padded
<1>1. Owner(tok) \in Nat /\ Owner(tok) < DcpSize /\ DcpSize \in Nat
      /\ LocalIndex(tok) \in Nat
  BY TokenRoundTrip, SizesAssumption DEF Ranks
<1> DEFINE place == start + LocalIndex(tok)
<1>2. place \in 0 .. padded - 1 /\ padded \in Nat \ {0}
  BY <1>1
<1>3. GatheredSlot(tok, start, padded) = padded * Owner(tok) + place
  BY <1>1 DEF GatheredSlot
<1> HIDE DEF place
<1>4. padded * Owner(tok) + padded <= padded * DcpSize
      /\ padded * Owner(tok) \in Nat /\ padded * DcpSize = DcpSize * padded
  BY <1>1, <1>2, MulStep
<1>5. padded * Owner(tok) + place < DcpSize * padded
  BY <1>1, <1>2, <1>4
<1>6. /\ (padded * Owner(tok) + place) \div padded = Owner(tok)
      /\ (padded * Owner(tok) + place) % padded = place
  BY <1>1, <1>2, DivUnique
<1> QED BY <1>2, <1>3, <1>4, <1>5, <1>6 DEF place

\* Lengths and starts of every rank for a batch of n requests, and a padded
\* size that the total of no rank exceeds.
BatchLayout(n, len, lens, starts, padded) ==
  /\ n \in Nat /\ len \in [0 .. n - 1 -> Nat] /\ padded \in Nat
  /\ \A r \in Ranks : /\ lens[r] = [q \in 0 .. n - 1 |-> LocalLen(len[q], r)]
                      /\ RunningSum(starts[r], lens[r], n)
                      /\ starts[r][n] <= padded

\* In such a batch every token of a request has its place.
LEMMA TokenFits ==
  ASSUME NEW n, NEW len, NEW lens, NEW starts, NEW padded,
         BatchLayout(n, len, lens, starts, padded),
         NEW q \in 0 .. n - 1, NEW tok \in Nat, tok < len[q]
  PROVE  /\ Owner(tok) \in Ranks
         /\ starts[Owner(tok)][q] \in Nat
         /\ LocalIndex(tok) < lens[Owner(tok)][q]
         /\ lens[Owner(tok)] \in [0 .. n - 1 -> Nat]
         /\ starts[Owner(tok)][q] + lens[Owner(tok)][q] <= starts[Owner(tok)][n]
         /\ starts[Owner(tok)][q] + LocalIndex(tok) < padded
<1> DEFINE r == Owner(tok)
<1>1. r \in Ranks /\ LocalIndex(tok) \in Nat
  BY TokenRoundTrip
<1>2. LocalIndex(tok) < LocalLen(len[q], r)
  BY LengthTestIsExact, len[q] \in Nat DEF BatchLayout
<1> HIDE DEF r
<1>3. /\ n \in Nat /\ lens[r] = [p \in 0 .. n - 1 |-> LocalLen(len[p], r)]
      /\ RunningSum(starts[r], lens[r], n) /\ starts[r][n] <= padded /\ padded \in Nat
      /\ len \in [0 .. n - 1 -> Nat]
  BY <1>1 DEF BatchLayout
<1>4. lens[r] \in [0 .. n - 1 -> Nat]
  BY <1>1, <1>3, LocalLenBounds
<1>5. lens[r][q] = LocalLen(len[q], r) /\ lens[r][q] \in Nat
  BY <1>3, <1>4
<1>6. starts[r][q] \in Nat /\ starts[r][n] \in Nat
  BY <1>3, <1>4, StartsAreNumbers, q \in 0 .. n, n \in 0 .. n
<1>7. starts[r][q] + lens[r][q] <= starts[r][n]
  <2> DEFINE s == starts[r]
             l == lens[r]
  <2>1. RunningSum(s, l, n) /\ l \in [0 .. n - 1 -> Nat] /\ n \in Nat
    BY <1>3, <1>4
  <2> HIDE DEF s, l
  <2>2. s[q] + l[q] <= s[n]
    BY <2>1, RequestFits
  <2> QED BY <2>2 DEF s, l
<1>8. LocalIndex(tok) < lens[r][q]
  BY <1>2, <1>5
<1>9. starts[r][q] + LocalIndex(tok) < padded
  BY <1>1, <1>3, <1>5, <1>6, <1>7, <1>8
<1> QED BY <1>1, <1>4, <1>6, <1>7, <1>8, <1>9 DEF r

\* No two tokens of a batch, of the same or of different requests, share a
\* slot of the gathered buffer, and every slot lies inside it.
THEOREM SlotsAreDisjoint ==
  ASSUME NEW n, NEW len, NEW lens, NEW starts, NEW padded,
         BatchLayout(n, len, lens, starts, padded),
         NEW p \in 0 .. n - 1, NEW a \in Nat, a < len[p],
         NEW q \in 0 .. n - 1, NEW b \in Nat, b < len[q],
         GatheredSlot(a, starts[Owner(a)][p], padded)
           = GatheredSlot(b, starts[Owner(b)][q], padded)
  PROVE  p = q /\ a = b /\ GatheredSlot(a, starts[Owner(a)][p], padded) < DcpSize * padded
<1>1. n \in Nat /\ padded \in Nat
  BY DEF BatchLayout
<1>2. /\ Owner(a) \in Ranks /\ starts[Owner(a)][p] \in Nat
      /\ LocalIndex(a) < lens[Owner(a)][p]
      /\ lens[Owner(a)] \in [0 .. n - 1 -> Nat]
      /\ starts[Owner(a)][p] + LocalIndex(a) < padded
  BY TokenFits
<1>3. /\ starts[Owner(b)][q] \in Nat
      /\ LocalIndex(b) < lens[Owner(b)][q]
      /\ starts[Owner(b)][q] + LocalIndex(b) < padded
  BY TokenFits
<1>4. /\ GatheredSlot(a, starts[Owner(a)][p], padded) \div padded = Owner(a)
      /\ GatheredSlot(a, starts[Owner(a)][p], padded) % padded
           = starts[Owner(a)][p] + LocalIndex(a)
      /\ GatheredSlot(a, starts[Owner(a)][p], padded) < DcpSize * padded
  BY <1>1, <1>2, SlotSplits
<1>5. /\ GatheredSlot(b, starts[Owner(b)][q], padded) \div padded = Owner(b)
      /\ GatheredSlot(b, starts[Owner(b)][q], padded) % padded
           = starts[Owner(b)][q] + LocalIndex(b)
  BY <1>1, <1>3, SlotSplits
<1>6. Owner(a) = Owner(b)
  BY <1>4, <1>5
<1> DEFINE s == starts[Owner(a)]
           l == lens[Owner(a)]
<1>7. s[p] + LocalIndex(a) = s[q] + LocalIndex(b)
  BY <1>4, <1>5, <1>6
<1>8. RunningSum(s, l, n)
  BY <1>2 DEF BatchLayout
<1>9. /\ LocalIndex(a) \in Nat /\ LocalIndex(b) \in Nat
      /\ s[p] \in Nat /\ s[q] \in Nat /\ l[p] \in Nat /\ l[q] \in Nat
      /\ LocalIndex(a) < l[p] /\ LocalIndex(b) < l[q] /\ l \in [0 .. n - 1 -> Nat]
  BY <1>2, <1>3, <1>6, TokenRoundTrip
<1> HIDE DEF s, l
<1>10. p < q => s[p] + l[p] <= s[q]
  BY <1>1, <1>8, <1>9, RequestsInOrder, q \in 0 .. n
<1>11. q < p => s[q] + l[q] <= s[p]
  BY <1>1, <1>8, <1>9, RequestsInOrder, p \in 0 .. n
<1>12. p = q
  <2>1. ~ (p < q)
    BY <1>7, <1>9, <1>10
  <2>2. ~ (q < p)
    BY <1>7, <1>9, <1>11
  <2>3. p \in Nat /\ q \in Nat
    BY <1>1
  <2> QED BY <2>1, <2>2, <2>3
<1>13. LocalIndex(a) = LocalIndex(b)
  BY <1>7, <1>9, <1>12
<1>14. a = b
  BY <1>6, <1>13, TokenRoundTrip
<1> QED BY <1>4, <1>12, <1>14

\* The gather delivers: when every rank's part holds, request after request,
\* the records of the tokens it keeps, and the gathered buffer is the parts in
\* rank order, then the slot the remap selects for a token holds the record of
\* that token.
THEOREM SlotHoldsRecord ==
  ASSUME NEW n, NEW len, NEW lens, NEW starts, NEW padded,
         BatchLayout(n, len, lens, starts, padded),
         NEW record, NEW part, NEW gathered,
         \A r \in Ranks : \A q \in 0 .. n - 1 : \A i \in Nat :
           i < lens[r][q] => part[r][starts[r][q] + i] = record[q][GlobalPosition(i, r)],
         \A i \in Nat : i < DcpSize * padded =>
           gathered[i] = part[i \div padded][i % padded],
         NEW q \in 0 .. n - 1, NEW tok \in Nat, tok < len[q]
  PROVE  gathered[GatheredSlot(tok, starts[Owner(tok)][q], padded)] = record[q][tok]
<1> DEFINE r == Owner(tok)
           slot == GatheredSlot(tok, starts[r][q], padded)
<1>1. /\ r \in Ranks /\ starts[r][q] \in Nat /\ LocalIndex(tok) < lens[r][q]
      /\ starts[r][q] + LocalIndex(tok) < padded /\ padded \in Nat
  BY TokenFits DEF BatchLayout
<1>2. /\ slot \in Nat /\ slot < DcpSize * padded
      /\ slot \div padded = r /\ slot % padded = starts[r][q] + LocalIndex(tok)
  BY <1>1, SlotSplits
<1> HIDE DEF slot
<1>3. gathered[slot] = part[r][starts[r][q] + LocalIndex(tok)]
  BY <1>2
<1>4. LocalIndex(tok) \in Nat /\ GlobalPosition(LocalIndex(tok), r) = tok
  BY TokenRoundTrip
<1>5. part[r][starts[r][q] + LocalIndex(tok)] = record[q][tok]
  BY <1>1, <1>4
<1> QED BY <1>3, <1>5 DEF slot

-----------------------------------------------------------------------------
(***************************************************************************)
(* The arena is large enough.                                              *)
(***************************************************************************)

\* Division is monotone.
LEMMA DivMono ==
  ASSUME NEW a \in Nat, NEW b \in Nat, NEW y \in Nat \ {0}, a <= b
  PROVE  a \div y <= b \div y
<1>1. /\ a \div y \in Nat /\ a % y \in 0 .. y - 1 /\ a = y * (a \div y) + (a % y)
      /\ b \div y \in Nat /\ b % y \in 0 .. y - 1 /\ b = y * (b \div y) + (b % y)
  BY DivMod
<1> DEFINE qa == a \div y
           qb == b \div y
<1>2. qa \in Nat /\ qb \in Nat /\ y * qa <= a /\ b < y * qb + y
      /\ y * qa \in Nat /\ y * qb \in Nat
  BY <1>1
<1> HIDE DEF qa, qb
<1>3. qb < qa => y * qb + y <= y * qa
  BY <1>2, MulStep
<1>4. ~ (qb < qa)
  BY <1>2, <1>3
<1> QED BY <1>2, <1>4 DEF qa, qb

\* Cdiv rounds up.
LEMMA CdivCovers ==
  ASSUME NEW x \in Nat, NEW y \in Nat \ {0}
  PROVE  Cdiv(x, y) \in Nat /\ x <= y * Cdiv(x, y)
<1> DEFINE a == x + y - 1
           q == a \div y
<1>1. a \in Nat
  OBVIOUS
<1> HIDE DEF a
<1>2. q \in Nat /\ a % y \in 0 .. y - 1 /\ a = y * q + (a % y)
  BY <1>1, DivMod
<1>3. y * q \in Nat
  BY <1>2
<1> HIDE DEF q
<1>4. x <= y * q
  BY <1>2, <1>3 DEF a
<1> QED BY <1>2, <1>4 DEF a, q, Cdiv

\* A rank keeps at most its even share of a request and one run more.
LEMMA ShareOfRequest ==
  ASSUME NEW len \in Nat, NEW rank \in Ranks
  PROVE  DcpSize * LocalLen(len, rank) <= len + Stride
<1> DEFINE q == len \div Stride
<1>1. DcpSize \in Nat /\ Interleave \in Nat /\ Stride \in Nat \ {0}
  BY SizesAssumption, StrideIsPositive
<1>2. q \in Nat /\ Stride * q <= len /\ Stride * q \in Nat
  BY <1>1, DivMod
<1>3. LocalLen(len, rank) \in Nat /\ LocalLen(len, rank) <= q * Interleave + Interleave
  BY LocalLenBounds
<1> HIDE DEF q
<1>4. q * Interleave + Interleave \in Nat
  BY <1>1, <1>2
<1>5. DcpSize * LocalLen(len, rank) <= DcpSize * (q * Interleave + Interleave)
  BY <1>1, <1>3, <1>4, MulMono
<1>6. DcpSize * (q * Interleave + Interleave) = Stride * q + Stride
  <2>1. DcpSize * (q * Interleave) = Stride * q
    BY <1>1, <1>2 DEF Stride
  <2>2. q * Interleave \in Nat
    BY <1>1, <1>2
  <2>3. DcpSize * (q * Interleave + Interleave)
          = DcpSize * (q * Interleave) + DcpSize * Interleave
    BY <1>1, <2>2
  <2> QED BY <2>1, <2>3 DEF Stride
<1>7. DcpSize * LocalLen(len, rank) \in Nat
  BY <1>1, <1>3
<1> QED BY <1>1, <1>2, <1>5, <1>6, <1>7

\* Over a batch the excess is at most one run for each request.
LEMMA ShareOfBatch ==
  ASSUME NEW n \in Nat, NEW len \in [0 .. n - 1 -> Nat], NEW rank \in Ranks,
         NEW lens, lens = [q \in 0 .. n - 1 |-> LocalLen(len[q], rank)],
         NEW starts, RunningSum(starts, lens, n),
         NEW total, RunningSum(total, len, n)
  PROVE  DcpSize * starts[n] <= total[n] + n * Stride
<1> DEFINE T == {k \in Nat : k <= n => DcpSize * starts[k] <= total[k] + k * Stride}
<1>1. DcpSize \in Nat /\ Stride \in Nat
  BY SizesAssumption, StrideIsPositive
<1>2. lens \in [0 .. n - 1 -> Nat]
  BY LocalLenBounds
<1>3. \A k \in 0 .. n : starts[k] \in Nat /\ total[k] \in Nat
  BY <1>2, StartsAreNumbers
<1>4. 0 \in T
  BY <1>1 DEF RunningSum
<1>5. ASSUME NEW k \in T PROVE k + 1 \in T
  <2>1. SUFFICES ASSUME k + 1 <= n
                 PROVE  DcpSize * starts[k + 1] <= total[k + 1] + (k + 1) * Stride
    OBVIOUS
  <2>2. k \in 0 .. n - 1 /\ k \in 0 .. n /\ k \in Nat
    BY <1>5, <2>1
  <2>3. DcpSize * starts[k] <= total[k] + k * Stride
    BY <1>5, <2>2
  <2>4. starts[k + 1] = starts[k] + lens[k] /\ total[k + 1] = total[k] + len[k]
    BY <2>2 DEF RunningSum
  <2>5. DcpSize * lens[k] <= len[k] + Stride
    BY <2>2, ShareOfRequest
  <2>6. /\ starts[k] \in Nat /\ total[k] \in Nat /\ lens[k] \in Nat /\ len[k] \in Nat
        /\ DcpSize * starts[k] \in Nat /\ DcpSize * lens[k] \in Nat /\ k * Stride \in Nat
    BY <1>1, <1>2, <1>3, <2>2
  <2>7. /\ DcpSize * (starts[k] + lens[k]) = DcpSize * starts[k] + DcpSize * lens[k]
        /\ (k + 1) * Stride = k * Stride + Stride
    BY <1>1, <2>2, <2>6
  <2> DEFINE kept == DcpSize * starts[k]
             more == DcpSize * lens[k]
             slack == k * Stride
  <2>8. /\ kept \in Nat /\ more \in Nat /\ slack \in Nat
        /\ kept <= total[k] + slack /\ more <= len[k] + Stride
        /\ total[k] \in Nat /\ len[k] \in Nat /\ Stride \in Nat
    BY <1>1, <2>3, <2>5, <2>6
  <2>9. DcpSize * starts[k + 1] = kept + more /\ (k + 1) * Stride = slack + Stride
    BY <2>4, <2>7
  <2> HIDE DEF kept, more, slack
  <2>10. kept + more <= (total[k] + len[k]) + (slack + Stride)
    BY <2>8, AddBounds
  <2> QED BY <2>4, <2>9, <2>10
<1>6. T \subseteq Nat
  OBVIOUS
<1> HIDE DEF T
<1>7. T = Nat
  BY <1>4, <1>5, <1>6, SetInduction
<1> QED BY <1>7 DEF T

\* A batch within the configured number of tokens and requests always fits
\* the arena: the capacity test of the eligibility never refuses it, and the
\* gather never writes past a rank's part.
THEOREM CapacitySuffices ==
  ASSUME NEW n \in Nat, NEW len \in [0 .. n - 1 -> Nat], NEW rank \in Ranks,
         NEW lens, lens = [q \in 0 .. n - 1 |-> LocalLen(len[q], rank)],
         NEW starts, RunningSum(starts, lens, n),
         NEW total, RunningSum(total, len, n),
         n <= MaxSeqs, total[n] <= MaxTokens
  PROVE  PadToBlock(starts[n]) <= LocalCapacity
<1> DEFINE c == Cdiv(MaxTokens, DcpSize)
           room == c + MaxSeqs * Interleave
<1>1. /\ DcpSize \in Nat \ {0} /\ Interleave \in Nat /\ BlockSize \in Nat \ {0}
      /\ MaxTokens \in Nat /\ MaxSeqs \in Nat /\ Stride \in Nat
  BY SizesAssumption, StrideIsPositive
<1>2. c \in Nat /\ MaxTokens <= DcpSize * c
  BY <1>1, CdivCovers
<1> HIDE DEF c
<1>3. starts[n] \in Nat /\ total[n] \in Nat
  BY StartsAreNumbers, LocalLenBounds, n \in 0 .. n
<1>4. DcpSize * starts[n] <= total[n] + n * Stride
  BY ShareOfBatch
<1>5. n * Stride <= MaxSeqs * Stride
  <2>1. Stride * n <= Stride * MaxSeqs
    BY <1>1, MulMono
  <2> QED BY <1>1, <2>1
<1>6. MaxSeqs * Stride = DcpSize * (MaxSeqs * Interleave)
  BY <1>1 DEF Stride
<1>7. room \in Nat /\ DcpSize * room = DcpSize * c + DcpSize * (MaxSeqs * Interleave)
  <2>1. MaxSeqs * Interleave \in Nat
    BY <1>1
  <2> QED BY <1>1, <1>2, <2>1
<1> HIDE DEF room
<1>8. DcpSize * starts[n] <= DcpSize * room
  <2>1. DcpSize * starts[n] \in Nat /\ n * Stride \in Nat /\ MaxSeqs * Stride \in Nat
        /\ DcpSize * c \in Nat
    BY <1>1, <1>2, <1>3
  <2> DEFINE kept == DcpSize * starts[n]
             slack == n * Stride
             most == MaxSeqs * Stride
             even == DcpSize * c
  <2>2. /\ kept \in Nat /\ slack \in Nat /\ most \in Nat /\ even \in Nat
        /\ kept <= total[n] + slack /\ slack <= most /\ MaxTokens <= even
        /\ DcpSize * room = even + most
    BY <1>2, <1>4, <1>5, <1>6, <1>7, <2>1
  <2> HIDE DEF kept, slack, most, even
  <2>3. kept <= even + most
    BY <1>1, <1>3, <2>2
  <2> QED BY <2>2, <2>3 DEF kept
<1>9. starts[n] <= room
  <2>1. room < starts[n] => DcpSize * room + DcpSize <= DcpSize * starts[n]
    BY <1>1, <1>3, <1>7, MulStep
  <2>2. DcpSize * room \in Nat /\ DcpSize * starts[n] \in Nat
    BY <1>1, <1>3, <1>7
  <2> QED BY <1>1, <1>3, <1>7, <1>8, <2>1, <2>2
<1>10. Cdiv(starts[n], BlockSize) <= Cdiv(room, BlockSize)
  <2>1. starts[n] + BlockSize - 1 \in Nat /\ room + BlockSize - 1 \in Nat
        /\ starts[n] + BlockSize - 1 <= room + BlockSize - 1
    BY <1>1, <1>3, <1>7, <1>9
  <2> QED BY <1>1, <2>1, DivMono DEF Cdiv
<1>11. Cdiv(starts[n], BlockSize) * BlockSize <= Cdiv(room, BlockSize) * BlockSize
  <2>1. Cdiv(starts[n], BlockSize) \in Nat /\ Cdiv(room, BlockSize) \in Nat
    BY <1>1, <1>3, <1>7, CdivCovers
  <2>2. BlockSize * Cdiv(starts[n], BlockSize) <= BlockSize * Cdiv(room, BlockSize)
    BY <1>1, <1>10, <2>1, MulMono
  <2> QED BY <1>1, <2>1, <2>2
<1> QED BY <1>11 DEF PadToBlock, LocalCapacity, room, c
=============================================================================
