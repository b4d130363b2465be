------------------------- MODULE BatchBalance_proofs -------------------------
(***************************************************************************)
(* Proofs about the division of a batch among the ranks, for every number  *)
(* of ranks, mini-batch, and batch: how much padding there is, that the    *)
(* method cuts the sorted rows into states and merges them without losing  *)
(* a row, and that the shares are equally large and balanced.              *)
(***************************************************************************)
EXTENDS BatchBalance, FiniteSetTheorems, SequenceTheorems, WellFoundedInduction, TLAPS

USE DEF balanceVars

-----------------------------------------------------------------------------
(* Quotients and remainders, for the provers.                              *)

LEMMA Division ==
    ASSUME NEW a \in Int, NEW b \in Nat \ {0}
    PROVE  a = b * (a \div b) + (a % b) /\ a % b \in 0 .. b - 1 /\ a \div b \in Int
OBVIOUS

LEMMA ProductSign ==
    ASSUME NEW b \in Nat \ {0}, NEW d \in Int, b * d < b, -b < b * d
    PROVE  d = 0
<1>1. CASE d >= 1 BY <1>1
<1>2. CASE d <= -1 BY <1>2
<1>3. QED BY <1>1, <1>2

LEMMA MultipleMod ==
    ASSUME NEW b \in Nat \ {0}, NEW k \in Int
    PROVE  (b * k) % b = 0 /\ (b * k) \div b = k
<1> DEFINE a == b * k
           q == a \div b
           r == a % b
<1>1. a \in Int OBVIOUS
<1>2. a = b * q + r /\ r \in 0 .. b - 1 /\ q \in Int BY <1>1, Division
<1> HIDE DEF q, r
<1>3. r = b * (k - q) /\ k - q \in Int BY <1>2
<1>4. k - q = 0 BY <1>2, <1>3, ProductSign
<1>5. r = 0 /\ q = k BY <1>2, <1>3, <1>4
<1>6. QED BY <1>5 DEF q, r

LEMMA IsMultiple ==
    ASSUME NEW a \in Int, NEW b \in Nat \ {0}, a % b = 0
    PROVE  a = b * (a \div b) /\ a \div b \in Int
BY Division

-----------------------------------------------------------------------------
(* The padding.                                                            *)

\* A batch may be divided by the least common multiple.
LEMMA RequiredLeast ==
    /\ RequiredMultiple \in Nat \ {0} /\ Multiple(RequiredMultiple)
    /\ \A k \in 1 .. RequiredMultiple - 1 : ~Multiple(k)
<1> DEFINE T == {m \in 1 .. Ranks * MiniBatch : Multiple(m)}
           R == OpToRel(<, Nat)
<1>1. Ranks \in Nat \ {0} /\ MiniBatch \in Nat \ {0} BY BalanceAssumption
<1>2. Ranks * MiniBatch \in T
  <2>1. Ranks * MiniBatch \in Nat \ {0} BY <1>1
  <2>2. (Ranks * MiniBatch) % Ranks = 0 BY <1>1, MultipleMod
  <2>3. (MiniBatch * Ranks) % MiniBatch = 0 BY <1>1, MultipleMod
  <2>4. MiniBatch * Ranks = Ranks * MiniBatch BY <1>1
  <2>5. QED BY <2>1, <2>2, <2>3, <2>4 DEF Multiple
<1>3. T \subseteq Nat /\ T # {} BY <1>2
<1> HIDE DEF T
<1>4. PICK m \in T : \A k \in T : <<k, m>> \notin R
  <2>1. IsWellFoundedOn(R, Nat) BY NatLessThanWellFounded
  <2> HIDE DEF R
  <2>2. QED BY <1>3, <2>1, WFMin
<1>5. \A k \in T : ~(k < m) BY <1>3, <1>4 DEF OpToRel
<1>6. m \in 1 .. Ranks * MiniBatch /\ Multiple(m) BY DEF T
<1>7. \A k \in 1 .. m - 1 : ~Multiple(k)
  <2> SUFFICES ASSUME NEW k \in 1 .. m - 1, Multiple(k) PROVE FALSE
    OBVIOUS
  <2>1. k \in 1 .. Ranks * MiniBatch /\ k < m BY <1>1, <1>6
  <2>2. k \in T BY <2>1 DEF T
  <2>3. QED BY <1>5, <2>1, <2>2
<1>8. /\ RequiredMultiple \in 1 .. Ranks * MiniBatch /\ Multiple(RequiredMultiple)
      /\ \A k \in 1 .. RequiredMultiple - 1 : ~Multiple(k)
  BY <1>6, <1>7 DEF RequiredMultiple
<1>9. QED BY <1>1, <1>8

(* The padding fills the batch up to the next multiple, and no further      *)
(* (upsample_batch_to_divisible_size).                                      *)
THEOREM PaddingFits ==
    ASSUME NEW n \in Nat
    PROVE  /\ PadSize(n) \in 0 .. RequiredMultiple - 1
           /\ (n + PadSize(n)) % RequiredMultiple = 0
<1> DEFINE m == RequiredMultiple
           q == (-n) \div m
<1>1. m \in Nat \ {0} BY RequiredLeast
<1> HIDE DEF m
<1>2. -n = m * q + PadSize(n) /\ PadSize(n) \in 0 .. m - 1 /\ q \in Int
  BY <1>1, Division DEF PadSize, m
<1> HIDE DEF q
<1>3. n + PadSize(n) = m * (-q) BY <1>1, <1>2
<1>4. (m * (-q)) % m = 0
  <2>1. -q \in Int BY <1>2
  <2>2. QED BY <1>1, <2>1, MultipleMod
<1>5. QED BY <1>2, <1>3, <1>4 DEF m

\* What is divided among the mini-batches can be divided among the ranks.
LEMMA RanksDivide ==
    ASSUME NEW n \in Nat, n % RequiredMultiple = 0
    PROVE  n = Ranks * (n \div Ranks) /\ n \div Ranks \in Nat
<1> DEFINE m == RequiredMultiple
<1>1. m \in Nat \ {0} /\ m % Ranks = 0 /\ Ranks \in Nat \ {0}
  BY RequiredLeast, BalanceAssumption DEF Multiple
<1>2. n % m = 0 OBVIOUS
<1> HIDE DEF m
<1>3. PICK k \in Int : n = m * k
  <2>1. n \in Int OBVIOUS
  <2>2. n = m * (n \div m) /\ n \div m \in Int BY <1>1, <1>2, <2>1, IsMultiple
  <2>3. QED BY <2>2
<1>4. PICK j \in Int : m = Ranks * j BY <1>1, IsMultiple
<1>5. n = Ranks * (j * k) /\ j * k \in Int BY <1>1, <1>3, <1>4
<1>6. n % Ranks = 0 /\ n \div Ranks = j * k BY <1>1, <1>5, MultipleMod
<1>7. j * k >= 0
  <2>1. CASE j * k <= -1
    <3> DEFINE d == j * k
    <3>1. d \in Int /\ d <= -1 BY <1>5, <2>1
    <3> HIDE DEF d
    <3>2. Ranks * d < 0 BY <1>1, <3>1
    <3>3. QED BY <1>5, <3>2 DEF d
  <2>2. QED BY <1>5, <2>1
<1>8. QED BY <1>5, <1>6, <1>7
-----------------------------------------------------------------------------
(* The rows in the order of their work.                                    *)

RowType == rows \in Seq([prompt : Nat, length : Nat])

Before(i, j) == Work(i) < Work(j) \/ (Work(i) = Work(j) /\ i < j)
Lower(i) == {j \in DOMAIN rows : Before(j, i)}

\* The row at position k of the order.
At(k) == CHOOSE i \in DOMAIN rows : Cardinality(Lower(i)) = k - 1

LEMMA RowTypes ==
    ASSUME RowType
    PROVE  /\ Len(rows) \in Nat /\ DOMAIN rows = 1 .. Len(rows)
           /\ IsFiniteSet(DOMAIN rows) /\ Cardinality(DOMAIN rows) = Len(rows)
           /\ \A i \in DOMAIN rows : Work(i) \in Nat
<1>1. Len(rows) \in Nat /\ DOMAIN rows = 1 .. Len(rows) BY DEF RowType
<1>2. /\ IsFiniteSet(1 .. Len(rows))
      /\ Cardinality(1 .. Len(rows)) = IF 1 > Len(rows) THEN 0 ELSE Len(rows) - 1 + 1
  BY <1>1, FS_Interval
<1>3. ASSUME NEW i \in DOMAIN rows PROVE Work(i) \in Nat
  <2>1. rows[i] \in [prompt : Nat, length : Nat]
    <3> DEFINE S == [prompt : Nat, length : Nat]
    <3>1. rows \in Seq(S) BY DEF RowType
    <3> HIDE DEF S
    <3>2. rows[i] \in S BY <3>1
    <3>3. QED BY <3>2 DEF S
  <2>2. rows[i].length \in Nat BY <2>1
  <2>3. rows[i].length * rows[i].length \in Nat BY <2>2
  <2>4. QED BY <2>2, <2>3 DEF Work
<1>4. QED BY <1>1, <1>2, <1>3

LEMMA LowerFinite ==
    ASSUME RowType, NEW i \in DOMAIN rows
    PROVE  IsFiniteSet(Lower(i)) /\ Cardinality(Lower(i)) \in 0 .. Len(rows) - 1
<1>1. /\ IsFiniteSet(DOMAIN rows) /\ Cardinality(DOMAIN rows) = Len(rows) /\ Len(rows) \in Nat
      /\ DOMAIN rows = 1 .. Len(rows) /\ Work(i) \in Nat
  BY RowTypes
<1>2. Lower(i) \subseteq DOMAIN rows /\ i \notin Lower(i) BY <1>1 DEF Lower, Before
<1>3. /\ IsFiniteSet(Lower(i)) /\ Cardinality(Lower(i)) <= Cardinality(DOMAIN rows)
      /\ Cardinality(DOMAIN rows) = Cardinality(Lower(i)) => DOMAIN rows = Lower(i)
  BY <1>1, <1>2, FS_Subset
<1>4. Cardinality(Lower(i)) \in Nat BY <1>3, FS_CardinalityType
<1>5. QED BY <1>1, <1>2, <1>3, <1>4

LEMMA LowerGrows ==
    ASSUME RowType, NEW i \in DOMAIN rows, NEW j \in DOMAIN rows, Before(i, j)
    PROVE  Cardinality(Lower(i)) < Cardinality(Lower(j))
<1>1. DOMAIN rows = 1 .. Len(rows) /\ Len(rows) \in Nat /\ \A k \in DOMAIN rows : Work(k) \in Nat
  BY RowTypes
<1>2. Lower(i) \subseteq Lower(j) BY <1>1 DEF Lower, Before
<1>3. i \in Lower(j) /\ i \notin Lower(i) BY <1>1 DEF Lower, Before
<1>4. /\ IsFiniteSet(Lower(j)) /\ Cardinality(Lower(j)) \in Int /\ Cardinality(Lower(i)) \in Int
  BY LowerFinite
<1>5. /\ Cardinality(Lower(i)) <= Cardinality(Lower(j))
      /\ Cardinality(Lower(j)) = Cardinality(Lower(i)) => Lower(j) = Lower(i)
  BY <1>2, <1>4, FS_Subset
<1>6. QED BY <1>3, <1>4, <1>5

\* Two rows are never equal in the order.
LEMMA Ordered ==
    ASSUME RowType, NEW i \in DOMAIN rows, NEW j \in DOMAIN rows, i # j
    PROVE  Before(i, j) \/ Before(j, i)
<1>1. DOMAIN rows = 1 .. Len(rows) /\ Len(rows) \in Nat /\ Work(i) \in Nat /\ Work(j) \in Nat
  BY RowTypes
<1>2. QED BY <1>1 DEF Before

(* The order has one row at each position, and the work never falls.        *)
LEMMA Places ==
    ASSUME RowType
    PROVE  /\ \A k \in 1 .. Len(rows) : At(k) \in DOMAIN rows
           /\ \A i \in DOMAIN rows : \E k \in 1 .. Len(rows) : At(k) = i
           /\ \A k, l \in 1 .. Len(rows) : At(k) = At(l) => k = l
           /\ \A k, l \in 1 .. Len(rows) : k <= l => Work(At(k)) <= Work(At(l))
<1> DEFINE n == Len(rows)
           rank == [i \in DOMAIN rows |-> Cardinality(Lower(i))]
<1>1. /\ n \in Nat /\ DOMAIN rows = 1 .. n /\ Cardinality(DOMAIN rows) = n
      /\ \A i \in DOMAIN rows : Work(i) \in Nat
  BY RowTypes
<1>2. \A i \in DOMAIN rows : rank[i] \in 0 .. n - 1 BY LowerFinite
<1>3. \A i, j \in DOMAIN rows : rank[i] = rank[j] => i = j
  <2> SUFFICES ASSUME NEW i \in DOMAIN rows, NEW j \in DOMAIN rows, i # j
               PROVE  rank[i] # rank[j]
    OBVIOUS
  <2>1. CASE Before(i, j) BY <2>1, <1>2, LowerGrows
  <2>2. CASE Before(j, i) BY <2>2, <1>2, LowerGrows
  <2>3. QED BY <2>1, <2>2, Ordered
<1>4. rank \in Injection(DOMAIN rows, 0 .. n - 1)
  <2>1. rank \in [DOMAIN rows -> 0 .. n - 1] BY <1>2
  <2> HIDE DEF rank
  <2>2. QED BY <1>3, <2>1 DEF Injection, IsInjective
<1>5. /\ IsFiniteSet(0 .. n - 1) /\ Cardinality(0 .. n - 1) = n
  <2>1. 0 \in Int /\ n - 1 \in Int BY <1>1
  <2>2. /\ IsFiniteSet(0 .. n - 1)
        /\ Cardinality(0 .. n - 1) = IF 0 > n - 1 THEN 0 ELSE n - 1 - 0 + 1
    BY <2>1, FS_Interval
  <2>3. QED BY <1>1, <2>2
<1>6. rank \in Surjection(DOMAIN rows, 0 .. n - 1)
  BY <1>1, <1>4, <1>5, FS_Injection
<1>7. ASSUME NEW k \in 1 .. n
      PROVE  At(k) \in DOMAIN rows /\ Cardinality(Lower(At(k))) = k - 1
  <2>1. k - 1 \in 0 .. n - 1 BY <1>1
  <2>2. \E i \in DOMAIN rows : rank[i] = k - 1 BY <1>6, <2>1 DEF Surjection
  <2>3. \E i \in DOMAIN rows : Cardinality(Lower(i)) = k - 1 BY <2>2
  <2>4. QED BY <2>3 DEF At
<1>8. ASSUME NEW i \in DOMAIN rows PROVE \E k \in 1 .. n : At(k) = i
  <2> DEFINE k == rank[i] + 1
  <2>1. k \in 1 .. n /\ k - 1 = rank[i] BY <1>1, <1>2
  <2>2. At(k) \in DOMAIN rows /\ rank[At(k)] = rank[i] BY <1>7, <2>1
  <2>3. At(k) = i BY <1>3, <2>2
  <2>4. QED BY <2>1, <2>3
<1>9. ASSUME NEW k \in 1 .. n, NEW l \in 1 .. n, At(k) = At(l) PROVE k = l
  BY <1>7, <1>9
<1>10. ASSUME NEW k \in 1 .. n, NEW l \in 1 .. n, k <= l PROVE Work(At(k)) <= Work(At(l))
  <2>1. /\ At(k) \in DOMAIN rows /\ At(l) \in DOMAIN rows
        /\ Cardinality(Lower(At(k))) = k - 1 /\ Cardinality(Lower(At(l))) = l - 1
    BY <1>7
  <2>2. ~Before(At(l), At(k))
    <3> SUFFICES ASSUME Before(At(l), At(k)) PROVE FALSE
      OBVIOUS
    <3>1. l - 1 < k - 1 BY <2>1, LowerGrows
    <3>2. QED BY <1>10, <3>1
  <2>3. QED BY <1>1, <2>1, <2>2 DEF Before
<1>11. QED BY <1>7, <1>8, <1>9, <1>10
-----------------------------------------------------------------------------
(* The states of the partition.                                            *)

Share == [items : SUBSET Int, sum : Nat]

\* A state of the heap: a set for each rank, the one with the most work first.
State == {s \in [1 .. Ranks -> Share] :
             \A i, j \in 1 .. Ranks : i <= j => s[i].sum >= s[j].sum}

EvenState(s) ==
    \A i, j \in 1 .. Ranks : /\ s[i].items \subseteq DOMAIN rows
                             /\ Cardinality(s[i].items) = Cardinality(s[j].items)

NarrowState(s) ==
    \E i, j \in DOMAIN rows :
        /\ Spread(s) <= Work(i) - Work(j)
        /\ Ranks > 1 => Cardinality(Between(i, j)) <= Ranks - 2

\* No row is in two of the sets.
SetsApart ==
    \A s, t \in heap : \A i, j \in 1 .. Ranks :
        s # t \/ i # j => s[i].items \cap t[j].items = {}

\* Every row is in one of them.
RowsCovered ==
    heap # {} => \A k \in DOMAIN rows : \E s \in heap : \E i \in 1 .. Ranks : k \in s[i].items

HeapInv ==
    /\ IsFiniteSet(heap)
    /\ \A s \in heap : s \in State /\ EvenState(s) /\ NarrowState(s)
    /\ SetsApart /\ RowsCovered

\* The place of the i-th set of chunk c in the order of the rows.
Place(c, i) == c * Ranks - i + 1
Chunk(c) == [i \in 1 .. Ranks |-> Single(At(Place(c, i)), Work(At(Place(c, i))))]

LEMMA PlacesCut ==
    ASSUME NEW n \in Nat, n = Ranks * (n \div Ranks), n \div Ranks \in Nat
    PROVE  /\ \A c \in 1 .. n \div Ranks, i \in 1 .. Ranks : Place(c, i) \in 1 .. n
           /\ \A c, d \in 1 .. n \div Ranks, i, j \in 1 .. Ranks :
                  Place(c, i) = Place(d, j) => c = d /\ i = j
           /\ \A k \in 1 .. n : \E c \in 1 .. n \div Ranks, i \in 1 .. Ranks : Place(c, i) = k
<1> DEFINE R == Ranks
           Q == n \div R
<1>0. R \in Nat \ {0} /\ Q \in Nat /\ n = R * Q BY BalanceAssumption
<1> HIDE DEF Q
<1>1. ASSUME NEW c \in 1 .. Q, NEW i \in 1 .. R PROVE Place(c, i) \in 1 .. n
  <2>1. R * (Q - c) >= 0 /\ R * (c - 1) >= 0 BY <1>0
  <2>2. R * (Q - c) = R * Q - R * c /\ R * (c - 1) = R * c - R /\ R * c = c * R /\ R * c \in Int
    BY <1>0
  <2>3. c * R <= n /\ R <= c * R BY <1>0, <2>1, <2>2
  <2>4. QED BY <1>0, <2>2, <2>3 DEF Place
<1>2. ASSUME NEW c \in 1 .. Q, NEW d \in 1 .. Q, NEW i \in 1 .. R, NEW j \in 1 .. R,
             Place(c, i) = Place(d, j)
      PROVE  c = d /\ i = j
  <2>1. c * R = R * c /\ d * R = R * d /\ R * c \in Int /\ R * d \in Int BY <1>0
  <2>2. R * (c - d) = R * c - R * d BY <1>0
  <2>3. R * (c - d) = i - j BY <1>0, <1>2, <2>1, <2>2 DEF Place
  <2>4. c - d \in Int /\ i - j < R /\ -R < i - j BY <1>0
  <2>5. c - d = 0 BY <1>0, <2>3, <2>4, ProductSign
  <2>6. QED BY <1>0, <2>3, <2>5
<1>3. ASSUME NEW k \in 1 .. n PROVE \E c \in 1 .. Q, i \in 1 .. R : Place(c, i) = k
  <2> DEFINE q == (k - 1) \div R
             r == (k - 1) % R
  <2>1. k - 1 \in Int BY <1>0
  <2>2. k - 1 = R * q + r /\ r \in 0 .. R - 1 /\ q \in Int BY <1>0, <2>1, Division
  <2> HIDE DEF q, r
  <2>3. R * q \in Int /\ R * q > -R /\ R * q < R * Q BY <1>0, <2>2
  <2>4. q >= 0
    <3>1. CASE q <= -1
      <4>1. R * (-1 - q) >= 0 BY <1>0, <2>2, <3>1
      <4>2. R * (-1 - q) = -R - R * q BY <1>0, <2>2
      <4>3. QED BY <1>0, <2>3, <4>1, <4>2
    <3>2. QED BY <2>2, <3>1
  <2>5. q < Q
    <3>1. CASE q >= Q
      <4>1. R * (q - Q) >= 0 BY <1>0, <2>2, <3>1
      <4>2. R * (q - Q) = R * q - R * Q BY <1>0, <2>2
      <4>3. QED BY <1>0, <2>3, <4>1, <4>2
    <3>2. QED BY <1>0, <2>2, <3>1
  <2>6. q + 1 \in 1 .. Q /\ R - r \in 1 .. R BY <1>0, <2>2, <2>4, <2>5
  <2>7. (q + 1) * R = R * q + R BY <1>0, <2>2
  <2>8. Place(q + 1, R - r) = k BY <1>0, <2>2, <2>3, <2>7 DEF Place
  <2>9. QED BY <2>6, <2>8
<1>4. QED BY <1>1, <1>2, <1>3 DEF Q

\* The first states, and the rows of their sets.
LEMMA FirstStates ==
    ASSUME RowType, StartPartition, Len(rows) % RequiredMultiple = 0
    PROVE  HeapInv'
<1> DEFINE n == Len(rows)
           Q == n \div Ranks
<1>1. /\ n \in Nat /\ DOMAIN rows = 1 .. n /\ \A i \in DOMAIN rows : Work(i) \in Nat
  BY RowTypes
<1>2. n = Ranks * Q /\ Q \in Nat /\ Ranks \in Nat \ {0}
  BY <1>1, RanksDivide, BalanceAssumption
<1>3. /\ rows' = rows /\ n >= Ranks
      /\ heap' = {Chunk(c) : c \in 1 .. Q}
  BY DEF StartPartition, Chunk, Place, At, Lower, Before
<1>4. /\ \A c \in 1 .. Q, i \in 1 .. Ranks : Place(c, i) \in 1 .. n
      /\ \A c, d \in 1 .. Q, i, j \in 1 .. Ranks : Place(c, i) = Place(d, j) => c = d /\ i = j
      /\ \A k \in 1 .. n : \E c \in 1 .. Q, i \in 1 .. Ranks : Place(c, i) = k
  BY <1>1, <1>2, PlacesCut
<1>5. /\ \A k \in 1 .. n : At(k) \in DOMAIN rows
      /\ \A i \in DOMAIN rows : \E k \in 1 .. n : At(k) = i
      /\ \A k, l \in 1 .. n : At(k) = At(l) => k = l
      /\ \A k, l \in 1 .. n : k <= l => Work(At(k)) <= Work(At(l))
  BY Places
<1>6. ASSUME NEW c \in 1 .. Q, NEW i \in 1 .. Ranks
      PROVE  /\ Chunk(c)[i].items = {At(Place(c, i))}
             /\ Chunk(c)[i].sum = Work(At(Place(c, i)))
             /\ At(Place(c, i)) \in DOMAIN rows
  <2>1. Chunk(c)[i] = Single(At(Place(c, i)), Work(At(Place(c, i)))) BY DEF Chunk
  <2>2. QED BY <1>4, <1>5, <2>1 DEF Single
<1> HIDE DEF n, Q
<1>7. IsFiniteSet(heap')
  <2>1. IsFiniteSet(1 .. Q) BY <1>2, FS_Interval
  <2> DEFINE f == [c \in 1 .. Q |-> Chunk(c)]
  <2>2. f \in Surjection(1 .. Q, heap') BY <1>3 DEF Surjection
  <2>3. QED BY <2>1, <2>2, FS_Surjection
<1>8. ASSUME NEW c \in 1 .. Q PROVE Chunk(c) \in State
  <2>1. ASSUME NEW i \in 1 .. Ranks PROVE Chunk(c)[i] \in Share
    <3>1. Chunk(c)[i] = Single(At(Place(c, i)), Work(At(Place(c, i)))) BY DEF Chunk
    <3>2. At(Place(c, i)) \in DOMAIN rows BY <1>6
    <3>3. Work(At(Place(c, i))) \in Nat /\ At(Place(c, i)) \in Int BY <1>1, <3>2
    <3>4. QED BY <3>1, <3>3 DEF Single, Share
  <2>2. Chunk(c) \in [1 .. Ranks -> Share] BY <2>1 DEF Chunk
  <2>3. ASSUME NEW i \in 1 .. Ranks, NEW j \in 1 .. Ranks, i <= j
        PROVE  Chunk(c)[i].sum >= Chunk(c)[j].sum
    <3>1. Place(c, j) <= Place(c, i)
      <4>1. c * Ranks \in Int BY <1>2
      <4>2. QED BY <1>2, <2>3, <4>1 DEF Place
    <3>2. Place(c, j) \in 1 .. n /\ Place(c, i) \in 1 .. n BY <1>4
    <3>3. Work(At(Place(c, j))) <= Work(At(Place(c, i))) BY <1>5, <3>1, <3>2
    <3>4. Work(At(Place(c, j))) \in Nat /\ Work(At(Place(c, i))) \in Nat BY <1>1, <1>6
    <3>5. QED BY <1>6, <3>3, <3>4
  <2>4. QED BY <2>2, <2>3 DEF State
<1>9. ASSUME NEW c \in 1 .. Q PROVE EvenState(Chunk(c))
  <2>1. ASSUME NEW i \in 1 .. Ranks PROVE Cardinality(Chunk(c)[i].items) = 1
    <3>1. Chunk(c)[i].items = {At(Place(c, i))} BY <1>6
    <3>2. QED BY <3>1, FS_Singleton
  <2>2. QED BY <1>6, <2>1 DEF EvenState
<1>10. ASSUME NEW c \in 1 .. Q PROVE NarrowState(Chunk(c))
  <2> DEFINE lo == Place(c, Ranks)
             hi == Place(c, 1)
             between == {At(k) : k \in lo + 1 .. hi - 1}
  <2>0. 1 \in 1 .. Ranks /\ Ranks \in 1 .. Ranks BY <1>2
  <2>1. lo \in 1 .. n /\ hi \in 1 .. n /\ hi - lo = Ranks - 1
    <3>1. lo \in 1 .. n /\ hi \in 1 .. n BY <1>4, <2>0
    <3>2. c * Ranks \in Int BY <1>2
    <3>3. QED BY <1>2, <3>1, <3>2 DEF Place
  <2>2. Spread(Chunk(c)) = Work(At(hi)) - Work(At(lo)) BY <1>6, <2>0 DEF Spread
  <2> HIDE DEF lo, hi
  <2>3. /\ At(hi) \in DOMAIN rows /\ At(lo) \in DOMAIN rows
        /\ Work(At(hi)) \in Nat /\ Work(At(lo)) \in Nat
    BY <1>1, <1>5, <2>1
  <2>4. Between(At(hi), At(lo)) \subseteq between
    <3> SUFFICES ASSUME NEW i \in Between(At(hi), At(lo)) PROVE i \in between
      OBVIOUS
    <3>1. i \in DOMAIN rows /\ Work(At(lo)) < Work(i) /\ Work(i) < Work(At(hi)) BY DEF Between
    <3>2. PICK k \in 1 .. n : At(k) = i BY <1>5, <3>1
    <3>3. Work(i) \in Nat /\ n \in Nat BY <1>1, <3>1 DEF n
    <3>4. ~(k <= lo)
      <4>1. k <= lo => Work(i) <= Work(At(lo)) BY <1>5, <2>1, <3>2
      <4>2. QED BY <2>3, <3>1, <3>3, <4>1
    <3>5. ~(hi <= k)
      <4>1. hi <= k => Work(At(hi)) <= Work(i) BY <1>5, <2>1, <3>2
      <4>2. QED BY <2>3, <3>1, <3>3, <4>1
    <3>6. k \in lo + 1 .. hi - 1 BY <2>1, <3>3, <3>4, <3>5
    <3>7. QED BY <3>2, <3>6
  <2>5. IsFiniteSet(between) /\ Cardinality(between) <= Cardinality(lo + 1 .. hi - 1)
    <3>1. n \in Nat BY <1>1 DEF n
    <3>2. IsFiniteSet(lo + 1 .. hi - 1) BY <2>1, <3>1, FS_Interval
    <3> DEFINE f == [k \in lo + 1 .. hi - 1 |-> At(k)]
    <3>3. f \in Surjection(lo + 1 .. hi - 1, between) BY DEF Surjection
    <3>4. QED BY <3>2, <3>3, FS_Surjection
  <2>6. Ranks > 1 => Cardinality(lo + 1 .. hi - 1) = Ranks - 2
    <3>1. n \in Nat BY <1>1 DEF n
    <3>2. lo + 1 \in Int /\ hi - 1 \in Int BY <2>1, <3>1
    <3>3. Cardinality(lo + 1 .. hi - 1) =
            IF lo + 1 > hi - 1 THEN 0 ELSE (hi - 1) - (lo + 1) + 1
      BY <3>2, FS_Interval
    <3>4. QED BY <1>2, <2>1, <3>1, <3>3
  <2> HIDE DEF between
  <2>7. /\ Cardinality(Between(At(hi), At(lo))) <= Cardinality(between)
        /\ Cardinality(Between(At(hi), At(lo))) \in Int /\ Cardinality(between) \in Int
    <3>1. IsFiniteSet(Between(At(hi), At(lo))) BY <2>4, <2>5, FS_Subset
    <3>2. QED BY <2>4, <2>5, <3>1, FS_Subset, FS_CardinalityType
  <2>8. Ranks > 1 => Cardinality(Between(At(hi), At(lo))) <= Ranks - 2
    BY <1>2, <2>5, <2>6, <2>7
  <2>9. Spread(Chunk(c)) <= Work(At(hi)) - Work(At(lo)) BY <2>2, <2>3
  <2>10. QED BY <2>3, <2>8, <2>9 DEF NarrowState
<1>11. ASSUME NEW c \in 1 .. Q, NEW d \in 1 .. Q, NEW i \in 1 .. Ranks, NEW j \in 1 .. Ranks,
              c # d \/ i # j
       PROVE  Chunk(c)[i].items \cap Chunk(d)[j].items = {}
  <2>1. Place(c, i) # Place(d, j) /\ Place(c, i) \in 1 .. n /\ Place(d, j) \in 1 .. n
    BY <1>4, <1>11
  <2>2. At(Place(c, i)) # At(Place(d, j)) BY <1>5, <2>1
  <2>3. QED BY <1>6, <2>2
<1>12. SetsApart'
  <2> SUFFICES ASSUME NEW s \in heap', NEW t \in heap', NEW i \in 1 .. Ranks, NEW j \in 1 .. Ranks,
                      s # t \/ i # j
               PROVE  s[i].items \cap t[j].items = {}
    BY DEF SetsApart
  <2>1. PICK c \in 1 .. Q : s = Chunk(c) BY <1>3
  <2>2. PICK d \in 1 .. Q : t = Chunk(d) BY <1>3
  <2>3. c # d \/ i # j BY <2>1, <2>2
  <2>4. QED BY <1>11, <2>1, <2>2, <2>3
<1>13. RowsCovered'
  <2> SUFFICES ASSUME NEW k \in DOMAIN rows
               PROVE  \E s \in heap' : \E i \in 1 .. Ranks : k \in s[i].items
    BY <1>3 DEF RowsCovered
  <2>1. PICK p \in 1 .. n : At(p) = k BY <1>5
  <2>2. PICK c \in 1 .. Q, i \in 1 .. Ranks : Place(c, i) = p BY <1>4
  <2>3. k \in Chunk(c)[i].items BY <1>6, <2>1, <2>2
  <2>4. QED BY <1>3, <2>3
<1>14. ASSUME NEW s \in heap' PROVE s \in State /\ EvenState(s)' /\ NarrowState(s)'
  <2>1. PICK c \in 1 .. Q : s = Chunk(c) BY <1>3
  <2>2. s \in State /\ EvenState(s) /\ NarrowState(s) BY <1>8, <1>9, <1>10, <2>1
  <2>3. EvenState(s)' BY <1>3, <2>2 DEF EvenState
  <2>4. ASSUME NEW i, NEW j
        PROVE  /\ Work(i)' = Work(i) /\ Work(j)' = Work(j)
               /\ Between(i, j)' = Between(i, j)
    BY <1>3 DEF Work, Between
  <2>5. NarrowState(s)' BY <1>3, <2>2, <2>4 DEF NarrowState, Spread
  <2>6. QED BY <2>2, <2>3, <2>5
<1>15. QED BY <1>7, <1>12, <1>13, <1>14 DEF HeapInv
-----------------------------------------------------------------------------
(* A merge.                                                                *)

(* Merged largest to smallest, two sets differ by no more than they do in   *)
(* one of the two states (State.merge).                                     *)
LEMMA MergedSums ==
    ASSUME NEW s \in State, NEW t \in State, NEW a \in 1 .. Ranks, NEW b \in 1 .. Ranks
    PROVE  /\ Merge(s, t)[a] \in Share
           /\ \/ Merge(s, t)[a].sum - Merge(s, t)[b].sum <= Spread(s)
              \/ Merge(s, t)[a].sum - Merge(s, t)[b].sum <= Spread(t)
<1>0. Ranks \in Nat \ {0} BY BalanceAssumption
<1> DEFINE R == Ranks
<1>1. /\ R + 1 - a \in 1 .. R /\ R + 1 - b \in 1 .. R /\ 1 \in 1 .. R /\ R \in 1 .. R
      /\ 1 <= a /\ a <= R /\ 1 <= b /\ b <= R
  BY <1>0
<1>2. \A i \in 1 .. R : s[i] \in Share /\ t[i] \in Share BY DEF State
<1>3. \A i \in 1 .. R : s[i].sum \in Nat /\ t[i].sum \in Nat BY <1>2 DEF Share
<1>4. \A i \in 1 .. R : /\ Merge(s, t)[i].sum = s[i].sum + t[R + 1 - i].sum
                        /\ Merge(s, t)[i].items = s[i].items \cup t[R + 1 - i].items
  BY DEF Merge, Union2
<1>5. Merge(s, t)[a] \in Share
  <2>1. Merge(s, t)[a] = Union2(s[a], t[R + 1 - a]) BY <1>1 DEF Merge
  <2>2. s[a] \in Share /\ t[R + 1 - a] \in Share BY <1>1, <1>2
  <2>3. QED BY <2>1, <2>2 DEF Union2, Share
<1>6. CASE a <= b
  <2>1. s[a].sum - s[b].sum <= s[1].sum - s[R].sum
    <3>1. s[1].sum >= s[a].sum /\ s[b].sum >= s[R].sum BY <1>1 DEF State
    <3>2. QED BY <1>1, <1>3, <3>1
  <2>2. t[R + 1 - a].sum <= t[R + 1 - b].sum
    <3>1. R + 1 - b <= R + 1 - a BY <1>0, <1>6
    <3>2. QED BY <1>1, <3>1 DEF State
  <2>3. /\ s[a].sum \in Nat /\ s[b].sum \in Nat /\ t[R + 1 - a].sum \in Nat
        /\ t[R + 1 - b].sum \in Nat
    BY <1>1, <1>3
  <2>4. Merge(s, t)[a].sum - Merge(s, t)[b].sum <= s[1].sum - s[R].sum
    BY <1>1, <1>3, <1>4, <2>1, <2>2, <2>3
  <2>5. QED BY <1>5, <2>4 DEF Spread
<1>7. CASE b <= a
  <2>1. t[R + 1 - a].sum - t[R + 1 - b].sum <= t[1].sum - t[R].sum
    <3>1. t[1].sum >= t[R + 1 - a].sum /\ t[R + 1 - b].sum >= t[R].sum
      BY <1>1 DEF State
    <3>2. QED BY <1>1, <1>3, <3>1
  <2>2. s[a].sum <= s[b].sum BY <1>1, <1>7 DEF State
  <2>3. /\ s[a].sum \in Nat /\ s[b].sum \in Nat /\ t[R + 1 - a].sum \in Nat
        /\ t[R + 1 - b].sum \in Nat
    BY <1>1, <1>3
  <2>4. Merge(s, t)[a].sum - Merge(s, t)[b].sum <= t[1].sum - t[R].sum
    BY <1>1, <1>3, <1>4, <2>1, <2>2, <2>3
  <2>5. QED BY <1>5, <2>4 DEF Spread
<1>8. QED BY <1>0, <1>6, <1>7

(* Two states become one of no larger spread than the larger of theirs.     *)
THEOREM MergeNarrows ==
    ASSUME NEW s \in State, NEW t \in State, NEW u \in Sorted(Merge(s, t))
    PROVE  u \in State /\ (Spread(u) <= Spread(s) \/ Spread(u) <= Spread(t))
<1>0. 1 \in 1 .. Ranks /\ Ranks \in 1 .. Ranks BY BalanceAssumption
<1>1. PICK f \in Orders : u = [i \in 1 .. Ranks |-> Merge(s, t)[f[i]]]
  BY DEF Sorted
<1>2. \A i \in 1 .. Ranks : f[i] \in 1 .. Ranks /\ u[i] = Merge(s, t)[f[i]]
  BY <1>1 DEF Orders
<1>3. \A i \in 1 .. Ranks : u[i] \in Share BY <1>2, MergedSums
<1>4. u \in [1 .. Ranks -> Share] BY <1>1, <1>2, <1>3
<1>5. \A i, j \in 1 .. Ranks : i <= j => u[i].sum >= u[j].sum BY DEF Sorted
<1>6. Spread(u) = Merge(s, t)[f[1]].sum - Merge(s, t)[f[Ranks]].sum
  BY <1>0, <1>2 DEF Spread
<1>7. u \in State BY <1>4, <1>5 DEF State
<1>8. f[1] \in 1 .. Ranks /\ f[Ranks] \in 1 .. Ranks BY <1>0, <1>2
<1>9. Spread(u) <= Spread(s) \/ Spread(u) <= Spread(t) BY <1>6, <1>8, MergedSums
<1>10. QED BY <1>7, <1>9

LEMMA SpreadType == \A v \in State : Spread(v) \in Int
<1>1. 1 \in 1 .. Ranks /\ Ranks \in 1 .. Ranks BY BalanceAssumption
<1>2. QED BY <1>1 DEF State, Share, Spread

(* A step of the partition keeps every state within the spread that all of  *)
(* them had (karmarkar_karp): the shares of the ranks at the end differ by  *)
(* no more than the rows of one of the first states did.                    *)
THEOREM StepNarrows ==
    ASSUME NEW W \in Int, MergeStates,
           \A s \in heap : s \in State /\ Spread(s) <= W
    PROVE  \A s \in heap' : s \in State /\ Spread(s) <= W
<1>1. PICK s \in heap, t \in heap :
          \E u \in Sorted(Merge(s, t)) : heap' = (heap \ {s, t}) \cup {u}
  BY DEF MergeStates
<1>2. PICK u \in Sorted(Merge(s, t)) : heap' = (heap \ {s, t}) \cup {u} BY <1>1
<1>3. u \in State /\ (Spread(u) <= Spread(s) \/ Spread(u) <= Spread(t))
  BY MergeNarrows
<1>4. Spread(u) <= W BY <1>3, SpreadType
<1>5. QED BY <1>2, <1>3, <1>4

\* An order of the ranks leaves none out.
LEMMA OrdersOnto ==
    ASSUME NEW f \in Orders, NEW k \in 1 .. Ranks PROVE \E i \in 1 .. Ranks : f[i] = k
<1>1. IsFiniteSet(1 .. Ranks) BY BalanceAssumption, FS_Interval
<1>2. f \in Injection(1 .. Ranks, 1 .. Ranks) BY DEF Orders, Injection, IsInjective
<1>3. f \in Surjection(1 .. Ranks, 1 .. Ranks) BY <1>1, <1>2, FS_Injection
<1>4. QED BY <1>3 DEF Surjection

(* A merge keeps the rows apart and covered, the sets of a state equally    *)
(* large, and the work of the sets within that of neighbouring rows         *)
(* (State.merge, karmarkar_karp).                                           *)
LEMMA MergeKeeps ==
    ASSUME RowType, HeapInv, MergeStates PROVE HeapInv'
<1>1. PICK s \in heap, t \in heap :
          s # t /\ \E u \in Sorted(Merge(s, t)) : heap' = (heap \ {s, t}) \cup {u} /\ rows' = rows
  BY DEF MergeStates
<1>2. PICK u \in Sorted(Merge(s, t)) : heap' = (heap \ {s, t}) \cup {u} /\ rows' = rows
  BY <1>1
<1>3. /\ s \in State /\ t \in State /\ EvenState(s) /\ EvenState(t)
      /\ NarrowState(s) /\ NarrowState(t) /\ t \in heap /\ s # t
  BY <1>1 DEF HeapInv
<1>4. u \in State /\ (Spread(u) <= Spread(s) \/ Spread(u) <= Spread(t)) BY <1>3, MergeNarrows
<1>5. PICK f \in Orders : u = [i \in 1 .. Ranks |-> Merge(s, t)[f[i]]] BY DEF Sorted
<1> DEFINE g(i) == Ranks + 1 - f[i]
<1>6. ASSUME NEW i \in 1 .. Ranks
      PROVE  /\ f[i] \in 1 .. Ranks /\ g(i) \in 1 .. Ranks
             /\ u[i].items = s[f[i]].items \cup t[g(i)].items
  <2>1. f[i] \in 1 .. Ranks BY DEF Orders
  <2>2. u[i] = Merge(s, t)[f[i]] BY <1>5
  <2>3. u[i] = Union2(s[f[i]], t[g(i)]) BY <2>1, <2>2 DEF Merge
  <2>4. g(i) \in 1 .. Ranks BY <2>1, BalanceAssumption
  <2>5. QED BY <2>1, <2>3, <2>4 DEF Union2
<1>7. \A i, j \in 1 .. Ranks : i # j => f[i] # f[j] /\ g(i) # g(j)
  <2>1. \A i, j \in 1 .. Ranks : i # j => f[i] # f[j] BY DEF Orders
  <2>2. QED BY <1>6, <2>1, BalanceAssumption
<1>8. ASSUME NEW i \in 1 .. Ranks
      PROVE  /\ IsFiniteSet(s[f[i]].items) /\ IsFiniteSet(t[g(i)].items)
             /\ u[i].items \subseteq DOMAIN rows
             /\ Cardinality(u[i].items) =
                    Cardinality(s[f[i]].items) + Cardinality(t[g(i)].items)
  <2>1. s[f[i]].items \subseteq DOMAIN rows /\ t[g(i)].items \subseteq DOMAIN rows
    BY <1>3, <1>6 DEF EvenState
  <2>2. IsFiniteSet(s[f[i]].items) /\ IsFiniteSet(t[g(i)].items) BY <2>1, RowTypes, FS_Subset
  <2>3. s[f[i]].items \cap t[g(i)].items = {} BY <1>3, <1>6 DEF HeapInv, SetsApart
  <2>4. Cardinality(s[f[i]].items \cap t[g(i)].items) = 0 BY <2>3, FS_EmptySet
  <2>5. Cardinality(s[f[i]].items \cup t[g(i)].items) =
            Cardinality(s[f[i]].items) + Cardinality(t[g(i)].items) - 0
    BY <2>2, <2>4, FS_Union
  <2>6. Cardinality(s[f[i]].items) \in Nat /\ Cardinality(t[g(i)].items) \in Nat
    BY <2>2, FS_CardinalityType
  <2>7. u[i].items = s[f[i]].items \cup t[g(i)].items BY <1>6
  <2>8. u[i].items \subseteq DOMAIN rows BY <2>1, <2>7
  <2> DEFINE A == s[f[i]].items
             B == t[g(i)].items
  <2>9. Cardinality(A \cup B) = Cardinality(A) + Cardinality(B)
    <3> HIDE DEF A, B
    <3>1. Cardinality(A) \in Nat /\ Cardinality(B) \in Nat BY <2>6 DEF A, B
    <3>2. Cardinality(A \cup B) = Cardinality(A) + Cardinality(B) - 0 BY <2>5 DEF A, B
    <3>3. QED BY <3>1, <3>2
  <2>10. Cardinality(u[i].items) = Cardinality(A) + Cardinality(B) BY <2>7, <2>9
  <2>11. QED BY <2>2, <2>8, <2>10
<1>9. EvenState(u)
  <2> SUFFICES ASSUME NEW i \in 1 .. Ranks, NEW j \in 1 .. Ranks
               PROVE  Cardinality(u[i].items) = Cardinality(u[j].items)
    BY <1>8 DEF EvenState
  <2>1. Cardinality(s[f[i]].items) = Cardinality(s[f[j]].items) BY <1>3, <1>6 DEF EvenState
  <2>2. Cardinality(t[g(i)].items) = Cardinality(t[g(j)].items) BY <1>3, <1>6 DEF EvenState
  <2>3. QED BY <1>8, <2>1, <2>2
<1>10. NarrowState(u)
  <2>1. ASSUME NEW v \in State, NarrowState(v), Spread(u) <= Spread(v) PROVE NarrowState(u)
    <3>1. PICK i \in DOMAIN rows, j \in DOMAIN rows :
              /\ Spread(v) <= Work(i) - Work(j)
              /\ Ranks > 1 => Cardinality(Between(i, j)) <= Ranks - 2
      BY <2>1 DEF NarrowState
    <3>2. Work(i) \in Nat /\ Work(j) \in Nat BY RowTypes
    <3>3. Spread(u) \in Int /\ Spread(v) \in Int BY <1>4, SpreadType
    <3>4. Spread(u) <= Work(i) - Work(j) BY <2>1, <3>1, <3>2, <3>3
    <3>5. QED BY <3>1, <3>4 DEF NarrowState
  <2>2. QED BY <1>3, <1>4, <2>1
<1> HIDE DEF g
<1>11. ASSUME NEW v \in heap \ {s, t}, NEW i \in 1 .. Ranks, NEW j \in 1 .. Ranks
       PROVE  u[i].items \cap v[j].items = {}
  <2>1. s[f[i]].items \cap v[j].items = {} /\ t[g(i)].items \cap v[j].items = {}
    BY <1>3, <1>6 DEF HeapInv, SetsApart
  <2>2. QED BY <1>6, <2>1
<1>12. ASSUME NEW i \in 1 .. Ranks, NEW j \in 1 .. Ranks, i # j
       PROVE  u[i].items \cap u[j].items = {}
  <2>1. /\ s[f[i]].items \cap s[f[j]].items = {} /\ s[f[i]].items \cap t[g(j)].items = {}
        /\ t[g(i)].items \cap s[f[j]].items = {} /\ t[g(i)].items \cap t[g(j)].items = {}
    BY <1>3, <1>6, <1>7, <1>12 DEF HeapInv, SetsApart
  <2>2. QED BY <1>6, <2>1
<1>13. SetsApart'
  <2> SUFFICES ASSUME NEW v \in heap', NEW w \in heap', NEW i \in 1 .. Ranks, NEW j \in 1 .. Ranks,
                      v # w \/ i # j
               PROVE  v[i].items \cap w[j].items = {}
    BY DEF SetsApart
  <2>1. CASE v = u /\ w = u BY <1>12, <2>1
  <2>2. CASE v = u /\ w # u
    <3>1. w \in heap \ {s, t} BY <1>2, <2>2
    <3>2. QED BY <1>11, <2>2, <3>1
  <2>3. CASE v # u /\ w = u
    <3>1. v \in heap \ {s, t} BY <1>2, <2>3
    <3>2. u[j].items \cap v[i].items = {} BY <1>11, <3>1
    <3>3. QED BY <2>3, <3>2
  <2>4. CASE v # u /\ w # u
    <3>1. v \in heap /\ w \in heap BY <1>2, <2>4
    <3>2. QED BY <3>1 DEF HeapInv, SetsApart
  <2>5. QED BY <2>1, <2>2, <2>3, <2>4
<1>14. RowsCovered'
  <2> SUFFICES ASSUME NEW k \in DOMAIN rows
               PROVE  \E v \in heap' : \E i \in 1 .. Ranks : k \in v[i].items
    BY <1>2 DEF RowsCovered
  <2>1. PICK v \in heap, i \in 1 .. Ranks : k \in v[i].items BY DEF HeapInv, RowsCovered
  <2>2. CASE v = s
    <3>1. PICK j \in 1 .. Ranks : f[j] = i BY OrdersOnto
    <3>2. k \in u[j].items BY <1>6, <2>1, <2>2, <3>1
    <3>3. QED BY <1>2, <3>2
  <2>3. CASE v = t
    <3>1. Ranks + 1 - i \in 1 .. Ranks BY BalanceAssumption
    <3>2. PICK j \in 1 .. Ranks : f[j] = Ranks + 1 - i BY <3>1, OrdersOnto
    <3>3. g(j) = i BY <3>2, BalanceAssumption DEF g
    <3>4. k \in u[j].items BY <1>6, <2>1, <2>3, <3>3
    <3>5. QED BY <1>2, <3>4
  <2>4. CASE v \notin {s, t} BY <1>2, <2>1, <2>4
  <2>5. QED BY <2>2, <2>3, <2>4
<1>15. IsFiniteSet(heap')
  <2>1. IsFiniteSet(heap \ {s, t}) BY FS_Difference DEF HeapInv
  <2>2. QED BY <1>2, <2>1, FS_AddElement
<1>16. ASSUME NEW v \in heap' PROVE v \in State /\ EvenState(v)' /\ NarrowState(v)'
  <2>1. v \in State /\ EvenState(v) /\ NarrowState(v) BY <1>2, <1>4, <1>9, <1>10 DEF HeapInv
  <2>2. EvenState(v)' BY <1>2, <2>1 DEF EvenState
  <2>3. ASSUME NEW i, NEW j
        PROVE  /\ Work(i)' = Work(i) /\ Work(j)' = Work(j)
               /\ Between(i, j)' = Between(i, j)
    BY <1>2 DEF Work, Between
  <2>4. NarrowState(v)' BY <1>2, <2>1, <2>3 DEF NarrowState, Spread
  <2>5. QED BY <2>1, <2>2, <2>4
<1>17. QED BY <1>13, <1>14, <1>15, <1>16 DEF HeapInv
-----------------------------------------------------------------------------
(* What the partition promises.                                            *)

\* A set that is cut into equal parts.
LEMMA EqualParts ==
    ASSUME NEW D, NEW S, NEW P, NEW c \in Nat, IsFiniteSet(D),
           \A i \in D : IsFiniteSet(P[i]) /\ Cardinality(P[i]) = c,
           \A i, j \in D : i # j => P[i] \cap P[j] = {},
           \A i \in D : P[i] \subseteq S,
           \A x \in S : \E i \in D : x \in P[i]
    PROVE  Cardinality(S) = Cardinality(D) * c
<1> DEFINE C == 1 .. c
           b == [i \in D |-> CHOOSE h : h \in Bijection(C, P[i])]
           m == [x \in D \X C |-> b[x[1]][x[2]]]
<1>1. IsFiniteSet(C) /\ Cardinality(C) = c
  <2>1. 1 \in Int /\ c \in Int OBVIOUS
  <2>2. IsFiniteSet(1 .. c) /\ Cardinality(1 .. c) = IF 1 > c THEN 0 ELSE c - 1 + 1
    BY <2>1, FS_Interval
  <2>3. QED BY <2>2
<1>2. ASSUME NEW i \in D PROVE b[i] \in Bijection(C, P[i])
  <2>1. ExistsBijection(C, P[i]) BY FS_CardinalityType
  <2>2. \E h : h \in Bijection(C, P[i]) BY <2>1 DEF ExistsBijection
  <2>3. QED BY <2>2
<1> HIDE DEF b, C
<1>3. ASSUME NEW i \in D, NEW k \in C PROVE b[i][k] \in P[i]
  BY <1>2 DEF Bijection, Injection
<1>4. ASSUME NEW i \in D, NEW k \in C, NEW l \in C, b[i][k] = b[i][l] PROVE k = l
  <2>1. b[i] \in Injection(C, P[i]) BY <1>2 DEF Bijection
  <2>2. QED BY <1>4, <2>1 DEF Injection, IsInjective
<1>5. ASSUME NEW i \in D, NEW x \in P[i] PROVE \E k \in C : b[i][k] = x
  <2>1. b[i] \in Surjection(C, P[i]) BY <1>2 DEF Bijection
  <2>2. QED BY <2>1 DEF Surjection
<1>6. m \in [D \X C -> S] BY <1>3
<1>7. ASSUME NEW x \in D \X C, NEW y \in D \X C, m[x] = m[y] PROVE x = y
  <2>1. PICK i \in D, k \in C : x = <<i, k>> OBVIOUS
  <2>2. PICK j \in D, l \in C : y = <<j, l>> OBVIOUS
  <2>3. b[i][k] = b[j][l] BY <1>7, <2>1, <2>2
  <2>4. i = j BY <1>3, <2>3
  <2>5. k = l BY <1>4, <2>3, <2>4
  <2>6. QED BY <2>1, <2>2, <2>4, <2>5
<1>8. ASSUME NEW x \in S PROVE \E y \in D \X C : m[y] = x
  <2>1. PICK i \in D : x \in P[i] OBVIOUS
  <2>2. PICK k \in C : b[i][k] = x BY <1>5, <2>1
  <2>3. <<i, k>> \in D \X C /\ m[<<i, k>>] = x BY <2>2
  <2>4. QED BY <2>3
<1> HIDE DEF m
<1>9. m \in Injection(D \X C, S)
  <2>1. \A x, y \in D \X C : m[x] = m[y] => x = y BY <1>7
  <2>2. QED BY <1>6, <2>1 DEF Injection, IsInjective
<1>10. m \in Surjection(D \X C, S) BY <1>6, <1>8 DEF Surjection
<1>11. ExistsBijection(D \X C, S) BY <1>9, <1>10 DEF Bijection, ExistsBijection
<1>12. IsFiniteSet(D \X C) /\ Cardinality(D \X C) = Cardinality(D) * Cardinality(C)
  BY <1>1, FS_Product
<1>13. Cardinality(S) = Cardinality(D \X C) BY <1>11, <1>12, FS_Bijection
<1>14. QED BY <1>1, <1>12, <1>13

(* Every row is in one share, the shares are equally large, and their work  *)
(* is within that of Ranks rows of neighbouring work (_balance_batch,       *)
(* get_seqlen_balanced_partitions).                                         *)
THEOREM SharesPartition == ASSUME RowType, HeapInv PROVE Balanced
<1> SUFFICES ASSUME Partitioned
             PROVE  /\ UNION {Shares[r] : r \in 1 .. Ranks} = DOMAIN rows
                    /\ \A r \in 1 .. Ranks : Cardinality(Shares[r]) * Ranks = Len(rows)
                    /\ \A s \in heap : \E i, j \in DOMAIN rows :
                           /\ Spread(s) <= Work(i) - Work(j)
                           /\ Ranks > 1 => Cardinality(Between(i, j)) <= Ranks - 2
  BY DEF Balanced
<1>1. PICK s : heap = {s} BY FS_Singleton DEF HeapInv, Partitioned
<1>2. \A r \in 1 .. Ranks : Shares[r] = s[r].items BY <1>1 DEF Shares
<1>3. s \in heap /\ EvenState(s) /\ NarrowState(s) BY <1>1 DEF HeapInv
<1>4. /\ \A r \in 1 .. Ranks : s[r].items \subseteq DOMAIN rows
      /\ \A k \in DOMAIN rows : \E r \in 1 .. Ranks : k \in s[r].items
      /\ \A i, j \in 1 .. Ranks : i # j => s[i].items \cap s[j].items = {}
  <2>1. \A r \in 1 .. Ranks : s[r].items \subseteq DOMAIN rows BY <1>3 DEF EvenState
  <2>2. \A k \in DOMAIN rows : \E r \in 1 .. Ranks : k \in s[r].items
    BY <1>1 DEF HeapInv, RowsCovered
  <2>3. \A i, j \in 1 .. Ranks : i # j => s[i].items \cap s[j].items = {}
    BY <1>3 DEF HeapInv, SetsApart
  <2>4. QED BY <2>1, <2>2, <2>3
<1>5. UNION {Shares[r] : r \in 1 .. Ranks} = DOMAIN rows BY <1>2, <1>4
<1>6. ASSUME NEW r \in 1 .. Ranks PROVE Cardinality(Shares[r]) * Ranks = Len(rows)
  <2> DEFINE c == Cardinality(s[r].items)
             P == [i \in 1 .. Ranks |-> s[i].items]
  <2>1. \A i \in 1 .. Ranks : IsFiniteSet(s[i].items) BY <1>4, RowTypes, FS_Subset
  <2>2. c \in Nat BY <2>1, FS_CardinalityType
  <2>3. \A i \in 1 .. Ranks : Cardinality(s[i].items) = c BY <1>3 DEF EvenState
  <2>4. IsFiniteSet(1 .. Ranks) /\ Cardinality(1 .. Ranks) = Ranks
    <3>1. 1 \in Int /\ Ranks \in Int BY BalanceAssumption
    <3>2. IsFiniteSet(1 .. Ranks)
          /\ Cardinality(1 .. Ranks) = IF 1 > Ranks THEN 0 ELSE Ranks - 1 + 1
      BY <3>1, FS_Interval
    <3>3. QED BY <3>2, BalanceAssumption
  <2> HIDE DEF c
  <2>5. \A i \in 1 .. Ranks : P[i] = s[i].items OBVIOUS
  <2> HIDE DEF P
  <2>6. Cardinality(DOMAIN rows) = Cardinality(1 .. Ranks) * c
    <3> DEFINE D == 1 .. Ranks
    <3>1. \A i \in D : IsFiniteSet(P[i]) /\ Cardinality(P[i]) = c BY <2>1, <2>3, <2>5
    <3>2. \A i, j \in D : i # j => P[i] \cap P[j] = {} BY <1>4, <2>5
    <3>3. \A i \in D : P[i] \subseteq DOMAIN rows BY <1>4, <2>5
    <3>4. \A x \in DOMAIN rows : \E i \in D : x \in P[i] BY <1>4, <2>5
    <3>5. IsFiniteSet(D) BY <2>4
    <3> HIDE DEF D
    <3>6. Cardinality(DOMAIN rows) = Cardinality(D) * c
      BY <2>2, <3>1, <3>2, <3>3, <3>4, <3>5, EqualParts
    <3>7. QED BY <3>6 DEF D
  <2>7. Ranks * c = c * Ranks BY <2>2, BalanceAssumption
  <2>8. QED BY <1>2, <2>4, <2>6, <2>7, RowTypes DEF c
<1>7. QED BY <1>1, <1>3, <1>5, <1>6 DEF NarrowState
=============================================================================
