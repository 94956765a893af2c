------------------------- MODULE DataProviderProofs -------------------------
(***************************************************************************)
(* For images of any size and any number of lines a part: what tasks read  *)
(* is there, NextPart is never left asleep, NumberOfParts is right, and    *)
(* the tasks write inside the output and apart from each other.            *)
(***************************************************************************)
EXTENDS DataProvider, FiniteSetTheorems, WellFoundedInduction, TLAPS
-----------------------------------------------------------------------------
(* Numbers                                                                 *)

\* Intervals from 0 are finite sets, and those are well-founded by inclusion.
LEMMA LeastNumber ==
    ASSUME NEW X, X \subseteq Nat, X # {}
    PROVE  \E m \in X : \A k \in X : m <= k
  <1> DEFINE T == {0..n : n \in X}
  <1>1. IsWellFoundedOn(StrictSubsetOrdering(Nat), FiniteSubsetsOf(Nat))
    BY FS_StrictSubsetOrderingWellFounded
  <1>2. T \subseteq FiniteSubsetsOf(Nat)
    <2>1. \A n \in X : IsFiniteSet(0..n)
      BY FS_Interval
    <2>2. \A n \in X : 0..n \in SUBSET Nat
      OBVIOUS
    <2>3. QED
      BY <2>1, <2>2, Zenon DEF FiniteSubsetsOf
  <1>3. T # {}
    OBVIOUS
  <1>4. PICK s \in T : \A u \in T : <<u, s>> \notin StrictSubsetOrdering(Nat)
    <2> HIDE DEF T
    <2> QED
      BY <1>1, <1>2, <1>3, WFMin, Zenon
  <1>5. PICK m \in X : s = 0..m
    OBVIOUS
  <1>6. ASSUME NEW k \in X, ~(m <= k)
        PROVE  FALSE
    <2>1. 0..k \in T /\ 0..k \subseteq 0..m /\ 0..k # 0..m
      BY <1>6
    <2>2. <<0..k, s>> \in StrictSubsetOrdering(Nat)
      BY <2>1, <1>2, <1>5 DEF StrictSubsetOrdering, FiniteSubsetsOf
    <2>3. QED
      BY <2>1, <2>2, <1>4
  <1>7. QED
    BY <1>6

\* Induction up to n, for membership in a set.
LEMMA InductionUpTo ==
    ASSUME NEW X, NEW n \in Nat, 0 \in X, \A k \in 0..(n - 1) : k \in X => k + 1 \in X
    PROVE  \A k \in 0..n : k \in X
  <1> SUFFICES ASSUME {k \in 0..n : k \notin X} # {} PROVE FALSE
    OBVIOUS
  <1> DEFINE Y == {k \in 0..n : k \notin X}
  <1>1. Y \subseteq Nat /\ Y # {}
    OBVIOUS
  <1>2. PICK m \in Y : \A k \in Y : m <= k
    <2> HIDE DEF Y
    <2> QED
      BY <1>1, LeastNumber
  <1>3. m # 0 /\ m - 1 \in 0..(n - 1)
    OBVIOUS
  <1>4. m - 1 \notin Y
    BY <1>2, <1>3
  <1>5. QED
    BY <1>3, <1>4

\* A set of k + 1 numbers has twice as many subsets as one of k.
LEMMA PowerDoubles ==
    ASSUME NEW k \in Nat
    PROVE  2^k \in Nat /\ 2^(k + 1) = 2 * 2^k
  <1> DEFINE S == 1..k
             With == {T \union {k + 1} : T \in SUBSET S}
             h == [T \in SUBSET S |-> T \union {k + 1}]
  <1>1. IsFiniteSet(S) /\ Cardinality(S) = k
    BY FS_Interval
  <1>2. IsFiniteSet(1..(k + 1)) /\ Cardinality(1..(k + 1)) = k + 1
    BY FS_Interval
  <1>3. IsFiniteSet(SUBSET S) /\ Cardinality(SUBSET S) = 2^k
    <2> HIDE DEF S
    <2> QED
      BY <1>1, FS_SUBSET
  <1>4. Cardinality(SUBSET (1..(k + 1))) = 2^(k + 1)
    <2>1. \A T : IsFiniteSet(T) => Cardinality(SUBSET T) = 2^Cardinality(T)
      BY FS_SUBSET
    <2>2. QED
      BY <1>2, <2>1, Zenon
  <1>5. 2^k \in Nat
    BY <1>3, FS_CardinalityType
  <1>6. h \in Bijection(SUBSET S, With)
    <2>1. h \in [SUBSET S -> With]
      OBVIOUS
    <2>2. k + 1 \notin S
      OBVIOUS
    <2>3. \A T, U \in SUBSET S : h[T] = h[U] => T = U
      <3> SUFFICES ASSUME NEW T \in SUBSET S, NEW U \in SUBSET S, h[T] = h[U]
                   PROVE  T = U
        OBVIOUS
      <3>1. T = h[T] \ {k + 1} /\ U = h[U] \ {k + 1}
        BY <2>2
      <3>2. QED
        BY <3>1
    <2>4. \A u \in With : \E T \in SUBSET S : h[T] = u
      OBVIOUS
    <2>5. QED
      BY <2>1, <2>3, <2>4 DEF Bijection, Injection, Surjection, IsInjective
  <1>7. IsFiniteSet(With) /\ Cardinality(With) = 2^k
    <2>1. ExistsBijection(SUBSET S, With)
      <3> HIDE DEF h, With
      <3> QED
        BY <1>6 DEF ExistsBijection
    <2>2. QED
      BY <1>3, <2>1, FS_Bijection
  <1>8. SUBSET (1..(k + 1)) = (SUBSET S) \union With
    <2>1. (SUBSET S) \union With \subseteq SUBSET (1..(k + 1))
      <3>1. S \subseteq 1..(k + 1) /\ k + 1 \in 1..(k + 1)
        OBVIOUS
      <3> HIDE DEF S
      <3> QED
        BY <3>1, Zenon
    <2>2. ASSUME NEW T \in SUBSET (1..(k + 1)), T \notin SUBSET S
          PROVE  T \in With
      <3>1. k + 1 \in T /\ T \ {k + 1} \in SUBSET S
        BY <2>2
      <3>2. T = (T \ {k + 1}) \union {k + 1}
        BY <3>1
      <3>3. QED
        BY <3>1, <3>2
    <2>3. QED
      BY <2>1, <2>2
  <1>9. (SUBSET S) \cap With = {}
    OBVIOUS
  <1>10. Cardinality((SUBSET S) \union With) = 2^k + 2^k - Cardinality({})
    <2> HIDE DEF With, S
    <2> QED
      BY <1>3, <1>7, <1>9, FS_Union
  <1>11. 2^(k + 1) = 2^k + 2^k - 0
    <2> HIDE DEF With, S
    <2> QED
      BY <1>4, <1>8, <1>10, FS_EmptySet, Zenon
  <1>12. QED
    <2> DEFINE K == 2^k
               L == 2^(k + 1)
    <2>1. K \in Nat /\ L = K + K - 0
      BY <1>5, <1>11
    <2> HIDE DEF K, L
    <2>2. L = 2 * K
      BY <2>1
    <2>3. QED
      BY <2>1, <2>2 DEF K, L

LEMMA Powers ==
    ASSUME NEW k \in Nat
    PROVE  2^k \in Nat \ {0} /\ k < 2^k
  <1> DEFINE X == {j \in Nat : 2^j \in Nat \ {0} /\ j < 2^j}
  <1>1. 0 \in X
    OBVIOUS
  <1>2. ASSUME NEW j \in 0..(k - 1), j \in X
        PROVE  j + 1 \in X
    <2> DEFINE K == 2^j
               L == 2^(j + 1)
    <2>1. K \in Nat \ {0} /\ j < K /\ L = 2 * K
      BY <1>2, PowerDoubles
    <2> HIDE DEF K, L
    <2>2. L \in Nat \ {0} /\ j + 1 < L
      BY <2>1
    <2>3. QED
      BY <2>2 DEF L
  <1>3. \A j \in 0..k : j \in X
    <2> HIDE DEF X
    <2> QED
      BY <1>1, <1>2, InductionUpTo
  <1>4. k \in 0..k
    OBVIOUS
  <1>5. QED
    BY <1>3, <1>4

LEMMA PowersGrow ==
    ASSUME NEW i \in Nat, NEW k \in Nat, i <= k
    PROVE  2^i <= 2^k
  <1> DEFINE X == {d \in Nat : 2^i <= 2^(i + d)}
  <1>1. 0 \in X
    <2>1. 2^i \in Nat /\ i + 0 = i
      BY Powers
    <2>2. QED
      BY <2>1
  <1>2. ASSUME NEW d \in 0..(k - i - 1), d \in X
        PROVE  d + 1 \in X
    <2> DEFINE I == 2^i
               K == 2^(i + d)
               L == 2^(i + d + 1)
    <2>1. K \in Nat \ {0} /\ I \in Nat /\ I <= K /\ L = 2 * K
      BY <1>2, Powers, PowerDoubles
    <2>2. L = 2^(i + (d + 1))
      <3>1. i + d + 1 = i + (d + 1)
        OBVIOUS
      <3>2. QED
        BY <3>1
    <2> HIDE DEF I, K, L
    <2>3. I <= L
      BY <2>1
    <2>4. QED
      BY <2>2, <2>3 DEF I
  <1>3. \A d \in 0..(k - i) : d \in X
    <2>1. k - i \in Nat
      OBVIOUS
    <2> HIDE DEF X
    <2> QED
      BY <1>1, <1>2, <2>1, InductionUpTo
  <1>4. k - i \in 0..(k - i) /\ i + (k - i) = k
    OBVIOUS
  <1>5. QED
    BY <1>3, <1>4

LEMMA Quotient ==
    ASSUME NEW a \in Nat, NEW m \in Nat \ {0}
    PROVE  a \div m \in Nat /\ m * (a \div m) <= a /\ a < m * (a \div m) + m
  OBVIOUS

LEMMA QuotientIs ==
    ASSUME NEW a \in Nat, NEW m \in Nat \ {0}, NEW q \in Nat, m * q <= a, a < m * q + m
    PROVE  a \div m = q
  OBVIOUS

LEMMA HalfAgain ==
    ASSUME NEW a \in Nat, NEW m \in Nat \ {0}
    PROVE  (a \div m) \div 2 = a \div (2 * m)
  OBVIOUS
-----------------------------------------------------------------------------
(* The sizes of the levels                                                 *)

LEMMA FloorLog2Is ==
    ASSUME NEW n \in Nat \ {0}
    PROVE  /\ FloorLog2(n) \in Nat
           /\ 2^FloorLog2(n) <= n /\ n < 2^(FloorLog2(n) + 1)
  <1> DEFINE X == {k \in Nat : n < 2^(k + 1)}
             F(k) == 2^k <= n /\ n < 2^(k + 1)
  <1>1. n \in X
    <2>1. n < 2^n /\ 2^n \in Nat /\ 2^(n + 1) = 2 * 2^n
      BY Powers, PowerDoubles
    <2> DEFINE K == 2^n
               L == 2^(n + 1)
    <2>2. n < K /\ K \in Nat /\ L = 2 * K
      BY <2>1
    <2> HIDE DEF K, L
    <2>3. n < L
      BY <2>2
    <2>4. QED
      BY <2>3 DEF L
  <1>2. PICK m \in X : \A k \in X : m <= k
    <2>1. X \subseteq Nat /\ X # {}
      BY <1>1
    <2> HIDE DEF X
    <2>2. QED
      BY <2>1, LeastNumber
  <1>3. 2^m <= n
    <2>1. CASE m = 0
      BY <2>1
    <2>2. CASE m # 0
      <3>1. m - 1 \in Nat /\ m - 1 \notin X
        BY <1>2, <2>2
      <3>2. ~(n < 2^((m - 1) + 1)) /\ (m - 1) + 1 = m
        BY <3>1
      <3>3. ~(n < 2^m) /\ 2^m \in Nat
        BY <3>2, Powers
      <3>4. QED
        BY <3>3
    <2>3. QED
      BY <2>1, <2>2
  <1>4. m \in 0..n /\ F(m)
    BY <1>1, <1>2, <1>3
  <1>5. FloorLog2(n) = CHOOSE k \in 0..n : F(k)
    BY DEF FloorLog2
  <1> HIDE DEF F, X
  <1>6. FloorLog2(n) \in 0..n /\ F(FloorLog2(n))
    BY <1>4, <1>5
  <1>7. QED
    BY <1>6 DEF F

\* What i halvings leave of n.
Halved(n, i) == IF n \div 2^i > 1 THEN n \div 2^i ELSE 1

LEMMA HalvedAgain ==
    ASSUME NEW n \in Nat \ {0}, NEW i \in Nat
    PROVE  /\ Halved(n, i) \in Nat \ {0}
           /\ Halved(n, 0) = n
           /\ Half(Halved(n, i)) = Halved(n, i + 1)
           /\ Halved(n, i) = 1 <=> n < 2^(i + 1)
  <1> DEFINE K == 2^i
             L == 2^(i + 1)
  <1>1. K \in Nat \ {0} /\ L = 2 * K
    BY Powers, PowerDoubles
  <1>2. Halved(n, 0) = n
    BY DEF Halved
  <1>3. /\ Halved(n, i) = IF n \div K > 1 THEN n \div K ELSE 1
        /\ Halved(n, i + 1) = IF n \div L > 1 THEN n \div L ELSE 1
    BY DEF Halved
  <1> HIDE DEF K, L
  <1>4. (n \div K) \div 2 = n \div L
    BY <1>1, HalfAgain
  <1>5. n \div K \in Nat /\ K * (n \div K) <= n /\ n < K * (n \div K) + K
    BY <1>1, Quotient
  <1>6. n \div K <= 1 <=> n < L
    <2>1. CASE n \div K <= 1
      <3>1. K * (n \div K) <= K
        BY <1>1, <1>5, <2>1
      <3>2. QED
        BY <1>1, <1>5, <2>1, <3>1
    <2>2. CASE n \div K >= 2
      <3>1. K * (n \div K) >= 2 * K
        BY <1>1, <1>5, <2>2
      <3>2. QED
        BY <1>1, <1>5, <2>2, <3>1
    <2>3. QED
      BY <1>5, <2>1, <2>2
  <1>7. Halved(n, i) \in Nat \ {0} /\ Half(Halved(n, i)) = Halved(n, i + 1)
    BY <1>3, <1>4, <1>5 DEF Half
  <1>8. Halved(n, i) = 1 <=> n < L
    BY <1>3, <1>5, <1>6
  <1>9. QED
    BY <1>2, <1>7, <1>8 DEF L

\* The chain ends exactly where log2 says: both dimensions are 1 at the last
\* level, and not before.
LEMMA LastLevel ==
    ASSUME NEW x \in Nat \ {0}, NEW y \in Nat \ {0},
           NEW i \in 0..(NumberOfMipLevels(x, y) - 1)
    PROVE  Halved(x, i) = 1 /\ Halved(y, i) = 1 <=> i = NumberOfMipLevels(x, y) - 1
  <1> DEFINE n == IF x > y THEN x ELSE y
             k == FloorLog2(n)
  <1>1. n \in Nat \ {0} /\ x <= n /\ y <= n /\ (n = x \/ n = y)
    OBVIOUS
  <1>2. NumberOfMipLevels(x, y) = k + 1
    BY DEF NumberOfMipLevels
  <1> HIDE DEF n
  <1>3. k \in Nat /\ 2^k <= n /\ n < 2^(k + 1)
    BY <1>1, FloorLog2Is
  <1> HIDE DEF k
  <1>4. i \in Nat /\ i <= k /\ i + 1 \in Nat
    BY <1>2, <1>3
  <1>5. /\ Halved(x, i) = 1 <=> x < 2^(i + 1)
        /\ Halved(y, i) = 1 <=> y < 2^(i + 1)
    BY <1>4, HalvedAgain
  <1>6. 2^(i + 1) \in Nat
    BY <1>4, Powers
  <1>7. Halved(x, i) = 1 /\ Halved(y, i) = 1 <=> n < 2^(i + 1)
    <2> DEFINE L == 2^(i + 1)
    <2>1. L \in Nat /\ (Halved(x, i) = 1 <=> x < L) /\ (Halved(y, i) = 1 <=> y < L)
      BY <1>5, <1>6
    <2> HIDE DEF L
    <2>2. Halved(x, i) = 1 /\ Halved(y, i) = 1 <=> n < L
      BY <1>1, <2>1
    <2>3. QED
      BY <2>2 DEF L
  <1>8. CASE i = k
    BY <1>2, <1>3, <1>7, <1>8
  <1>9. CASE i # k
    <2>1. 2^(i + 1) <= 2^k /\ 2^k \in Nat
      BY <1>3, <1>4, <1>9, PowersGrow, Powers
    <2>2. ~(n < 2^(i + 1))
      BY <1>1, <1>3, <1>6, <2>1
    <2>3. QED
      BY <1>2, <1>4, <1>3, <1>7, <1>9, <2>2
  <1>10. QED
    BY <1>8, <1>9

LEMMA LevelsExist ==
    ASSUME NEW x \in Nat \ {0}, NEW y \in Nat \ {0}
    PROVE  NumberOfMipLevels(x, y) \in Nat \ {0}
  <1>1. (IF x > y THEN x ELSE y) \in Nat \ {0}
    OBVIOUS
  <1>2. QED
    BY <1>1, FloorLog2Is DEF NumberOfMipLevels

\* What a table that halves the size from level to level contains.
SizesOf(size, x, y, n) ==
    size = [i \in 0..(n - 1) |->
              IF i = 0 THEN [x |-> x, y |-> y]
              ELSE [x |-> Half(size[i - 1].x), y |-> Half(size[i - 1].y)]]

LEMMA SizesExist ==
    ASSUME NEW x \in Nat \ {0}, NEW y \in Nat \ {0}, NEW n \in Nat
    PROVE  \E size : SizesOf(size, x, y, n)
  <1> DEFINE size == [i \in 0..(n - 1) |-> [x |-> Halved(x, i), y |-> Halved(y, i)]]
  <1>1. ASSUME NEW i \in 0..(n - 1)
        PROVE  size[i] = IF i = 0 THEN [x |-> x, y |-> y]
                         ELSE [x |-> Half(size[i - 1].x), y |-> Half(size[i - 1].y)]
    <2>1. CASE i = 0
      BY <2>1, HalvedAgain
    <2>2. CASE i # 0
      <3>1. i - 1 \in Nat /\ i - 1 \in 0..(n - 1) /\ (i - 1) + 1 = i
        BY <2>2
      <3>2. Half(Halved(x, i - 1)) = Halved(x, i) /\ Half(Halved(y, i - 1)) = Halved(y, i)
        BY <3>1, HalvedAgain
      <3>3. QED
        BY <2>2, <3>1, <3>2
    <2>3. QED
      BY <2>1, <2>2
  <1>2. SizesOf(size, x, y, n)
    BY <1>1 DEF SizesOf
  <1>3. QED
    BY <1>2

LEMMA SizesAre ==
    ASSUME NEW x \in Nat \ {0}, NEW y \in Nat \ {0}, NEW n \in Nat \ {0},
           NEW size, SizesOf(size, x, y, n)
    PROVE  /\ DOMAIN size = 0..(n - 1)
           /\ \A i \in 0..(n - 1) : size[i].x = Halved(x, i) /\ size[i].y = Halved(y, i)
  <1> DEFINE X == {i \in 0..(n - 1) : size[i].x = Halved(x, i) /\ size[i].y = Halved(y, i)}
  <1>1. DOMAIN size = 0..(n - 1)
    BY DEF SizesOf
  <1>2. \A i \in 0..(n - 1) :
           size[i] = IF i = 0 THEN [x |-> x, y |-> y]
                     ELSE [x |-> Half(size[i - 1].x), y |-> Half(size[i - 1].y)]
    BY DEF SizesOf
  <1>3. 0 \in X
    <2>1. 0 \in Nat /\ 0 \in 0..(n - 1)
      OBVIOUS
    <2>2. Halved(x, 0) = x /\ Halved(y, 0) = y
      BY <2>1, HalvedAgain
    <2>3. size[0] = [x |-> x, y |-> y]
      BY <1>2, <2>1
    <2>4. QED
      BY <2>1, <2>2, <2>3
  <1>4. ASSUME NEW k \in 0..((n - 1) - 1), k \in X
        PROVE  k + 1 \in X
    <2>1. k + 1 \in 0..(n - 1) /\ k + 1 # 0 /\ (k + 1) - 1 = k
      OBVIOUS
    <2>2. size[k + 1] = [x |-> Half(size[k].x), y |-> Half(size[k].y)]
      BY <1>2, <2>1
    <2>3. Half(size[k].x) = Halved(x, k + 1) /\ Half(size[k].y) = Halved(y, k + 1)
      <3>1. k \in Nat /\ size[k].x = Halved(x, k) /\ size[k].y = Halved(y, k)
        BY <1>4
      <3>2. Half(Halved(x, k)) = Halved(x, k + 1) /\ Half(Halved(y, k)) = Halved(y, k + 1)
        BY <3>1, HalvedAgain
      <3>3. QED
        BY <3>1, <3>2
    <2>4. QED
      BY <2>1, <2>2, <2>3
  <1>5. n - 1 \in Nat
    OBVIOUS
  <1>6. \A i \in 0..(n - 1) : i \in X
    <2> HIDE DEF X
    <2> QED
      BY <1>3, <1>4, <1>5, InductionUpTo
  <1>7. QED
    BY <1>1, <1>6

LEMMA LevelSizesAre ==
    ASSUME NEW x \in Nat \ {0}, NEW y \in Nat \ {0}
    PROVE  /\ DOMAIN LevelSizes(x, y) = 0..(NumberOfMipLevels(x, y) - 1)
           /\ \A i \in 0..(NumberOfMipLevels(x, y) - 1) :
                LevelSizes(x, y)[i].x = Halved(x, i) /\ LevelSizes(x, y)[i].y = Halved(y, i)
  <1> DEFINE n == NumberOfMipLevels(x, y)
  <1>1. n \in Nat \ {0}
    BY LevelsExist
  <1>2. LevelSizes(x, y) = CHOOSE size : SizesOf(size, x, y, n)
    BY DEF LevelSizes, SizesOf
  <1> HIDE DEF n
  <1>3. SizesOf(LevelSizes(x, y), x, y, n)
    BY <1>1, <1>2, SizesExist
  <1>4. QED
    BY <1>1, <1>3, SizesAre DEF n

\* What a table of running sums contains.
SumsOf(sum, c, n) ==
    sum = [i \in 0..n |-> IF i = 0 THEN c[0] ELSE sum[i - 1] + c[i]]

LEMMA SumsExist ==
    ASSUME NEW n \in Nat, NEW c \in [0..n -> Nat]
    PROVE  \E sum \in [0..n -> Nat] : SumsOf(sum, c, n)
  <1> DEFINE X == {k \in 0..n : \E sum \in [0..k -> Nat] : SumsOf(sum, c, k)}
  <1>1. 0 \in X
    <2> DEFINE sum == [i \in 0..0 |-> c[0]]
    <2>1. sum \in [0..0 -> Nat] /\ SumsOf(sum, c, 0)
      BY DEF SumsOf
    <2>2. QED
      BY <2>1
  <1>2. ASSUME NEW k \in 0..(n - 1), k \in X
        PROVE  k + 1 \in X
    <2>1. PICK sum \in [0..k -> Nat] : SumsOf(sum, c, k)
      BY <1>2
    <2> DEFINE next == [i \in 0..(k + 1) |-> IF i = k + 1 THEN sum[k] + c[k + 1] ELSE sum[i]]
    <2>2. next \in [0..(k + 1) -> Nat]
      OBVIOUS
    <2>3. ASSUME NEW i \in 0..(k + 1)
          PROVE  next[i] = IF i = 0 THEN c[0] ELSE next[i - 1] + c[i]
      <3>1. CASE i = k + 1
        BY <3>1
      <3>2. CASE i # k + 1
        <4>1. i \in 0..k /\ next[i] = sum[i] /\ (i # 0 => next[i - 1] = sum[i - 1])
          BY <3>2
        <4>2. sum[i] = IF i = 0 THEN c[0] ELSE sum[i - 1] + c[i]
          BY <2>1, <4>1 DEF SumsOf
        <4>3. QED
          BY <4>1, <4>2
      <3>3. QED
        BY <3>1, <3>2
    <2>4. SumsOf(next, c, k + 1)
      BY <2>3 DEF SumsOf
    <2>5. k + 1 \in 0..n
      OBVIOUS
    <2> HIDE DEF next
    <2>6. QED
      BY <2>2, <2>4, <2>5, Zenon
  <1>3. \A k \in 0..n : k \in X
    <2> HIDE DEF X
    <2> QED
      BY <1>1, <1>2, InductionUpTo
  <1>4. n \in 0..n
    OBVIOUS
  <1>5. QED
    BY <1>3, <1>4

LEMMA SumsAre ==
    ASSUME NEW n \in Nat, NEW c \in [0..n -> Nat], NEW sum, SumsOf(sum, c, n)
    PROVE  /\ sum \in [0..n -> Nat]
           /\ sum[0] = c[0]
           /\ \A i \in 1..n : sum[i] = sum[i - 1] + c[i]
  <1> DEFINE X == {i \in 0..n : sum[i] \in Nat}
  <1>1. /\ sum[0] = c[0] /\ DOMAIN sum = 0..n
        /\ \A i \in 1..n : sum[i] = sum[i - 1] + c[i]
    BY DEF SumsOf
  <1>2. 0 \in X
    BY <1>1
  <1>3. ASSUME NEW k \in 0..(n - 1), k \in X
        PROVE  k + 1 \in X
    <2>1. k + 1 \in 1..n /\ (k + 1) - 1 = k
      OBVIOUS
    <2>2. QED
      BY <1>1, <1>3, <2>1
  <1>4. \A i \in 0..n : i \in X
    <2> HIDE DEF X
    <2> QED
      BY <1>2, <1>3, InductionUpTo
  <1>5. sum = [i \in 0..n |-> sum[i]]
    BY DEF SumsOf
  <1>6. QED
    BY <1>1, <1>4, <1>5

LEMMA SumsGrow ==
    ASSUME NEW n \in Nat, NEW c \in [0..n -> Nat], NEW sum, SumsOf(sum, c, n),
           NEW i \in 0..n
    PROVE  sum[i] <= sum[n]
  <1> DEFINE X == {d \in 0..(n - i) : sum[i] <= sum[i + d]}
  <1>1. sum \in [0..n -> Nat] /\ \A j \in 1..n : sum[j] = sum[j - 1] + c[j]
    BY SumsAre
  <1>2. 0 \in X
    BY <1>1
  <1>3. ASSUME NEW d \in 0..((n - i) - 1), d \in X
        PROVE  d + 1 \in X
    <2>1. i + (d + 1) \in 1..n /\ (i + (d + 1)) - 1 = i + d /\ i + d \in 0..n
      OBVIOUS
    <2>2. sum[i + (d + 1)] = sum[i + d] + c[i + (d + 1)]
      BY <1>1, <2>1
    <2>3. QED
      BY <1>1, <1>3, <2>1, <2>2
  <1>4. \A d \in 0..(n - i) : d \in X
    <2>1. n - i \in Nat
      OBVIOUS
    <2> HIDE DEF X
    <2> QED
      BY <1>2, <1>3, <2>1, InductionUpTo
  <1>5. n - i \in 0..(n - i) /\ i + (n - i) = n
    OBVIOUS
  <1>6. QED
    BY <1>4, <1>5

LEMMA LinesOfIs ==
    ASSUME NEW n \in Nat
    PROVE  /\ AtLeast4(n) \in Nat /\ AtLeast4(n) >= 4 /\ AtLeast4(n) >= n
           /\ LinesOf(n) \in Nat \ {0} /\ 4 * LinesOf(n) <= AtLeast4(n)
           /\ n \in Nat \ {0} /\ n % 4 = 0 => LinesOf(n) = n \div 4
  BY DEF LinesOf, AtLeast4

LEMMA CeilDivIs ==
    ASSUME NEW n \in Nat, NEW m \in Nat \ {0}
    PROVE  /\ CeilDiv(n, m) \in Nat
           /\ CeilDiv(0, m) = 0
           /\ n # 0 => CeilDiv(n, m) # 0
           /\ n <= CeilDiv(n, m) * m /\ CeilDiv(n, m) * m < n + m
  <1> DEFINE q == CeilDiv(n, m)
  <1>1. n + m - 1 \in Nat /\ m - 1 \in Nat
    OBVIOUS
  <1>2. q \in Nat /\ m * q <= n + m - 1 /\ n + m - 1 < m * q + m
    BY <1>1, Quotient DEF CeilDiv
  <1>3. (0 + m - 1) \div m = 0
    BY <1>1, QuotientIs
  <1> HIDE DEF q
  <1>4. m * q = q * m
    BY <1>2
  <1>5. n <= q * m /\ q * m < n + m /\ (n # 0 => q # 0)
    BY <1>2, <1>4
  <1>6. QED
    BY <1>2, <1>3, <1>5 DEF q, CeilDiv

\* The next part, of 1 to m lines, after q full ones
LEMMA CeilDivNext ==
    ASSUME NEW q \in Nat, NEW m \in Nat \ {0}, NEW n \in 1..m
    PROVE  CeilDiv(q * m + n, m) = q + 1
  <1>1. q * m \in Nat /\ m * (q + 1) = q * m + m
    OBVIOUS
  <1> DEFINE a == q * m
             b == m * (q + 1)
  <1>2. a \in Nat /\ b = a + m
    BY <1>1
  <1> HIDE DEF a, b
  <1>3. b <= a + n + m - 1 /\ a + n + m - 1 < b + m /\ a + n + m - 1 \in Nat /\ q + 1 \in Nat
    BY <1>2
  <1>4. (a + n + m - 1) \div m = q + 1
    BY <1>3, QuotientIs DEF b
  <1>5. QED
    BY <1>4 DEF a, CeilDiv

\* The parts of level i.
PartsAt(y, l, i) == CeilDiv(LinesOf(Halved(y, i)), l * 2^i)

LEMMA PartsAtIs ==
    ASSUME NEW y \in Nat \ {0}, NEW l \in Nat \ {0}, NEW i \in Nat
    PROVE  PartsAt(y, l, i) \in Nat \ {0} /\ l * 2^i \in Nat \ {0}
  <1> DEFINE K == 2^i
             m == l * K
             n == LinesOf(Halved(y, i))
  <1>1. K \in Nat \ {0}
    BY Powers
  <1> HIDE DEF K
  <1>2. m \in Nat \ {0}
    BY <1>1
  <1>3. n \in Nat \ {0}
    <2>1. Halved(y, i) \in Nat
      BY HalvedAgain
    <2>2. QED
      BY <2>1, LinesOfIs
  <1>4. CeilDiv(n, m) \in Nat \ {0}
    <2> HIDE DEF n, m
    <2> QED
      BY <1>2, <1>3, CeilDivIs
  <1>5. QED
    BY <1>2, <1>4 DEF PartsAt, K

PartsTable(f, y, l, n) ==
    /\ f \in [0..n -> Nat]
    /\ \A i \in 1..n : f[i] = f[i - 1] + PartsAt(y, l, i)
    /\ \A i \in 0..n : f[i] <= f[n]

LEMMA PartsUpToAre ==
    ASSUME NEW x \in Nat \ {0}, NEW y \in Nat \ {0}, y % 4 = 0, NEW l \in Nat \ {0},
           NEW n, n = NumberOfMipLevels(x, y) - 1
    PROVE  /\ n \in Nat
           /\ PartsUpTo(x, y, l)[0] = PartsAt(y, l, 0)
           /\ PartsTable(PartsUpTo(x, y, l), y, l, n)
  <1> DEFINE c == [i \in 0..n |-> PartsAt(y, l, i)]
             P(sum) ==
               sum = [i \in DOMAIN LevelSizes(x, y) |->
                          IF i = 0 THEN CeilDiv(y \div 4, l)
                          ELSE sum[i - 1] + CeilDiv(LinesOf(LevelSizes(x, y)[i].y), LinesAtLevel(l, i))]
  <1>1. n \in Nat
    BY LevelsExist
  <1>2. c \in [0..n -> Nat]
    <2>1. \A i \in 0..n : i \in Nat
      BY <1>1
    <2>2. \A i \in 0..n : PartsAt(y, l, i) \in Nat
      BY <2>1, PartsAtIs
    <2>3. QED
      BY <2>2
  <1>3. ASSUME NEW sum
        PROVE  P(sum) <=> SumsOf(sum, c, n)
    <2>1. DOMAIN LevelSizes(x, y) = 0..n
      BY LevelSizesAre
    <2>2. 0 \in 0..n /\ CeilDiv(y \div 4, l) = c[0]
      <3>1. Halved(y, 0) = y /\ LinesOf(y) = y \div 4
        BY HalvedAgain, LinesOfIs
      <3>2. l * 2^0 = l
        OBVIOUS
      <3>3. 0 \in 0..n
        BY <1>1
      <3>4. QED
        BY <3>1, <3>2, <3>3 DEF PartsAt
    <2>3. \A i \in 0..n : CeilDiv(LinesOf(LevelSizes(x, y)[i].y), LinesAtLevel(l, i)) = c[i]
      BY LevelSizesAre DEF PartsAt, LinesAtLevel
    <2>4. \A i \in 0..n : i # 0 => sum[i - 1] + c[i] = sum[i - 1] + CeilDiv(LinesOf(LevelSizes(x, y)[i].y), LinesAtLevel(l, i))
      BY <2>3
    <2> HIDE DEF c
    <2>5. QED
      BY <2>1, <2>2, <2>4 DEF SumsOf
  <1>4. PartsUpTo(x, y, l) = CHOOSE sum : P(sum)
    BY DEF PartsUpTo
  <1>5. \E sum : P(sum)
    <2>1. \E sum : SumsOf(sum, c, n)
      <3> HIDE DEF c
      <3> QED
        BY <1>1, <1>2, SumsExist
    <2>2. QED
      BY <1>3, <2>1
  <1>6. SumsOf(PartsUpTo(x, y, l), c, n)
    <2> HIDE DEF P, c
    <2> QED
      BY <1>3, <1>4, <1>5
  <1>7. /\ PartsUpTo(x, y, l) \in [0..n -> Nat]
        /\ PartsUpTo(x, y, l)[0] = c[0]
        /\ \A i \in 1..n : PartsUpTo(x, y, l)[i] = PartsUpTo(x, y, l)[i - 1] + c[i]
        /\ \A i \in 0..n : PartsUpTo(x, y, l)[i] <= PartsUpTo(x, y, l)[n]
    <2> HIDE DEF c, P
    <2>1. PICK sum : sum = PartsUpTo(x, y, l)
      OBVIOUS
    <2>2. SumsOf(sum, c, n)
      BY <1>6, <2>1
    <2>3. /\ sum \in [0..n -> Nat] /\ sum[0] = c[0]
          /\ \A i \in 1..n : sum[i] = sum[i - 1] + c[i]
      <3>1. PICK t : t = c
        OBVIOUS
      <3>2. t \in [0..n -> Nat] /\ SumsOf(sum, t, n)
        BY <1>2, <2>2, <3>1
      <3>3. /\ sum \in [0..n -> Nat] /\ sum[0] = t[0]
            /\ \A i \in 1..n : sum[i] = sum[i - 1] + t[i]
        BY <1>1, <3>2, SumsAre, SMTT(30)
      <3>4. QED
        BY <3>1, <3>3
    <2>4. \A i \in 0..n : sum[i] <= sum[n]
      BY <1>1, <1>2, <2>2, SumsGrow
    <2>5. QED
      BY <2>1, <2>3, <2>4
  <1>8. QED
    <2>1. c[0] = PartsAt(y, l, 0) /\ \A i \in 1..n : c[i] = PartsAt(y, l, i)
      BY <1>1
    <2> HIDE DEF c, P
    <2>2. QED
      BY <1>1, <1>7, <2>1 DEF PartsTable

\* The bytes that AdjustSizeForMipmaps adds for level i.
BytesAt(x, y, i) == (AtLeast4(Halved(x, i)) * AtLeast4(Halved(y, i))) \div 2

LEMMA BytesAtIs ==
    ASSUME NEW x \in Nat \ {0}, NEW y \in Nat \ {0}, NEW i \in Nat
    PROVE  BytesAt(x, y, i) \in Nat
  <1> DEFINE a == AtLeast4(Halved(x, i))
             b == AtLeast4(Halved(y, i))
  <1>1. a \in Nat /\ b \in Nat
    BY HalvedAgain, LinesOfIs
  <1> HIDE DEF a, b
  <1>2. (a * b) \div 2 \in Nat
    BY <1>1
  <1>3. QED
    BY <1>2 DEF a, b, BytesAt

BytesTable(f, x, y, n) ==
    /\ f \in [0..n -> Nat]
    /\ \A i \in 1..n : f[i] = f[i - 1] + BytesAt(x, y, i)
    /\ \A i \in 0..n : f[i] <= f[n]

LEMMA BytesUpToAre ==
    ASSUME NEW x \in Nat \ {0}, NEW y \in Nat \ {0},
           NEW n, n = NumberOfMipLevels(x, y) - 1
    PROVE  BytesTable(BytesUpTo(x, y), x, y, n) /\ BytesUpTo(x, y)[0] = 0
  <1> DEFINE c == [i \in 0..n |-> IF i = 0 THEN 0 ELSE BytesAt(x, y, i)]
             P(sum) ==
               sum = [i \in DOMAIN LevelSizes(x, y) |->
                        IF i = 0 THEN 0
                        ELSE sum[i - 1] + (AtLeast4(LevelSizes(x, y)[i].x) * AtLeast4(LevelSizes(x, y)[i].y)) \div 2]
  <1>1. n \in Nat
    BY LevelsExist
  <1>2. c \in [0..n -> Nat]
    BY <1>1, BytesAtIs
  <1>3. ASSUME NEW sum
        PROVE  P(sum) <=> SumsOf(sum, c, n)
    <2>1. DOMAIN LevelSizes(x, y) = 0..n
      BY LevelSizesAre
    <2>2. 0 \in 0..n /\ c[0] = 0
      BY <1>1
    <2>3. \A i \in 0..n : i # 0 =>
             (AtLeast4(LevelSizes(x, y)[i].x) * AtLeast4(LevelSizes(x, y)[i].y)) \div 2 = c[i]
      BY LevelSizesAre DEF BytesAt
    <2>4. \A i \in 0..n : i # 0 =>
             sum[i - 1] + c[i] =
               sum[i - 1] + (AtLeast4(LevelSizes(x, y)[i].x) * AtLeast4(LevelSizes(x, y)[i].y)) \div 2
      BY <2>3
    <2> HIDE DEF c
    <2>5. QED
      BY <2>1, <2>2, <2>4 DEF SumsOf
  <1>4. BytesUpTo(x, y) = CHOOSE sum : P(sum)
    BY DEF BytesUpTo
  <1>5. \E sum : P(sum)
    <2>1. \E sum : SumsOf(sum, c, n)
      <3> HIDE DEF c
      <3> QED
        BY <1>1, <1>2, SumsExist
    <2>2. QED
      BY <1>3, <2>1
  <1>6. SumsOf(BytesUpTo(x, y), c, n)
    <2> HIDE DEF P, c
    <2> QED
      BY <1>3, <1>4, <1>5
  <1>7. /\ BytesUpTo(x, y) \in [0..n -> Nat]
        /\ BytesUpTo(x, y)[0] = c[0]
        /\ \A i \in 1..n : BytesUpTo(x, y)[i] = BytesUpTo(x, y)[i - 1] + c[i]
        /\ \A i \in 0..n : BytesUpTo(x, y)[i] <= BytesUpTo(x, y)[n]
    <2> HIDE DEF c, P
    <2>1. PICK sum : sum = BytesUpTo(x, y)
      OBVIOUS
    <2>2. SumsOf(sum, c, n)
      BY <1>6, <2>1
    <2>3. /\ sum \in [0..n -> Nat] /\ sum[0] = c[0]
          /\ \A i \in 1..n : sum[i] = sum[i - 1] + c[i]
      <3>1. PICK t : t = c
        OBVIOUS
      <3>2. t \in [0..n -> Nat] /\ SumsOf(sum, t, n)
        BY <1>2, <2>2, <3>1
      <3>3. /\ sum \in [0..n -> Nat] /\ sum[0] = t[0]
            /\ \A i \in 1..n : sum[i] = sum[i - 1] + t[i]
        BY <1>1, <3>2, SumsAre, SMTT(30)
      <3>4. QED
        BY <3>1, <3>3
    <2>4. \A i \in 0..n : sum[i] <= sum[n]
      BY <1>1, <1>2, <2>2, SumsGrow
    <2>5. QED
      BY <2>1, <2>3, <2>4
  <1>8. QED
    <2>1. c[0] = 0 /\ \A i \in 1..n : c[i] = BytesAt(x, y, i)
      BY <1>1
    <2> HIDE DEF c, P
    <2>2. QED
      BY <1>1, <1>7, <2>1 DEF BytesTable

\* The blocks of a level need no more than its bytes.
LEMMA BlocksFit ==
    ASSUME NEW x \in Nat, NEW y \in Nat
    PROVE  8 * ((AtLeast4(x) \div 4) * LinesOf(y)) <= (AtLeast4(x) * AtLeast4(y)) \div 2
  <1> DEFINE a == AtLeast4(x)
             b == AtLeast4(y)
             p == a \div 4
             q == b \div 4
  <1>1. a \in Nat /\ b \in Nat
    BY LinesOfIs
  <1>2. LinesOf(y) = q
    BY DEF LinesOf
  <1> HIDE DEF a, b
  <1>3. p \in Nat /\ q \in Nat /\ 4 * p <= a /\ 4 * q <= b
    BY <1>1
  <1> HIDE DEF p, q
  <1>4. (4 * p) * (4 * q) <= a * b
    BY <1>1, <1>3
  <1>5. (4 * p) * (4 * q) = 16 * (p * q) /\ p * q \in Nat /\ a * b \in Nat
    BY <1>1, <1>3
  <1>6. 8 * (p * q) <= (a * b) \div 2
    BY <1>4, <1>5
  <1>7. QED
    BY <1>2, <1>6 DEF a, b, p
-----------------------------------------------------------------------------
(* One level                                                               *)

Level ==
    [x : Nat \ {0}, y : Nat \ {0}, lines : Nat \ {0}, left : Nat, block : Nat,
     loaded : Nat, acc : Nat, sema : Nat, load : LoadPC, alive : BOOLEAN]

\* The lines of a level that are handed out, in how many parts, and the permits
\* there have ever been.
Handed(b) == LinesOf(b.y) - b.left
Taken(b) == CeilDiv(Handed(b), b.lines)
Permits(b) == b.sema + Taken(b)

\* The loader has announced what it has loaded, in whole parts of b.lines, and
\* the rest it still counts; NextBlock has taken whole parts unless it took all.
LevelInv(b) ==
    /\ b \in Level
    /\ b.left <= LinesOf(b.y) /\ b.loaded <= LinesOf(b.y)
    /\ b.left > 0 => Handed(b) = Taken(b) * b.lines
    /\ b.block = b.x * (4 * Handed(b))
    /\ b.load \in {"none", "end", "done"} =>
         b.loaded = LinesOf(b.y) /\ LinesOf(b.y) <= Permits(b) * b.lines
    /\ b.load = "wait" => b.loaded = 0 /\ b.acc = 0 /\ Permits(b) = 0
    /\ b.load = "read" => b.loaded = Permits(b) * b.lines + b.acc /\ b.acc < b.lines
    /\ b.load = "signal" => b.loaded = Permits(b) * b.lines + b.acc /\ b.acc = b.lines

LEMMA LevelNumbers ==
    ASSUME NEW b, LevelInv(b)
    PROVE  /\ LinesOf(b.y) \in Nat \ {0}
           /\ Handed(b) \in Nat /\ Taken(b) \in Nat /\ Permits(b) \in Nat
           /\ Taken(b) <= Permits(b)
           /\ Handed(b) <= Taken(b) * b.lines
  <1>1. b \in Level /\ b.left <= LinesOf(b.y)
    BY DEF LevelInv
  <1>2. b.y \in Nat /\ b.left \in Nat /\ b.lines \in Nat \ {0} /\ b.sema \in Nat
    BY <1>1 DEF Level
  <1>3. LinesOf(b.y) \in Nat \ {0}
    BY <1>2, LinesOfIs
  <1>4. Handed(b) \in Nat
    BY <1>1, <1>2, <1>3 DEF Handed
  <1>5. Taken(b) \in Nat /\ Handed(b) <= Taken(b) * b.lines
    BY <1>2, <1>4, CeilDivIs DEF Taken
  <1>6. QED
    BY <1>2, <1>3, <1>4, <1>5 DEF Permits

LEMMA LoadStarts ==
    ASSUME NEW b, LevelInv(b), b.load = "wait"
    PROVE  LevelInv([b EXCEPT !.load = "read"])
  <1> DEFINE c == [b EXCEPT !.load = "read"]
  <1>1. b \in Level
    BY DEF LevelInv
  <1>2. c \in Level /\ c.load = "read" /\ c.x = b.x /\ c.y = b.y /\ c.lines = b.lines /\ c.left = b.left
        /\ c.block = b.block /\ c.loaded = b.loaded /\ c.acc = b.acc /\ c.sema = b.sema
    BY <1>1 DEF Level, LoadPC
  <1>3. Handed(c) = Handed(b) /\ Taken(c) = Taken(b) /\ Permits(c) = Permits(b)
    BY <1>2 DEF Handed, Taken, Permits
  <1>4. b.lines \in Nat \ {0} /\ 0 * b.lines + 0 = 0
    BY <1>1 DEF Level
  <1> HIDE DEF c
  <1>5. QED
    BY <1>2, <1>3, <1>4 DEF LevelInv, c

LEMMA RowsLoad ==
    ASSUME NEW b, LevelInv(b), b.load = "read", b.loaded < LinesOf(b.y)
    PROVE  LevelInv([b EXCEPT !.loaded = @ + 1, !.acc = @ + 1,
                              !.load = IF PartComplete(b.acc + 1, b.lines) THEN "signal" ELSE "read"])
  <1> DEFINE l == IF PartComplete(b.acc + 1, b.lines) THEN "signal" ELSE "read"
             c == [b EXCEPT !.loaded = @ + 1, !.acc = @ + 1, !.load = l]
  <1>1. b \in Level
    BY DEF LevelInv
  <1>2. l \in {"signal", "read"} /\ (l = "signal" <=> b.acc + 1 >= b.lines)
    BY DEF PartComplete
  <1> HIDE DEF l
  <1>3. c \in Level /\ c.load = l /\ c.x = b.x /\ c.y = b.y /\ c.lines = b.lines /\ c.left = b.left
        /\ c.block = b.block /\ c.loaded = b.loaded + 1 /\ c.acc = b.acc + 1 /\ c.sema = b.sema
    <2> DEFINE n == b.loaded + 1
               m == b.acc + 1
               d == [b EXCEPT !.loaded = n, !.acc = m, !.load = l]
    <2>1. n \in Nat /\ m \in Nat /\ l \in LoadPC
      BY <1>1, <1>2 DEF Level, LoadPC
    <2>2. c = d
      OBVIOUS
    <2> HIDE DEF n, m
    <2>3. d \in Level
      BY <1>1, <2>1 DEF Level
    <2>4. d.load = l /\ d.x = b.x /\ d.y = b.y /\ d.lines = b.lines /\ d.left = b.left
          /\ d.block = b.block /\ d.loaded = n /\ d.acc = m /\ d.sema = b.sema
      BY <1>1 DEF Level
    <2> HIDE DEF c, d
    <2>5. QED
      BY <2>2, <2>3, <2>4 DEF n, m
  <1>4. Handed(c) = Handed(b) /\ Taken(c) = Taken(b) /\ Permits(c) = Permits(b)
    BY <1>3 DEF Handed, Taken, Permits
  <1>5. b.loaded = Permits(b) * b.lines + b.acc /\ b.acc < b.lines
    BY DEF LevelInv
  <1>6. b.lines \in Nat \ {0} /\ b.acc \in Nat /\ b.loaded \in Nat /\ LinesOf(b.y) \in Nat /\ Permits(b) \in Nat
    BY <1>1, LevelNumbers DEF Level
  <1>7. Permits(b) * b.lines \in Nat
    BY <1>6
  <1>8. b.loaded + 1 <= LinesOf(b.y) /\ b.loaded + 1 = Permits(b) * b.lines + (b.acc + 1)
        /\ (l = "read" => b.acc + 1 < b.lines) /\ (l = "signal" => b.acc + 1 = b.lines)
    BY <1>2, <1>5, <1>6, <1>7
  <1> HIDE DEF c
  <1>9. LevelInv(c)
    BY <1>2, <1>3, <1>4, <1>8 DEF LevelInv
  <1>10. QED
    BY <1>9 DEF c, l

LEMMA PartSignalled ==
    ASSUME NEW b, LevelInv(b), b.load = "signal"
    PROVE  LevelInv([Unlock(b) EXCEPT !.acc = 0, !.load = "read"])
  <1> DEFINE c == [Unlock(b) EXCEPT !.acc = 0, !.load = "read"]
  <1>1. b \in Level
    BY DEF LevelInv
  <1>2. c \in Level /\ c.load = "read" /\ c.x = b.x /\ c.y = b.y /\ c.lines = b.lines /\ c.left = b.left
        /\ c.block = b.block /\ c.loaded = b.loaded /\ c.acc = 0 /\ c.sema = b.sema + 1
    <2>1. Unlock(b) \in Level /\ Unlock(b).sema = b.sema + 1
      BY <1>1 DEF Unlock, Level
    <2>2. Unlock(b).x = b.x /\ Unlock(b).y = b.y /\ Unlock(b).lines = b.lines /\ Unlock(b).left = b.left
          /\ Unlock(b).block = b.block /\ Unlock(b).loaded = b.loaded /\ Unlock(b).acc = b.acc
      BY <1>1 DEF Unlock, Level
    <2>3. QED
      BY <2>1, <2>2 DEF Level, LoadPC
  <1>3. b.lines \in Nat \ {0} /\ b.sema \in Nat /\ Taken(b) \in Nat /\ Permits(b) \in Nat
    BY <1>1, LevelNumbers DEF Level
  <1>4. Handed(c) = Handed(b) /\ Taken(c) = Taken(b) /\ Permits(c) = Permits(b) + 1
    BY <1>2, <1>3 DEF Handed, Taken, Permits
  <1>5. b.loaded = Permits(b) * b.lines + b.acc /\ b.acc = b.lines
    BY DEF LevelInv
  <1>6. b.loaded = (Permits(b) + 1) * b.lines + 0 /\ 0 < b.lines
    BY <1>3, <1>5
  <1> HIDE DEF c
  <1>7. LevelInv(c)
    BY <1>2, <1>4, <1>6 DEF LevelInv
  <1>8. QED
    BY <1>7 DEF c

LEMMA TailSignalled ==
    ASSUME NEW b, LevelInv(b), b.load = "read", b.loaded = LinesOf(b.y)
    PROVE  /\ LevelInv([Unlock(b) EXCEPT !.load = "end"])
           /\ b.acc = 0 => LevelInv([b EXCEPT !.load = "end"])
  <1> DEFINE c == [Unlock(b) EXCEPT !.load = "end"]
             d == [b EXCEPT !.load = "end"]
  <1>1. b \in Level
    BY DEF LevelInv
  <1>2. c \in Level /\ c.load = "end" /\ c.x = b.x /\ c.y = b.y /\ c.lines = b.lines /\ c.left = b.left
        /\ c.block = b.block /\ c.loaded = b.loaded /\ c.acc = b.acc /\ c.sema = b.sema + 1
    <2>1. Unlock(b) \in Level /\ Unlock(b).sema = b.sema + 1
      BY <1>1 DEF Unlock, Level
    <2>2. Unlock(b).x = b.x /\ Unlock(b).y = b.y /\ Unlock(b).lines = b.lines /\ Unlock(b).left = b.left
          /\ Unlock(b).block = b.block /\ Unlock(b).loaded = b.loaded /\ Unlock(b).acc = b.acc
      BY <1>1 DEF Unlock, Level
    <2>3. QED
      BY <2>1, <2>2 DEF Level, LoadPC
  <1>3. d \in Level /\ d.load = "end" /\ d.x = b.x /\ d.y = b.y /\ d.lines = b.lines /\ d.left = b.left
        /\ d.block = b.block /\ d.loaded = b.loaded /\ d.acc = b.acc /\ d.sema = b.sema
    BY <1>1 DEF Level, LoadPC
  <1>4. b.lines \in Nat \ {0} /\ b.acc \in Nat /\ b.sema \in Nat /\ Taken(b) \in Nat /\ Permits(b) \in Nat
    BY <1>1, LevelNumbers DEF Level
  <1>5. Handed(c) = Handed(b) /\ Taken(c) = Taken(b) /\ Permits(c) = Permits(b) + 1
    BY <1>2, <1>4 DEF Handed, Taken, Permits
  <1>6. Handed(d) = Handed(b) /\ Taken(d) = Taken(b) /\ Permits(d) = Permits(b)
    BY <1>3 DEF Handed, Taken, Permits
  <1>7. LinesOf(b.y) = Permits(b) * b.lines + b.acc /\ b.acc < b.lines
    BY DEF LevelInv
  <1>8. LinesOf(b.y) <= (Permits(b) + 1) * b.lines /\ (b.acc = 0 => LinesOf(b.y) <= Permits(b) * b.lines)
    BY <1>4, <1>7
  <1> HIDE DEF c, d
  <1>9. LevelInv(c)
    BY <1>2, <1>5, <1>8 DEF LevelInv
  <1>10. b.acc = 0 => LevelInv(d)
    BY <1>3, <1>6, <1>8 DEF LevelInv
  <1>11. QED
    BY <1>9, <1>10 DEF c, d

LEMMA LoadEnds ==
    ASSUME NEW b, LevelInv(b), b.load = "end"
    PROVE  LevelInv([b EXCEPT !.load = "done"])
  <1> DEFINE c == [b EXCEPT !.load = "done"]
  <1>1. b \in Level
    BY DEF LevelInv
  <1>2. c \in Level /\ c.load = "done" /\ c.x = b.x /\ c.y = b.y /\ c.lines = b.lines /\ c.left = b.left
        /\ c.block = b.block /\ c.loaded = b.loaded /\ c.acc = b.acc /\ c.sema = b.sema
    BY <1>1 DEF Level, LoadPC
  <1>3. Handed(c) = Handed(b) /\ Taken(c) = Taken(b) /\ Permits(c) = Permits(b)
    BY <1>2 DEF Handed, Taken, Permits
  <1> HIDE DEF c
  <1>4. QED
    BY <1>2, <1>3 DEF LevelInv, c

LEMMA DataFreed ==
    ASSUME NEW b, LevelInv(b)
    PROVE  LevelInv([b EXCEPT !.alive = FALSE])
  <1> DEFINE c == [b EXCEPT !.alive = FALSE]
  <1>1. b \in Level
    BY DEF LevelInv
  <1>2. c \in Level /\ c.load = b.load /\ c.x = b.x /\ c.y = b.y /\ c.lines = b.lines /\ c.left = b.left
        /\ c.block = b.block /\ c.loaded = b.loaded /\ c.acc = b.acc /\ c.sema = b.sema
    BY <1>1 DEF Level
  <1>3. Handed(c) = Handed(b) /\ Taken(c) = Taken(b) /\ Permits(c) = Permits(b)
    BY <1>2 DEF Handed, Taken, Permits
  <1> HIDE DEF c
  <1>4. QED
    BY <1>2, <1>3 DEF LevelInv, c

\* NextBlock takes a part: it has been announced, and so it is loaded.
NextLines(b) == IF b.lines < b.left THEN b.lines ELSE b.left
AfterPart(b, n) == [b EXCEPT !.sema = @ - 1, !.left = @ - n, !.block = @ + b.x * 4 * n]

LEMMA PartTaken ==
    ASSUME NEW b, LevelInv(b), b.sema > 0, b.left > 0,
           NEW n, n = NextLines(b),
           NEW c, c = AfterPart(b, n)
    PROVE  /\ LevelInv(c)
           /\ c.x = b.x /\ c.y = b.y /\ c.lines = b.lines /\ c.left = b.left - n
           /\ c.loaded = b.loaded /\ c.alive = b.alive
           /\ Taken(c) = Taken(b) + 1
           /\ n \in 1..b.left /\ Handed(b) + n <= b.loaded
  <1>1. b \in Level
    BY DEF LevelInv
  <1>2. /\ b.x \in Nat \ {0} /\ b.y \in Nat \ {0} /\ b.lines \in Nat \ {0} /\ b.left \in Nat
        /\ b.block \in Nat /\ b.sema \in Nat /\ b.loaded \in Nat /\ b.acc \in Nat
    BY <1>1 DEF Level
  <1>3. n \in 1..b.left /\ n <= b.lines /\ (n # b.lines => n = b.left)
    BY <1>2 DEF NextLines
  <1>4. LinesOf(b.y) \in Nat \ {0} /\ Handed(b) \in Nat /\ Taken(b) \in Nat /\ Permits(b) \in Nat
    BY LevelNumbers
  <1> DEFINE s == b.sema - 1
             l == b.left - n
             k == b.block + b.x * 4 * n
             d == [b EXCEPT !.sema = s, !.left = l, !.block = k]
  <1>5. s \in Nat /\ l \in Nat /\ k \in Nat
    BY <1>2, <1>3
  <1>6. c = d
    BY DEF AfterPart
  <1> HIDE DEF s, l, k
  <1>7. d \in Level
    BY <1>1, <1>5 DEF Level
  <1>8. d.load = b.load /\ d.x = b.x /\ d.y = b.y /\ d.lines = b.lines /\ d.left = l
        /\ d.block = k /\ d.loaded = b.loaded /\ d.acc = b.acc /\ d.sema = s /\ d.alive = b.alive
    BY <1>1 DEF Level
  <1> HIDE DEF d
  <1>9. Handed(c) = Handed(b) + n
    BY <1>2, <1>3, <1>4, <1>6, <1>8 DEF Handed, l
  <1>10. Handed(b) = Taken(b) * b.lines
    BY DEF LevelInv
  <1>11. Taken(c) = Taken(b) + 1
    <2>1. n \in 1..b.lines
      BY <1>2, <1>3
    <2>2. CeilDiv(Taken(b) * b.lines + n, b.lines) = Taken(b) + 1
      BY <1>2, <1>4, <2>1, CeilDivNext
    <2>3. QED
      BY <1>6, <1>8, <1>9, <1>10, <2>2 DEF Taken
  <1>12. Permits(c) = Permits(b)
    BY <1>2, <1>4, <1>6, <1>8, <1>11 DEF Permits, s
  <1>13. Taken(b) + 1 <= Permits(b)
    BY <1>2, <1>4 DEF Permits
  <1>14. Handed(b) + n <= LinesOf(b.y)
    BY <1>2, <1>3, <1>4 DEF Handed
  <1>15. Handed(b) + n <= b.loaded
    <2>1. CASE b.loaded = LinesOf(b.y)
      BY <1>14, <2>1
    <2>2. CASE b.load \in {"read", "signal"}
      <3>1. b.loaded = Permits(b) * b.lines + b.acc
        BY <2>2 DEF LevelInv
      <3>2. (Taken(b) + 1) * b.lines <= Permits(b) * b.lines
        BY <1>2, <1>4, <1>13
      <3>3. (Taken(b) + 1) * b.lines = Taken(b) * b.lines + b.lines
        BY <1>2, <1>4
      <3>4. Taken(b) * b.lines \in Nat /\ Permits(b) * b.lines \in Nat
        BY <1>2, <1>4
      <3>5. QED
        BY <1>2, <1>3, <1>10, <3>1, <3>2, <3>3, <3>4
    <2>3. CASE b.load = "wait"
      BY <1>4, <1>13, <2>3 DEF LevelInv
    <2>4. QED
      BY <2>1, <2>2, <2>3 DEF LevelInv, Level, LoadPC
  <1>16. k = b.x * (4 * (Handed(b) + n))
    <2>1. b.block = b.x * (4 * Handed(b))
      BY DEF LevelInv
    <2>2. b.x * (4 * (Handed(b) + n)) = b.x * (4 * Handed(b)) + b.x * 4 * n
      BY <1>2, <1>3, <1>4
    <2>3. QED
      BY <2>1, <2>2 DEF k
  <1>17. l > 0 => Handed(b) + n = (Taken(b) + 1) * b.lines
    <2>1. l > 0 => n = b.lines
      BY <1>2, <1>3 DEF l
    <2>2. QED
      BY <1>2, <1>4, <1>10, <2>1
  <1>18. l <= LinesOf(b.y)
    BY <1>2, <1>3, <1>4 DEF l, LevelInv
  <1>19. LevelInv(c)
    <2>1. c \in Level /\ c.left <= LinesOf(c.y) /\ c.loaded <= LinesOf(c.y)
      BY <1>6, <1>7, <1>8, <1>18 DEF LevelInv
    <2>2. c.left > 0 => Handed(c) = Taken(c) * c.lines
      BY <1>6, <1>8, <1>9, <1>11, <1>17
    <2>3. c.block = c.x * (4 * Handed(c))
      BY <1>6, <1>8, <1>9, <1>16
    <2>4. QED
      BY <1>6, <1>8, <1>12, <2>1, <2>2, <2>3 DEF LevelInv
  <1>20. QED
    BY <1>3, <1>6, <1>8, <1>11, <1>15, <1>19 DEF l

\* A level from which nothing is taken yet
LEMMA NothingTaken ==
    ASSUME NEW b \in Level, b.left = LinesOf(b.y)
    PROVE  Handed(b) = 0 /\ Taken(b) = 0 /\ Permits(b) = b.sema /\ b.x * (4 * Handed(b)) = 0
           /\ LinesOf(b.y) \in Nat \ {0}
  <1>1. b.y \in Nat /\ b.lines \in Nat \ {0} /\ b.sema \in Nat /\ b.x \in Nat
    BY DEF Level
  <1>2. LinesOf(b.y) \in Nat \ {0}
    BY <1>1, LinesOfIs
  <1>3. Handed(b) = 0
    BY <1>2 DEF Handed
  <1>4. Taken(b) = 0
    BY <1>1, <1>3, CeilDivIs DEF Taken
  <1>5. QED
    BY <1>1, <1>2, <1>3, <1>4 DEF Permits

LEMMA FirstLevel ==
    ASSUME NEW x \in Nat \ {0}, NEW y \in Nat \ {0}, y % 4 = 0, NEW m \in Nat \ {0},
           NEW b, b = PngBitmap(x, y, m) \/ b = RawBitmap(x, y, m)
    PROVE  LevelInv(b) /\ b.x = x /\ b.y = y /\ b.lines = m /\ b.left = LinesOf(y) /\ b.alive
           /\ Taken(b) = 0
  <1>1. LinesOf(y) = y \div 4 /\ LinesOf(y) \in Nat \ {0}
    BY LinesOfIs
  <1> DEFINE l == LinesOf(y)
  <1>2. LinesOf(y) = l
    OBVIOUS
  <1>3. l \in Nat \ {0} /\ y \div 4 = l
    BY <1>1
  <1> HIDE DEF l
  <1>4. CASE b = PngBitmap(x, y, m)
    <2>1. b \in Level /\ b.x = x /\ b.y = y /\ b.lines = m /\ b.left = l /\ b.alive
          /\ b.sema = 0 /\ b.load = "read" /\ b.block = 0 /\ b.loaded = 0 /\ b.acc = 0
      BY <1>3, <1>4 DEF PngBitmap, Level, LoadPC
    <2>2. Handed(b) = 0 /\ Taken(b) = 0 /\ Permits(b) = 0 /\ b.x * (4 * Handed(b)) = 0
      BY <1>2, <2>1, NothingTaken
    <2>3. 0 * m + 0 = 0
      OBVIOUS
    <2>4. QED
      BY <1>2, <1>3, <2>1, <2>2, <2>3 DEF LevelInv
  <1>5. CASE b = RawBitmap(x, y, m)
    <2>1. b \in Level /\ b.x = x /\ b.y = y /\ b.lines = m /\ b.left = l /\ b.alive
          /\ b.sema = l /\ b.load = "none" /\ b.block = 0 /\ b.loaded = l /\ b.acc = 0
      BY <1>3, <1>5 DEF RawBitmap, PngBitmap, Level, LoadPC
    <2>2. Handed(b) = 0 /\ Taken(b) = 0 /\ Permits(b) = l /\ b.x * (4 * Handed(b)) = 0
      BY <1>2, <2>1, NothingTaken
    <2>3. l <= l * m /\ 0 * m = 0
      BY <1>3
    <2>4. QED
      BY <1>2, <1>3, <2>1, <2>2, <2>3 DEF LevelInv
  <1>6. QED
    BY <1>4, <1>5

\* The constructor of a small level counts rows instead of lines, and unlocks
\* more often than NextBlock will lock.
LEMMA SmallLevelSuffices ==
    ASSUME NEW l \in Nat \ {0}, NEW m \in Nat \ {0},
           NEW h \in Nat, h \div 4 = l
    PROVE  SmallLevelPermits(h, m) \in Nat /\ l <= SmallLevelPermits(h, m) * m
  <1> DEFINE p == SmallLevelPermits(h, m)
             q == (l * 4) \div (m + 1)
             r == (l * 4) % (m + 1)
  <1>1. p = q + (IF r # 0 THEN 1 ELSE 0)
    BY DEF SmallLevelPermits
  <1>2. q \in Nat /\ r \in Nat /\ l * 4 = (m + 1) * q + r /\ r < m + 1
    <2> DEFINE a == l * 4
               k == m + 1
    <2>1. a \in Nat /\ k \in Nat \ {0}
      OBVIOUS
    <2> HIDE DEF a, k
    <2>2. a \div k \in Nat /\ a % k \in Nat /\ a % k < k
      BY <2>1
    <2>3. a % k = a - k * (a \div k)
      BY <2>1, SMTT(60)
    <2>4. q = a \div k /\ r = a % k
      BY DEF a, k
    <2> HIDE DEF q, r
    <2>5. q \in Nat /\ r \in Nat /\ a = k * q + r /\ r < k
      BY <2>1, <2>2, <2>3, <2>4
    <2>6. QED
      BY <2>5 DEF a, k
  <1> HIDE DEF p, q, r
  <1>3. p \in Nat /\ l * 4 <= (m + 1) * p
    <2>1. CASE r = 0
      BY <1>1, <1>2, <2>1
    <2>2. CASE r # 0
      <3>1. p = q + 1 /\ (m + 1) * (q + 1) = (m + 1) * q + (m + 1)
        BY <1>1, <1>2, <2>2
      <3>2. (m + 1) * q \in Nat
        BY <1>2
      <3>3. QED
        BY <1>2, <3>1, <3>2
    <2>3. QED
      BY <2>1, <2>2
  <1>4. (m + 1) * p = p * m + p /\ p <= p * m /\ p * m \in Nat
    BY <1>3
  <1>5. l <= p * m
    BY <1>3, <1>4
  <1>6. QED
    BY <1>3, <1>5 DEF p

LEMMA NextLevel ==
    ASSUME NEW src \in Level, NEW m \in Nat \ {0}, NEW b, b = BitmapDownsampled(src, m)
    PROVE  LevelInv(b) /\ b.x = Half(src.x) /\ b.y = Half(src.y) /\ b.lines = m
           /\ b.left = LinesOf(b.y) /\ b.alive /\ Taken(b) = 0
  <1>0. PICK x, y, l, p : /\ x = Half(src.x) /\ y = Half(src.y)
                          /\ l = LinesOf(y) /\ p = SmallLevelPermits(AtLeast4(y), m)
    OBVIOUS
  <1>a. PICK level : level = [PngBitmap(x, y, m) EXCEPT !.left = l]
    OBVIOUS
  <1>1. x \in Nat \ {0} /\ y \in Nat \ {0}
    BY <1>0 DEF Level, Half
  <1>2. l \in Nat \ {0} /\ AtLeast4(y) \in Nat /\ AtLeast4(y) \div 4 = l /\ LinesOf(y) = l
    BY <1>0, <1>1, LinesOfIs DEF LinesOf
  <1>3. p \in Nat /\ l <= p * m
    BY <1>0, <1>2, SmallLevelSuffices
  <1>4. b = IF x < 4 \/ y < 4
            THEN [level EXCEPT !.loaded = l, !.load = "none", !.sema = p]
            ELSE [level EXCEPT !.load = "wait"]
    BY <1>0, <1>a DEF BitmapDownsampled
  <1>6. CASE x < 4 \/ y < 4
    <2>1. b \in Level /\ b.x = x /\ b.y = y /\ b.lines = m /\ b.left = l /\ b.alive
          /\ b.sema = p /\ b.load = "none" /\ b.block = 0 /\ b.loaded = l /\ b.acc = 0
      <3>1. b = [level EXCEPT !.loaded = l, !.load = "none", !.sema = p]
        BY <1>4, <1>6
      <3>2. level = [x |-> x, y |-> y, lines |-> m, left |-> l, block |-> 0, loaded |-> 0,
                     acc |-> 0, sema |-> 0, load |-> "read", alive |-> TRUE]
        <4>1. PICK q, z : q = PngBitmap(x, y, m) /\ z = y \div 4
          OBVIOUS
        <4>2. q = [x |-> x, y |-> y, lines |-> m, left |-> z, block |-> 0, loaded |-> 0,
                   acc |-> 0, sema |-> 0, load |-> "read", alive |-> TRUE]
          BY <4>1 DEF PngBitmap
        <4>3. level = [q EXCEPT !.left = l]
          BY <1>a, <4>1
        <4>4. QED
          BY <4>2, <4>3
      <3>3. b = [x |-> x, y |-> y, lines |-> m, left |-> l, block |-> 0, loaded |-> l,
                     acc |-> 0, sema |-> p, load |-> "none", alive |-> TRUE]
        BY <3>1, <3>2
      <3>4. QED
        BY <1>1, <1>2, <1>3, <3>3 DEF Level, LoadPC
    <2>2. Handed(b) = 0 /\ Taken(b) = 0 /\ Permits(b) = p /\ b.x * (4 * Handed(b)) = 0
      BY <1>2, <2>1, NothingTaken
    <2>3. QED
      BY <1>0, <1>2, <1>3, <2>1, <2>2 DEF LevelInv
  <1>7. CASE ~(x < 4 \/ y < 4)
    <2>1. b \in Level /\ b.x = x /\ b.y = y /\ b.lines = m /\ b.left = l /\ b.alive
          /\ b.sema = 0 /\ b.load = "wait" /\ b.block = 0 /\ b.loaded = 0 /\ b.acc = 0
      <3>1. b = [level EXCEPT !.load = "wait"]
        BY <1>4, <1>7
      <3>2. level = [x |-> x, y |-> y, lines |-> m, left |-> l, block |-> 0, loaded |-> 0,
                     acc |-> 0, sema |-> 0, load |-> "read", alive |-> TRUE]
        <4>1. PICK q, z : q = PngBitmap(x, y, m) /\ z = y \div 4
          OBVIOUS
        <4>2. q = [x |-> x, y |-> y, lines |-> m, left |-> z, block |-> 0, loaded |-> 0,
                   acc |-> 0, sema |-> 0, load |-> "read", alive |-> TRUE]
          BY <4>1 DEF PngBitmap
        <4>3. level = [q EXCEPT !.left = l]
          BY <1>a, <4>1
        <4>4. QED
          BY <4>2, <4>3
      <3>3. b = [x |-> x, y |-> y, lines |-> m, left |-> l, block |-> 0, loaded |-> 0,
                     acc |-> 0, sema |-> 0, load |-> "wait", alive |-> TRUE]
        BY <3>1, <3>2
      <3>4. QED
        BY <1>1, <1>2, <3>3 DEF Level, LoadPC
    <2>2. Handed(b) = 0 /\ Taken(b) = 0 /\ Permits(b) = 0 /\ b.x * (4 * Handed(b)) = 0
      BY <1>2, <2>1, NothingTaken
    <2>3. QED
      BY <1>0, <1>2, <2>1, <2>2 DEF LevelInv
  <1>8. QED
    BY <1>6, <1>7
-----------------------------------------------------------------------------
(* The inductive invariant                                                 *)

Part == [level : Nat, src : Nat, width : Nat, lines : Nat, offset : Nat]

\* m_bmp: level k is what k - 1 halvings leave of the image, read with lines
\* that double, and every level but the last is handed out.
GeometryInv ==
    /\ img \in Images
    /\ bmp \in Seq(Level) /\ cur >= 1
    /\ lines = Lines * 2^(cur - 1)
    /\ \A k \in 1..cur :
          /\ LevelInv(bmp[k])
          /\ bmp[k].x = Halved(img.x, k - 1) /\ bmp[k].y = Halved(img.y, k - 1)
          /\ bmp[k].lines = Lines * 2^(k - 1)
          /\ k < cur => bmp[k].left = 0
    /\ cur <= NumberOfMipLevels(img.x, img.y)
    /\ img.mip \/ cur = 1

\* How far NextPart is, against the sums that NumberOfParts counts up.
CountInv ==
    /\ parts \in Seq(Part)
    /\ Len(parts) + PartsAt(img.y, Lines, cur - 1) =
         PartsUpTo(img.x, img.y, Lines)[cur - 1] + Taken(bmp[cur])
    /\ done \in BOOLEAN /\ (done <=> bmp[cur].left = 0)
    /\ done => ~img.mip \/ cur = NumberOfMipLevels(img.x, img.y)

\* The main thread.
ControlInv ==
    /\ mpc \in {"loop", "asleep", "free", "join", "gone"}
    /\ freed \in 0..cur /\ (mpc = "join" => freed < cur)
    /\ mpc = "asleep" => Len(parts) < Num /\ bmp[cur].sema = 0
    /\ mpc \in {"loop", "asleep"} => \A k \in 1..cur : bmp[k].alive
    /\ mpc \notin {"loop", "asleep"} => Len(parts) = Num /\ pending = {}
    /\ pending \subseteq 1..Len(parts)

\* What the tasks of the parts read
ReadsInv ==
    /\ \A p \in 1..Len(parts) : parts[p].level \in 1..cur
    /\ PartsAreLoaded

\* and write: the room of the lines that are left stays free.
EndOf(p) == p.offset + (p.width \div 4) * p.lines
WritesInv ==
    /\ offset \in Nat
    /\ 8 * (offset + (AtLeast4(bmp[cur].x) \div 4) * bmp[cur].left) <=
         (img.x * img.y) \div 2 + BytesUpTo(img.x, img.y)[cur - 1]
    /\ WritesInBounds
    /\ \A p \in 1..Len(parts) : bmp[parts[p].level].x >= 4 =>
          /\ EndOf(parts[p]) <= offset
          /\ \A q \in (p + 1)..Len(parts) : EndOf(parts[p]) <= parts[q].offset

ProviderInv == GeometryInv /\ CountInv /\ ControlInv /\ ReadsInv /\ WritesInv
-----------------------------------------------------------------------------
LEMMA ImageIs ==
    ASSUME img \in Images
    PROVE  /\ img.x \in Nat \ {0} /\ img.x % 4 = 0 /\ img.y \in Nat \ {0} /\ img.y % 4 = 0
           /\ img.mip \in BOOLEAN /\ img.raw \in BOOLEAN
           /\ Lines \in Nat \ {0}
           /\ NumberOfMipLevels(img.x, img.y) \in Nat \ {0}
  BY ImagesAssumption, LevelsExist

LEMMA CurrentLevel ==
    ASSUME GeometryInv
    PROVE  /\ cur \in Nat \ {0} /\ cur - 1 \in 0..(NumberOfMipLevels(img.x, img.y) - 1)
           /\ bmp[cur] \in Level /\ LevelInv(bmp[cur])
           /\ bmp[cur].x = Halved(img.x, cur - 1) /\ bmp[cur].y = Halved(img.y, cur - 1)
           /\ bmp[cur].lines = Lines * 2^(cur - 1) /\ lines = bmp[cur].lines
           /\ lines \in Nat \ {0}
  <1>1. bmp \in Seq(Level) /\ cur >= 1 /\ cur <= NumberOfMipLevels(img.x, img.y) /\ img \in Images
    BY DEF GeometryInv
  <1>2. cur \in Nat
    BY <1>1 DEF cur
  <1>3. cur \in 1..cur
    BY <1>1, <1>2
  <1>4. LevelInv(bmp[cur]) /\ bmp[cur].x = Halved(img.x, cur - 1) /\ bmp[cur].y = Halved(img.y, cur - 1)
        /\ bmp[cur].lines = Lines * 2^(cur - 1) /\ lines = Lines * 2^(cur - 1)
    BY <1>3 DEF GeometryInv
  <1>5. bmp[cur] \in Level
    BY <1>4 DEF LevelInv
  <1>6. bmp[cur].lines \in Nat \ {0}
    BY <1>5 DEF Level
  <1>7. QED
    BY <1>1, <1>2, <1>4, <1>5, <1>6, ImageIs

\* Where NextPart is against the number that NumberOfParts computed
LEMMA CountIs ==
    ASSUME GeometryInv, CountInv
    PROVE  Num \in Nat /\ Len(parts) \in Nat
           /\ (Len(parts) = Num <=> done) /\ (Len(parts) < Num <=> ~done)
  <1> DEFINE n == NumberOfMipLevels(img.x, img.y) - 1
             j == cur - 1
             upTo == PartsUpTo(img.x, img.y, Lines)
             at == PartsAt(img.y, Lines, j)
             last == IF img.mip THEN n ELSE 0
             b == bmp[cur]
  <1>1. /\ img.x \in Nat \ {0} /\ img.y \in Nat \ {0} /\ img.y % 4 = 0
        /\ img.mip \in BOOLEAN /\ Lines \in Nat \ {0}
    BY ImageIs DEF GeometryInv
  <1>2. /\ n \in Nat /\ upTo \in [0..n -> Nat]
        /\ \A i \in 0..n : upTo[i] <= upTo[n]
    <2>1. n \in Nat /\ PartsTable(upTo, img.y, Lines, n)
      BY <1>1, PartsUpToAre
    <2>2. QED
      BY <2>1 DEF PartsTable
  <1>3. j \in 0..n /\ LevelInv(b) /\ b.y = Halved(img.y, j) /\ b.lines = Lines * 2^j
    BY CurrentLevel
  <1>4. at \in Nat \ {0} /\ at = CeilDiv(LinesOf(b.y), b.lines)
    <2>1. at \in Nat \ {0}
      <3>1. j \in Nat
        BY <1>2, <1>3
      <3> HIDE DEF j
      <3>2. QED
        BY <1>1, <3>1, PartsAtIs
    <2>2. at = CeilDiv(LinesOf(b.y), b.lines)
      BY <1>3, Zenon DEF PartsAt
    <2>3. QED
      BY <2>1, <2>2
  <1>5. Num = upTo[last]
    BY DEF Num, NumberOfParts
  <1>6. Len(parts) + at = upTo[j] + Taken(b) /\ parts \in Seq(Part) /\ (done <=> b.left = 0)
    BY DEF CountInv
  <1>7. (done => last = j) /\ last \in 0..n /\ j <= last
    <2>1. img.mip \/ j = 0
      BY DEF GeometryInv
    <2>2. done => ~img.mip \/ j = n
      BY CurrentLevel DEF CountInv
    <2>3. QED
      BY <1>1, <1>2, <1>3, <2>1, <2>2
  <1>8. b.lines \in Nat \ {0} /\ b.left \in Nat /\ b.y \in Nat
    BY <1>3 DEF LevelInv, Level
  <1>9. LinesOf(b.y) \in Nat \ {0} /\ Taken(b) \in Nat /\ Handed(b) \in Nat
    BY <1>3, LevelNumbers
  <1> HIDE DEF n, j, upTo, at, b
  <1>10. Len(parts) \in Nat
    BY <1>6
  <1>11. CASE done
    <2>1. Taken(b) = at
      <3>1. Handed(b) = LinesOf(b.y)
        BY <1>6, <1>9, <1>11 DEF Handed
      <3>2. QED
        BY <1>4, <3>1 DEF Taken
    <2>2. Len(parts) = upTo[last]
      BY <1>2, <1>3, <1>4, <1>6, <1>7, <1>10, <1>11, <2>1
    <2> HIDE DEF last
    <2>3. QED
      BY <1>2, <1>5, <1>7, <1>10, <1>11, <2>2
  <1>12. CASE ~done
    <2>1. Taken(b) * b.lines = Handed(b) /\ Handed(b) < LinesOf(b.y)
      <3>1. b.left > 0
        BY <1>6, <1>8, <1>12
      <3>2. QED
        BY <1>3, <1>8, <1>9, <3>1 DEF LevelInv, Handed
    <2>2. LinesOf(b.y) <= at * b.lines
      BY <1>4, <1>8, <1>9, CeilDivIs
    <2>3. Taken(b) < at
      BY <1>4, <1>8, <1>9, <2>1, <2>2
    <2>4. Len(parts) < upTo[j]
      BY <1>2, <1>3, <1>4, <1>6, <1>9, <1>10, <2>3
    <2>5. upTo[j] <= upTo[last]
      <3>1. CASE img.mip
        BY <1>2, <1>3, <3>1
      <3>2. CASE ~img.mip
        <4>1. last = 0 /\ j = 0
          BY <1>2, <1>3, <1>7, <3>2
        <4>2. QED
          BY <1>2, <4>1
      <3>3. QED
        BY <3>1, <3>2
    <2> HIDE DEF last
    <2>6. QED
      BY <1>2, <1>3, <1>5, <1>7, <1>10, <1>12, <2>4, <2>5
  <1>13. QED
    BY <1>5, <1>6, <1>10, <1>11, <1>12

LEMMA ProviderInit == Init => ProviderInv
  <1> SUFFICES ASSUME Init PROVE ProviderInv
    OBVIOUS
  <1>1. /\ img.x \in Nat \ {0} /\ img.x % 4 = 0 /\ img.y \in Nat \ {0} /\ img.y % 4 = 0
        /\ img.mip \in BOOLEAN /\ Lines \in Nat \ {0}
        /\ NumberOfMipLevels(img.x, img.y) \in Nat \ {0} /\ img \in Images
    BY ImageIs DEF Init
  <1>2. Len(bmp) = 1 /\ cur = 1
    BY DEF Init, cur
  <1>3. bmp[1] = PngBitmap(img.x, img.y, Lines) \/ bmp[1] = RawBitmap(img.x, img.y, Lines)
    BY DEF Init
  <1>4. LevelInv(bmp[1]) /\ bmp[1].x = img.x /\ bmp[1].y = img.y /\ bmp[1].lines = Lines
        /\ bmp[1].left = LinesOf(img.y) /\ bmp[1].alive /\ Taken(bmp[1]) = 0
    BY <1>1, <1>3, FirstLevel
  <1>5. bmp = <<bmp[1]>> /\ bmp[1] \in Level
    BY <1>4 DEF Init, LevelInv
  <1>6. bmp \in Seq(Level)
    <2>1. PICK b : b = bmp[1]
      OBVIOUS
    <2>2. b \in Level /\ bmp = <<b>>
      BY <1>5, <2>1
    <2>3. QED
      BY <2>2
  <1>7. Lines * 2^0 = Lines /\ Halved(img.x, 0) = img.x /\ Halved(img.y, 0) = img.y /\ cur - 1 = 0
    <2>1. Lines * 2^0 = Lines /\ 0 \in Nat /\ cur - 1 = 0
      BY <1>1, <1>2
    <2>2. Halved(img.x, 0) = img.x /\ Halved(img.y, 0) = img.y
      BY <1>1, <2>1, HalvedAgain
    <2>3. QED
      BY <2>1, <2>2
  <1>8. GeometryInv
    BY <1>1, <1>2, <1>4, <1>6, <1>7 DEF GeometryInv, Init
  <1>9. LinesOf(img.y) \in Nat \ {0}
    BY <1>1, LinesOfIs
  <1>10. PartsUpTo(img.x, img.y, Lines)[0] = PartsAt(img.y, Lines, 0)
         /\ PartsAt(img.y, Lines, 0) \in Nat
    <2>1. 0 \in Nat
      OBVIOUS
    <2>2. PartsAt(img.y, Lines, 0) \in Nat
      BY <1>1, <2>1, PartsAtIs
    <2>3. PartsUpTo(img.x, img.y, Lines)[0] = PartsAt(img.y, Lines, 0)
      BY <1>1, PartsUpToAre
    <2>4. QED
      BY <2>2, <2>3
  <1>11. Len(parts) = 0 /\ parts \in Seq(Part) /\ done = FALSE
    BY DEF Init
  <1>12. CountInv
    <2>1. Len(parts) + PartsAt(img.y, Lines, cur - 1) =
            PartsUpTo(img.x, img.y, Lines)[cur - 1] + Taken(bmp[cur])
      BY <1>2, <1>4, <1>7, <1>10, <1>11
    <2>2. done \in BOOLEAN /\ ~done /\ bmp[cur].left # 0
      BY <1>2, <1>4, <1>9, <1>11
    <2>3. QED
      BY <1>11, <2>1, <2>2 DEF CountInv
  <1>13. ControlInv
    BY <1>2, <1>4, <1>11 DEF ControlInv, Init
  <1>14. ReadsInv
    BY <1>11 DEF ReadsInv, PartsAreLoaded
  <1>15. WritesInv
    <2>1. offset = 0
      BY DEF Init
    <2>2. AtLeast4(img.x) = img.x /\ AtLeast4(img.y) = img.y
      BY <1>1 DEF AtLeast4
    <2>3. 8 * ((AtLeast4(img.x) \div 4) * LinesOf(img.y)) <= (img.x * img.y) \div 2
      BY <1>1, <2>2, BlocksFit
    <2>4. BytesUpTo(img.x, img.y)[0] = 0
      BY <1>1, BytesUpToAre
    <2>5. (img.x * img.y) \div 2 \in Int /\ (AtLeast4(img.x) \div 4) * LinesOf(img.y) \in Int
      <3>1. AtLeast4(img.x) \in Nat
        BY <1>1, LinesOfIs
      <3>2. AtLeast4(img.x) \div 4 \in Nat /\ img.x * img.y \in Nat
        BY <1>1, <3>1
      <3>3. QED
        BY <1>9, <3>2
    <2>6. 8 * (offset + (AtLeast4(bmp[1].x) \div 4) * bmp[1].left) <=
            (img.x * img.y) \div 2 + BytesUpTo(img.x, img.y)[0]
      BY <1>4, <2>1, <2>3, <2>4, <2>5
    <2>7. QED
      BY <1>2, <1>7, <1>11, <2>1, <2>6 DEF WritesInv, WritesInBounds
  <1>16. QED
    BY <1>8, <1>12, <1>13, <1>14, <1>15 DEF ProviderInv

\* A step on a level that hands nothing out and takes no loaded row back
LEMMA LevelChange ==
    ASSUME ProviderInv, NEW k \in 1..cur, NEW c, LevelInv(c),
           bmp' = [bmp EXCEPT ![k] = c],
           c.x = bmp[k].x, c.y = bmp[k].y, c.lines = bmp[k].lines, c.left = bmp[k].left,
           c.loaded >= bmp[k].loaded,
           UNCHANGED <<img, lines, offset, done, parts, pending>>
    PROVE  /\ GeometryInv' /\ CountInv' /\ ReadsInv' /\ WritesInv'
           /\ cur' = cur /\ Num' = Num
           /\ \A j \in 1..cur : bmp'[j] = IF j = k THEN c ELSE bmp[j]
  <1>1. GeometryInv /\ CountInv /\ ReadsInv /\ WritesInv
    BY DEF ProviderInv
  <1>2. bmp \in Seq(Level) /\ c \in Level
    BY <1>1 DEF GeometryInv, LevelInv
  <1>3. cur \in Nat
    BY <1>2 DEF cur
  <1>4. bmp' \in Seq(Level) /\ cur' = cur
    BY <1>2 DEF cur
  <1>5. \A j \in 1..cur : bmp'[j] = IF j = k THEN c ELSE bmp[j]
    BY <1>2 DEF cur
  <1>6. \A j \in 1..cur : /\ bmp'[j].x = bmp[j].x /\ bmp'[j].y = bmp[j].y
                          /\ bmp'[j].lines = bmp[j].lines /\ bmp'[j].left = bmp[j].left
    BY <1>5
  <1>7. \A j \in 1..cur : LevelInv(bmp[j]) /\ LevelInv(bmp'[j])
    BY <1>1, <1>5 DEF GeometryInv
  <1>8. GeometryInv'
    <2>1. \A j \in 1..cur : LevelInv(bmp'[j])
      BY <1>7
    <2>2. QED
      BY <1>1, <1>4, <1>6, <2>1 DEF GeometryInv
  <1>9. cur \in 1..cur
    BY <1>1, <1>3 DEF GeometryInv
  <1>10. Taken(bmp'[cur]) = Taken(bmp[cur])
    BY <1>6, <1>9 DEF Taken, Handed
  <1>11. CountInv'
    BY <1>1, <1>4, <1>6, <1>9, <1>10 DEF CountInv
  <1>12. ReadsInv'
    <2>1. \A p \in 1..Len(parts) : parts[p].level \in 1..cur
      BY <1>1 DEF ReadsInv
    <2>2. ASSUME NEW p \in 1..Len(parts)
          PROVE  parts[p].src + parts[p].width * 4 * parts[p].lines
                   <= AtLeast4(bmp'[parts[p].level].x) * 4 * bmp'[parts[p].level].loaded
      <3> DEFINE j == parts[p].level
                 a == AtLeast4(bmp[j].x) * 4
                 e == parts[p].src + parts[p].width * 4 * parts[p].lines
      <3>1. j \in 1..cur /\ e <= a * bmp[j].loaded
        BY <1>1, <2>1 DEF ReadsInv, PartsAreLoaded
      <3>2. bmp[j] \in Level /\ bmp'[j] \in Level /\ parts[p] \in Part
        BY <1>1, <1>7, <3>1 DEF LevelInv, CountInv
      <3>3. bmp[j].loaded \in Nat /\ bmp'[j].loaded \in Nat /\ a \in Nat /\ e \in Nat
        <4>1. bmp[j].loaded \in Nat /\ bmp'[j].loaded \in Nat /\ bmp[j].x \in Nat
          BY <3>2 DEF Level
        <4>2. parts[p].src \in Nat /\ parts[p].width \in Nat /\ parts[p].lines \in Nat
          BY <3>2 DEF Part
        <4>3. AtLeast4(bmp[j].x) \in Nat
          BY <4>1, LinesOfIs
        <4>4. a \in Nat
          BY <4>3
        <4>5. e \in Nat
          <5>1. \A s, w, l \in Nat : s + w * 4 * l \in Nat
            OBVIOUS
          <5>2. QED
            BY <4>2, <5>1
        <4>6. QED
          BY <4>1, <4>4, <4>5
      <3>4. bmp[j].loaded <= bmp'[j].loaded
        BY <1>5, <3>1, <3>3
      <3>5. AtLeast4(bmp'[j].x) * 4 = a
        BY <1>6, <3>1
      <3> HIDE DEF j, a, e
      <3>6. a * bmp[j].loaded <= a * bmp'[j].loaded
        BY <3>3, <3>4
      <3>7. a * bmp[j].loaded \in Nat /\ a * bmp'[j].loaded \in Nat
        BY <3>3
      <3>8. e <= a * bmp'[j].loaded
        BY <3>1, <3>3, <3>6, <3>7
      <3>9. QED
        BY <3>5, <3>8 DEF j, e
    <2>3. QED
      BY <1>4, <2>1, <2>2 DEF ReadsInv, PartsAreLoaded
  <1>13. WritesInv'
    <2>1. \A p \in 1..Len(parts) : bmp'[parts[p].level].x = bmp[parts[p].level].x
      BY <1>1, <1>6 DEF ReadsInv
    <2>2. WritesInBounds'
      BY <1>1, <1>4 DEF WritesInv, WritesInBounds
    <2>3. QED
      BY <1>1, <1>4, <1>6, <1>9, <2>1, <2>2 DEF WritesInv, EndOf
  <1>14. Num' = Num
    BY DEF Num
  <1>15. QED
    BY <1>4, <1>5, <1>8, <1>11, <1>12, <1>13, <1>14

\* ControlInv after a step of a loader, which may wake the main thread
LEMMA LoaderControl ==
    ASSUME ProviderInv, NEW k \in 1..cur, NEW c,
           bmp' = [bmp EXCEPT ![k] = c], cur' = cur, Num' = Num,
           \A j \in 1..cur : bmp'[j] = IF j = k THEN c ELSE bmp[j],
           c.alive = bmp[k].alive,
           (mpc' = mpc /\ c.sema = bmp[k].sema) \/ WakeMain(k),
           UNCHANGED <<parts, pending, freed>>
    PROVE  ControlInv'
  <1>1. ControlInv
    BY DEF ProviderInv
  <1>2. cur \in 1..cur
    BY DEF ProviderInv, GeometryInv, cur
  <1>3. mpc' \in {mpc, "loop"} /\ (mpc' # mpc => mpc = "asleep")
    BY DEF WakeMain
  <1>4. mpc' = "asleep" => mpc = "asleep" /\ bmp'[cur].sema = bmp[cur].sema
    BY <1>2 DEF WakeMain
  <1>5. \A j \in 1..cur : bmp'[j].alive = bmp[j].alive
    OBVIOUS
  <1>6. mpc' \in {"loop", "asleep"} <=> mpc \in {"loop", "asleep"}
    BY <1>3
  <1>7. mpc' \in {"loop", "asleep", "free", "join", "gone"} /\ (mpc' = "join" <=> mpc = "join")
    BY <1>1, <1>3 DEF ControlInv
  <1>8. QED
    BY <1>1, <1>4, <1>5, <1>6, <1>7 DEF ControlInv

LEMMA LoaderKeeps ==
    ASSUME ProviderInv, NEW k \in 1..cur, LoaderStep(k)
    PROVE  ProviderInv'
  <1> DEFINE b == bmp[k]
  <1>1. LevelInv(b) /\ b \in Level
    BY DEF ProviderInv, GeometryInv, LevelInv
  <1>2. b.loaded \in Nat
    BY <1>1 DEF Level
  <1>3. CASE LoadStart(k)
    <2>1. PICK c : c = [b EXCEPT !.load = "read"]
      OBVIOUS
    <2>2. LevelInv(c)
      BY <1>1, <1>3, <2>1, LoadStarts DEF LoadStart
    <2>3. c.x = b.x /\ c.y = b.y /\ c.lines = b.lines /\ c.left = b.left /\ c.loaded = b.loaded
          /\ c.sema = b.sema /\ c.alive = b.alive
      BY <1>1, <2>1 DEF Level
    <2>4. bmp' = [bmp EXCEPT ![k] = c] /\ mpc' = mpc
          /\ UNCHANGED <<img, lines, offset, done, parts, pending>> /\ freed' = freed
      BY <1>3, <2>1 DEF LoadStart
    <2>5. /\ GeometryInv' /\ CountInv' /\ ReadsInv' /\ WritesInv'
          /\ cur' = cur /\ Num' = Num
          /\ \A j \in 1..cur : bmp'[j] = IF j = k THEN c ELSE bmp[j]
      <3>1. c.loaded >= b.loaded
        BY <1>2, <2>3
      <3>2. QED
        BY <2>2, <2>3, <2>4, <3>1, LevelChange, Zenon
    <2>6. ControlInv'
      BY <2>3, <2>4, <2>5, LoaderControl
    <2>7. QED
      BY <2>5, <2>6 DEF ProviderInv
  <1>4. CASE LoadRows(k)
    <2>1. PICK c : c = [b EXCEPT !.loaded = @ + 1, !.acc = @ + 1,
                                 !.load = IF PartComplete(b.acc + 1, b.lines) THEN "signal" ELSE "read"]
      OBVIOUS
    <2>2. LevelInv(c)
      BY <1>1, <1>4, <2>1, RowsLoad DEF LoadRows
    <2>3. c.x = b.x /\ c.y = b.y /\ c.lines = b.lines /\ c.left = b.left /\ c.loaded = b.loaded + 1
          /\ c.sema = b.sema /\ c.alive = b.alive
      BY <1>1, <2>1 DEF Level
    <2>4. bmp' = [bmp EXCEPT ![k] = c] /\ mpc' = mpc
          /\ UNCHANGED <<img, lines, offset, done, parts, pending>> /\ freed' = freed
      BY <1>4, <2>1 DEF LoadRows
    <2>5. /\ GeometryInv' /\ CountInv' /\ ReadsInv' /\ WritesInv'
          /\ cur' = cur /\ Num' = Num
          /\ \A j \in 1..cur : bmp'[j] = IF j = k THEN c ELSE bmp[j]
      <3>1. c.loaded >= b.loaded
        BY <1>2, <2>3
      <3>2. QED
        BY <2>2, <2>3, <2>4, <3>1, LevelChange, Zenon
    <2>6. ControlInv'
      BY <2>3, <2>4, <2>5, LoaderControl
    <2>7. QED
      BY <2>5, <2>6 DEF ProviderInv
  <1>5. CASE LoadSignal(k)
    <2>1. PICK c : c = [Unlock(b) EXCEPT !.acc = 0, !.load = "read"]
      OBVIOUS
    <2>2. LevelInv(c)
      BY <1>1, <1>5, <2>1, PartSignalled DEF LoadSignal
    <2>3. c.x = b.x /\ c.y = b.y /\ c.lines = b.lines /\ c.left = b.left /\ c.loaded = b.loaded
          /\ c.alive = b.alive
      BY <1>1, <2>1 DEF Level, Unlock
    <2>4. bmp' = [bmp EXCEPT ![k] = c] /\ WakeMain(k)
          /\ UNCHANGED <<img, lines, offset, done, parts, pending>> /\ freed' = freed
      BY <1>5, <2>1 DEF LoadSignal
    <2>5. /\ GeometryInv' /\ CountInv' /\ ReadsInv' /\ WritesInv'
          /\ cur' = cur /\ Num' = Num
          /\ \A j \in 1..cur : bmp'[j] = IF j = k THEN c ELSE bmp[j]
      <3>1. c.loaded >= b.loaded
        BY <1>2, <2>3
      <3>2. QED
        BY <2>2, <2>3, <2>4, <3>1, LevelChange, Zenon
    <2>6. ControlInv'
      BY <2>3, <2>4, <2>5, LoaderControl
    <2>7. QED
      BY <2>5, <2>6 DEF ProviderInv
  <1>6. CASE LoadTail(k)
    <2>1. PICK c : c = IF b.acc # 0 THEN [Unlock(b) EXCEPT !.load = "end"] ELSE [b EXCEPT !.load = "end"]
      OBVIOUS
    <2>2. LevelInv(c)
      BY <1>1, <1>6, <2>1, TailSignalled DEF LoadTail
    <2>3. c.x = b.x /\ c.y = b.y /\ c.lines = b.lines /\ c.left = b.left /\ c.loaded = b.loaded
          /\ c.alive = b.alive /\ (b.acc = 0 => c.sema = b.sema)
      BY <1>1, <2>1 DEF Level, Unlock
    <2>4. bmp' = [bmp EXCEPT ![k] = c] /\ ((mpc' = mpc /\ b.acc = 0) \/ WakeMain(k))
          /\ UNCHANGED <<img, lines, offset, done, parts, pending>> /\ freed' = freed
      BY <1>6, <2>1 DEF LoadTail
    <2>5. /\ GeometryInv' /\ CountInv' /\ ReadsInv' /\ WritesInv'
          /\ cur' = cur /\ Num' = Num
          /\ \A j \in 1..cur : bmp'[j] = IF j = k THEN c ELSE bmp[j]
      <3>1. c.loaded >= b.loaded
        BY <1>2, <2>3
      <3>2. QED
        BY <2>2, <2>3, <2>4, <3>1, LevelChange, Zenon
    <2>6. ControlInv'
      BY <2>3, <2>4, <2>5, LoaderControl
    <2>7. QED
      BY <2>5, <2>6 DEF ProviderInv
  <1>7. CASE LoadEnd(k)
    <2>1. PICK c : c = [b EXCEPT !.load = "done"]
      OBVIOUS
    <2>2. LevelInv(c)
      BY <1>1, <1>7, <2>1, LoadEnds DEF LoadEnd
    <2>3. c.x = b.x /\ c.y = b.y /\ c.lines = b.lines /\ c.left = b.left /\ c.loaded = b.loaded
          /\ c.sema = b.sema /\ c.alive = b.alive
      BY <1>1, <2>1 DEF Level
    <2>4. bmp' = [bmp EXCEPT ![k] = c] /\ mpc' = mpc
          /\ UNCHANGED <<img, lines, offset, done, parts, pending>> /\ freed' = freed
      BY <1>7, <2>1 DEF LoadEnd
    <2>5. /\ GeometryInv' /\ CountInv' /\ ReadsInv' /\ WritesInv'
          /\ cur' = cur /\ Num' = Num
          /\ \A j \in 1..cur : bmp'[j] = IF j = k THEN c ELSE bmp[j]
      <3>1. c.loaded >= b.loaded
        BY <1>2, <2>3
      <3>2. QED
        BY <2>2, <2>3, <2>4, <3>1, LevelChange, Zenon
    <2>6. ControlInv'
      BY <2>3, <2>4, <2>5, LoaderControl
    <2>7. QED
      BY <2>5, <2>6 DEF ProviderInv
  <1>8. QED
    BY <1>3, <1>4, <1>5, <1>6, <1>7 DEF LoaderStep

\* NextPart, as its n lines change the current level to c: either the level
\* stays the current one, or it is empty and its successor is appended.
StaysOn(c) ==
    /\ cur' = cur /\ lines' = lines
    /\ done' \in BOOLEAN /\ (done' <=> c.left = 0)
    /\ c.left = 0 => ~img.mip \/ (c.x = 1 /\ c.y = 1)
MovesOn(c) ==
    /\ cur' = cur + 1 /\ lines' = 2 * lines
    /\ done' = FALSE
    /\ c.left = 0 /\ img.mip /\ ~(c.x = 1 /\ c.y = 1)
    /\ LevelInv(bmp'[cur + 1])
    /\ bmp'[cur + 1].x = Half(c.x) /\ bmp'[cur + 1].y = Half(c.y)
    /\ bmp'[cur + 1].lines = 2 * lines /\ bmp'[cur + 1].alive
    /\ bmp'[cur + 1].left = LinesOf(bmp'[cur + 1].y) /\ Taken(bmp'[cur + 1]) = 0
HandsOut(n, c) ==
    /\ ~done /\ mpc = "loop"
    /\ LevelInv(c) /\ Taken(c) = Taken(bmp[cur]) + 1
    /\ c.x = bmp[cur].x /\ c.y = bmp[cur].y /\ c.lines = bmp[cur].lines
    /\ c.left = bmp[cur].left - n
    /\ c.loaded = bmp[cur].loaded /\ c.alive = bmp[cur].alive
    /\ n \in 1..bmp[cur].left /\ Handed(bmp[cur]) + n <= bmp[cur].loaded
    /\ parts' = Append(parts, [level |-> cur, src |-> bmp[cur].block,
                               width |-> AtLeast4(bmp[cur].x), lines |-> n, offset |-> offset])
    /\ pending' = pending \cup {Len(parts) + 1}
    /\ offset' = offset + (bmp[cur].x \div 4) * n
    /\ UNCHANGED <<img, mpc, freed>>
    /\ bmp' \in Seq(Level)
    /\ \A j \in 1..cur : bmp'[j] = IF j = cur THEN c ELSE bmp[j]
    /\ StaysOn(c) \/ MovesOn(c)

LEMMA NextPartIs ==
    ASSUME ProviderInv, NextPart
    PROVE  \E n, c : HandsOut(n, c)
  <1>1. GeometryInv /\ CountInv
    BY DEF ProviderInv
  <1>2. PICK b : b = bmp[cur]
    OBVIOUS
  <1>3. /\ cur \in Nat \ {0} /\ b \in Level /\ LevelInv(b) /\ lines = b.lines /\ lines \in Nat \ {0}
    BY <1>1, <1>2, CurrentLevel
  <1>4. mpc = "loop" /\ Len(parts) < Num /\ b.sema > 0
    BY <1>2 DEF NextPart
  <1>5. ~done
    BY <1>1, <1>4, CountIs
  <1>6. b.left \in Nat /\ b.left > 0
    BY <1>1, <1>2, <1>3, <1>5 DEF CountInv, Level
  <1>7. PICK n : n = NextLines(b)
    OBVIOUS
  <1>8. PICK c : c = AfterPart(b, n)
    OBVIOUS
  <1>9. /\ LevelInv(c)
        /\ c.x = b.x /\ c.y = b.y /\ c.lines = b.lines /\ c.left = b.left - n
        /\ c.loaded = b.loaded /\ c.alive = b.alive
        /\ Taken(c) = Taken(b) + 1
        /\ n \in 1..b.left /\ Handed(b) + n <= b.loaded
    BY <1>3, <1>4, <1>6, <1>7, <1>8, PartTaken
  <1>10. c \in Level
    BY <1>9 DEF LevelInv
  <1>11. PICK taken : taken = [bmp EXCEPT ![cur] = c]
    OBVIOUS
  <1>12. bmp \in Seq(Level) /\ cur = Len(bmp)
    BY <1>1 DEF GeometryInv, cur
  <1>13. taken \in Seq(Level) /\ Len(taken) = cur
         /\ \A j \in 1..cur : taken[j] = IF j = cur THEN c ELSE bmp[j]
    BY <1>3, <1>10, <1>11, <1>12
  <1>14. taken = [bmp EXCEPT ![cur].sema = @ - 1, ![cur].left = @ - n, ![cur].block = @ + b.x * 4 * n]
    BY <1>2, <1>3, <1>8, <1>11, <1>12 DEF AfterPart
  <1> DEFINE drained == b.left = n
             more == img.mip /\ (b.x # 1 \/ b.y # 1)
  <1>15. /\ parts' = Append(parts, [level |-> cur, src |-> b.block, width |-> AtLeast4(b.x),
                                    lines |-> n, offset |-> offset])
         /\ pending' = pending \cup {Len(parts) + 1}
         /\ offset' = offset + (b.x \div 4) * n
         /\ UNCHANGED <<img, mpc, freed>>
    BY <1>2, <1>7 DEF NextPart, NextOffset, NextLines
  <1>16. /\ bmp' = IF drained /\ more THEN Append(taken, BitmapDownsampled(b, 2 * lines)) ELSE taken
         /\ lines' = IF drained /\ more THEN 2 * lines ELSE lines
         /\ done' = (done \/ (drained /\ ~more))
    BY <1>2, <1>7, <1>14 DEF NextPart, NextLines
  <1>17. drained <=> c.left = 0
    BY <1>6, <1>9
  <1>18. CASE drained /\ more
    <2>1. PICK d : d = BitmapDownsampled(b, 2 * lines)
      OBVIOUS
    <2>2. LevelInv(d) /\ d.x = Half(b.x) /\ d.y = Half(b.y) /\ d.lines = 2 * lines
          /\ d.left = LinesOf(d.y) /\ d.alive /\ Taken(d) = 0
      <3>1. 2 * lines \in Nat \ {0}
        BY <1>3
      <3>2. QED
        BY <1>3, <2>1, <3>1, NextLevel
    <2>3. d \in Level
      BY <2>2 DEF LevelInv
    <2>4. bmp' = Append(taken, d) /\ lines' = 2 * lines
      BY <1>16, <1>18, <2>1
    <2>5. bmp' \in Seq(Level) /\ Len(bmp') = cur + 1 /\ bmp'[cur + 1] = d
          /\ \A j \in 1..cur : bmp'[j] = taken[j]
      BY <1>3, <1>13, <2>3, <2>4
    <2>6. cur' = cur + 1
      BY <2>5 DEF cur
    <2>7. done' = FALSE
      BY <1>5, <1>16, <1>18, Zenon
    <2>8. MovesOn(c)
      BY <1>9, <1>17, <1>18, <2>2, <2>4, <2>5, <2>6, <2>7 DEF MovesOn
    <2>9. \A j \in 1..cur : bmp'[j] = IF j = cur THEN c ELSE bmp[j]
      BY <1>13, <2>5
    <2>10. HandsOut(n, c)
      BY <1>2, <1>4, <1>5, <1>9, <1>15, <2>5, <2>8, <2>9 DEF HandsOut
    <2>11. QED
      BY <2>10
  <1>19. CASE ~(drained /\ more)
    <2>1. bmp' = taken /\ lines' = lines
      BY <1>16, <1>19
    <2>2. cur' = cur
      BY <1>13, <2>1 DEF cur
    <2>3. done' \in BOOLEAN /\ (done' <=> drained)
      <3>1. CASE drained
        BY <1>16, <1>19, <3>1, Zenon
      <3>2. CASE ~drained
        BY <1>5, <1>16, <3>2, Zenon
      <3>3. QED
        BY <3>1, <3>2
    <2>4. StaysOn(c)
      BY <1>9, <1>17, <1>19, <2>1, <2>2, <2>3 DEF StaysOn
    <2>5. HandsOut(n, c)
      BY <1>2, <1>4, <1>5, <1>9, <1>13, <1>15, <2>1, <2>4 DEF HandsOut
    <2>6. QED
      BY <2>5
  <1>20. QED
    BY <1>18, <1>19

LEMMA NextPartGeometry ==
    ASSUME GeometryInv, NEW n, NEW c, HandsOut(n, c)
    PROVE  GeometryInv'
  <1>1. /\ cur \in Nat \ {0} /\ cur - 1 \in 0..(NumberOfMipLevels(img.x, img.y) - 1)
        /\ bmp[cur].x = Halved(img.x, cur - 1) /\ bmp[cur].y = Halved(img.y, cur - 1)
        /\ bmp[cur].lines = Lines * 2^(cur - 1) /\ lines = bmp[cur].lines
        /\ lines \in Nat \ {0}
    BY CurrentLevel
  <1>2. img' = img /\ bmp' \in Seq(Level) /\ img \in Images
    BY DEF HandsOut, GeometryInv
  <1>3. \A k \in 1..cur : LevelInv(bmp'[k])
    BY DEF HandsOut, GeometryInv
  <1>4. \A k \in 1..cur : /\ bmp'[k].x = Halved(img.x, k - 1) /\ bmp'[k].y = Halved(img.y, k - 1)
                          /\ bmp'[k].lines = Lines * 2^(k - 1)
                          /\ k < cur => bmp'[k].left = 0
    <2> SUFFICES ASSUME NEW k \in 1..cur
                 PROVE  /\ bmp'[k].x = Halved(img.x, k - 1) /\ bmp'[k].y = Halved(img.y, k - 1)
                        /\ bmp'[k].lines = Lines * 2^(k - 1)
                        /\ k < cur => bmp'[k].left = 0
      OBVIOUS
    <2>1. CASE k = cur
      <3>1. bmp'[k] = c /\ c.x = bmp[cur].x /\ c.y = bmp[cur].y /\ c.lines = bmp[cur].lines
        BY <2>1 DEF HandsOut
      <3>2. QED
        BY <1>1, <2>1, <3>1
    <2>2. CASE k # cur
      <3>1. bmp'[k] = bmp[k]
        BY <2>2 DEF HandsOut
      <3>2. QED
        BY <3>1 DEF GeometryInv
    <2>3. QED
      BY <2>1, <2>2
  <1>5. CASE StaysOn(c)
    <2>1. cur' = cur /\ lines' = lines
      BY <1>5 DEF StaysOn
    <2>2. QED
      BY <1>2, <1>3, <1>4, <2>1 DEF GeometryInv
  <1>6. CASE MovesOn(c)
    <2>1. cur' = cur + 1 /\ lines' = 2 * lines /\ img.mip /\ LevelInv(bmp'[cur + 1])
      BY <1>6 DEF MovesOn
    <2>2. img.x \in Nat \ {0} /\ img.y \in Nat \ {0} /\ Lines \in Nat \ {0}
          /\ NumberOfMipLevels(img.x, img.y) \in Nat \ {0}
      BY <1>2, ImageIs
    <2>3. cur - 1 \in Nat /\ (cur - 1) + 1 = cur /\ (cur + 1) - 1 = cur
      BY <1>1
    <2>4. Half(Halved(img.x, cur - 1)) = Halved(img.x, cur) /\ Half(Halved(img.y, cur - 1)) = Halved(img.y, cur)
      <3>1. PICK i \in Nat : i = cur - 1
        BY <2>3
      <3>2. Half(Halved(img.x, i)) = Halved(img.x, i + 1) /\ Half(Halved(img.y, i)) = Halved(img.y, i + 1)
        BY <2>2, HalvedAgain
      <3>3. QED
        BY <2>3, <3>1, <3>2
    <2>5. bmp'[cur + 1].x = Halved(img.x, cur) /\ bmp'[cur + 1].y = Halved(img.y, cur)
      BY <1>1, <1>6, <2>4 DEF MovesOn, HandsOut
    <2>6. 2 * lines = Lines * 2^cur
      <3>1. 2^((cur - 1) + 1) = 2 * 2^(cur - 1) /\ 2^(cur - 1) \in Nat
        BY <2>3, PowerDoubles
      <3>2. 2^cur = 2 * 2^(cur - 1)
        BY <2>3, <3>1
      <3> DEFINE K == 2^(cur - 1)
                 L == 2^cur
      <3>3. L = 2 * K /\ K \in Nat /\ lines = Lines * K
        BY <1>1, <3>1, <3>2
      <3> HIDE DEF K, L
      <3>4. 2 * lines = Lines * L
        BY <2>2, <3>3
      <3>5. QED
        BY <3>4 DEF L
    <2>7. bmp'[cur + 1].lines = Lines * 2^cur
      BY <1>6, <2>6 DEF MovesOn
    <2>8. \A k \in 1..(cur + 1) : k \in 1..cur \/ k = cur + 1
      BY <1>1
    <2>9. bmp'[cur].left = 0
      <3>1. cur \in 1..cur
        BY <1>1
      <3>2. bmp'[cur] = c
        BY <3>1 DEF HandsOut
      <3>3. QED
        BY <1>6, <3>2 DEF MovesOn
    <2>10. cur + 1 <= NumberOfMipLevels(img.x, img.y)
      <3>1. ~(Halved(img.x, cur - 1) = 1 /\ Halved(img.y, cur - 1) = 1)
        BY <1>1, <1>6 DEF MovesOn, HandsOut
      <3>2. cur - 1 # NumberOfMipLevels(img.x, img.y) - 1
        BY <1>1, <2>2, <3>1, LastLevel
      <3>3. QED
        BY <1>1, <2>2, <3>2
    <2>11. \A k \in 1..(cur + 1) : LevelInv(bmp'[k])
      BY <1>3, <2>1, <2>8
    <2>12. \A k \in 1..(cur + 1) :
              /\ bmp'[k].x = Halved(img.x, k - 1) /\ bmp'[k].y = Halved(img.y, k - 1)
              /\ bmp'[k].lines = Lines * 2^(k - 1)
      <3> SUFFICES ASSUME NEW k \in 1..(cur + 1)
                   PROVE  /\ bmp'[k].x = Halved(img.x, k - 1) /\ bmp'[k].y = Halved(img.y, k - 1)
                          /\ bmp'[k].lines = Lines * 2^(k - 1)
        OBVIOUS
      <3>1. CASE k \in 1..cur
        BY <1>4, <3>1
      <3>2. CASE k = cur + 1
        <4>1. k - 1 = cur
          BY <2>3, <3>2
        <4>2. QED
          BY <2>5, <2>7, <3>2, <4>1
      <3>3. QED
        BY <2>8, <3>1, <3>2
    <2>13. \A k \in 1..(cur + 1) : k < cur + 1 => bmp'[k].left = 0
      BY <1>1, <1>4, <2>9
    <2>14. lines' = Lines * 2^(cur' - 1)
      BY <2>1, <2>3, <2>6
    <2>15. cur' >= 1
      BY <1>1, <2>1
    <2>16. QED
      BY <1>2, <2>1, <2>10, <2>11, <2>12, <2>13, <2>14, <2>15 DEF GeometryInv
  <1>7. QED
    BY <1>5, <1>6 DEF HandsOut

LEMMA NextPartCount ==
    ASSUME GeometryInv, CountInv, offset \in Nat, NEW n, NEW c, HandsOut(n, c)
    PROVE  CountInv'
  <1>1. /\ cur \in Nat \ {0} /\ cur - 1 \in 0..(NumberOfMipLevels(img.x, img.y) - 1)
        /\ bmp[cur] \in Level /\ LevelInv(bmp[cur])
        /\ bmp[cur].x = Halved(img.x, cur - 1) /\ bmp[cur].y = Halved(img.y, cur - 1)
        /\ bmp[cur].lines = Lines * 2^(cur - 1)
    BY CurrentLevel
  <1>2. /\ img.x \in Nat \ {0} /\ img.y \in Nat \ {0} /\ img.y % 4 = 0 /\ Lines \in Nat \ {0}
        /\ NumberOfMipLevels(img.x, img.y) \in Nat \ {0} /\ img.mip \in BOOLEAN
    BY ImageIs DEF GeometryInv
  <1>3. img' = img /\ parts \in Seq(Part)
    BY DEF HandsOut, CountInv
  <1>4. PICK e : e = [level |-> cur, src |-> bmp[cur].block, width |-> AtLeast4(bmp[cur].x),
                      lines |-> n, offset |-> offset]
    OBVIOUS
  <1>5. parts' = Append(parts, e)
    BY <1>4 DEF HandsOut
  <1>6. Len(parts) + PartsAt(img.y, Lines, cur - 1) =
          PartsUpTo(img.x, img.y, Lines)[cur - 1] + Taken(bmp[cur])
    BY DEF CountInv
  <1>7. Taken(c) = Taken(bmp[cur]) + 1 /\ Taken(bmp[cur]) \in Nat /\ LinesOf(bmp[cur].y) \in Nat
        /\ c.y = bmp[cur].y /\ c.lines = bmp[cur].lines
    BY <1>1, LevelNumbers DEF HandsOut
  <1>8. cur - 1 \in Nat /\ PartsAt(img.y, Lines, cur - 1) \in Nat \ {0}
    <2>1. cur - 1 \in Nat
      BY <1>1
    <2>2. QED
      BY <1>2, <2>1, PartsAtIs
  <1>9. PartsUpTo(img.x, img.y, Lines)[cur - 1] \in Nat
        /\ \A i \in 1..(NumberOfMipLevels(img.x, img.y) - 1) :
             PartsUpTo(img.x, img.y, Lines)[i] =
               PartsUpTo(img.x, img.y, Lines)[i - 1] + PartsAt(img.y, Lines, i)
    <2>1. PartsTable(PartsUpTo(img.x, img.y, Lines), img.y, Lines, NumberOfMipLevels(img.x, img.y) - 1)
      BY <1>2, PartsUpToAre
    <2>2. QED
      BY <1>1, <2>1 DEF PartsTable
  <1>10. parts' \in Seq(Part) /\ Len(parts') = Len(parts) + 1 /\ Len(parts) \in Nat
    <2>1. bmp[cur].block \in Nat /\ bmp[cur].x \in Nat
      BY <1>1 DEF Level
    <2>2. AtLeast4(bmp[cur].x) \in Nat
      BY <2>1, LinesOfIs
    <2>3. n \in Nat
      BY <1>1 DEF HandsOut, Level
    <2>4. e \in Part
      BY <1>1, <1>4, <2>1, <2>2, <2>3 DEF Part
    <2>5. QED
      BY <1>3, <1>5, <2>4
  <1>11. Len(parts') + PartsAt(img.y, Lines, cur - 1) =
           PartsUpTo(img.x, img.y, Lines)[cur - 1] + Taken(c)
    BY <1>6, <1>7, <1>8, <1>9, <1>10
  <1>12. CASE StaysOn(c)
    <2>1. cur' = cur /\ bmp'[cur] = c
      BY <1>1, <1>12 DEF StaysOn, HandsOut
    <2>2. done' \in BOOLEAN /\ (done' <=> c.left = 0)
      BY <1>12 DEF StaysOn
    <2>3. done' => ~img.mip \/ cur = NumberOfMipLevels(img.x, img.y)
      <3> SUFFICES ASSUME done', img.mip PROVE cur = NumberOfMipLevels(img.x, img.y)
        OBVIOUS
      <3>1. Halved(img.x, cur - 1) = 1 /\ Halved(img.y, cur - 1) = 1
        BY <1>1, <1>12 DEF StaysOn, HandsOut
      <3>2. cur - 1 = NumberOfMipLevels(img.x, img.y) - 1
        BY <1>1, <1>2, <3>1, LastLevel
      <3>3. QED
        BY <1>1, <1>2, <3>2
    <2>4. QED
      BY <1>3, <1>10, <1>11, <2>1, <2>2, <2>3 DEF CountInv
  <1>13. CASE MovesOn(c)
    <2>1. cur' = cur + 1 /\ (cur + 1) - 1 = cur /\ c.left = 0 /\ done' = FALSE
          /\ ~(Halved(img.x, cur - 1) = 1 /\ Halved(img.y, cur - 1) = 1)
      BY <1>1, <1>13 DEF MovesOn, HandsOut
    <2>2. cur \in 1..(NumberOfMipLevels(img.x, img.y) - 1)
      <3>1. cur - 1 # NumberOfMipLevels(img.x, img.y) - 1
        BY <1>1, <1>2, <2>1, LastLevel
      <3>2. QED
        BY <1>1, <1>2, <3>1
    <2>3. Taken(c) = PartsAt(img.y, Lines, cur - 1)
      <3>1. Handed(c) = LinesOf(bmp[cur].y)
        BY <1>7, <2>1 DEF Handed
      <3>2. QED
        BY <1>1, <1>7, <3>1, Zenon DEF Taken, PartsAt
    <2>4. Len(parts') = PartsUpTo(img.x, img.y, Lines)[cur - 1]
      BY <1>8, <1>9, <1>10, <1>11, <2>3
    <2>5. PartsUpTo(img.x, img.y, Lines)[cur] =
            PartsUpTo(img.x, img.y, Lines)[cur - 1] + PartsAt(img.y, Lines, cur)
      BY <1>9, <2>2
    <2>6. PartsAt(img.y, Lines, cur) \in Nat
      BY <1>1, <1>2, PartsAtIs
    <2>7. Taken(bmp'[cur + 1]) = 0 /\ bmp'[cur + 1].left # 0
      <3>1. LevelInv(bmp'[cur + 1]) /\ bmp'[cur + 1].left = LinesOf(bmp'[cur + 1].y)
            /\ Taken(bmp'[cur + 1]) = 0
        BY <1>13 DEF MovesOn
      <3>2. LinesOf(bmp'[cur + 1].y) \in Nat \ {0}
        BY <3>1, LevelNumbers
      <3>3. QED
        BY <3>1, <3>2
    <2>8. Len(parts') + PartsAt(img.y, Lines, cur) =
            PartsUpTo(img.x, img.y, Lines)[cur] + Taken(bmp'[cur + 1])
      BY <1>9, <2>4, <2>5, <2>6, <2>7
    <2>9. QED
      BY <1>3, <1>10, <2>1, <2>7, <2>8 DEF CountInv
  <1>14. QED
    BY <1>12, <1>13 DEF HandsOut

LEMMA NextPartControl ==
    ASSUME GeometryInv, CountInv, ControlInv, NEW n, NEW c, HandsOut(n, c)
    PROVE  ControlInv'
  <1>1. mpc' = "loop" /\ mpc = "loop" /\ freed' = freed
    BY DEF HandsOut
  <1>2. cur \in Nat \ {0} /\ (cur' = cur \/ cur' = cur + 1)
    BY CurrentLevel DEF HandsOut, StaysOn, MovesOn
  <1>3. freed' \in 0..cur'
    BY <1>1, <1>2 DEF ControlInv
  <1>4. parts \in Seq(Part) /\ Len(parts') = Len(parts) + 1 /\ Len(parts) \in Nat
    BY DEF CountInv, HandsOut
  <1>5. pending' \subseteq 1..Len(parts')
    <2>1. pending' = pending \cup {Len(parts) + 1}
      BY DEF HandsOut
    <2>2. pending \subseteq 1..Len(parts)
      BY DEF ControlInv
    <2>3. 1..Len(parts) \subseteq 1..(Len(parts) + 1) /\ Len(parts) + 1 \in 1..(Len(parts) + 1)
      BY <1>4
    <2>4. QED
      BY <1>4, <2>1, <2>2, <2>3, Zenon
  <1>6. \A k \in 1..cur' : bmp'[k].alive
    <2> SUFFICES ASSUME NEW k \in 1..cur' PROVE bmp'[k].alive
      OBVIOUS
    <2>1. CASE k \in 1..cur
      <3>1. bmp[k].alive /\ bmp[cur].alive
        BY <1>1, <1>2, <2>1 DEF ControlInv
      <3>2. bmp'[k] = IF k = cur THEN c ELSE bmp[k]
        BY <2>1 DEF HandsOut
      <3>3. c.alive = bmp[cur].alive
        BY DEF HandsOut
      <3>4. QED
        BY <3>1, <3>2, <3>3
    <2>2. CASE k \notin 1..cur
      <3>1. cur' = cur + 1 /\ k = cur + 1 /\ cur' # cur
        BY <1>2, <2>2
      <3>2. MovesOn(c)
        BY <3>1 DEF HandsOut, StaysOn
      <3>3. QED
        BY <3>1, <3>2 DEF MovesOn
    <2>3. QED
      BY <2>1, <2>2
  <1>7. QED
    BY <1>1, <1>3, <1>5, <1>6 DEF ControlInv

\* The parts before, and the new one
LEMMA PartsAfter ==
    ASSUME CountInv, NEW n, NEW c, HandsOut(n, c)
    PROVE  /\ Len(parts) \in Nat /\ Len(parts') = Len(parts) + 1
           /\ \A p \in 1..Len(parts') : p \in 1..Len(parts) \/ p = Len(parts) + 1
           /\ \A p \in 1..Len(parts) : parts'[p] = parts[p] /\ parts[p] \in Part
           /\ parts'[Len(parts) + 1].level = cur
           /\ parts'[Len(parts) + 1].src = bmp[cur].block
           /\ parts'[Len(parts) + 1].width = AtLeast4(bmp[cur].x)
           /\ parts'[Len(parts) + 1].lines = n
           /\ parts'[Len(parts) + 1].offset = offset
  <1>1. PICK e : e = [level |-> cur, src |-> bmp[cur].block, width |-> AtLeast4(bmp[cur].x),
                      lines |-> n, offset |-> offset]
    OBVIOUS
  <1>2. parts' = Append(parts, e) /\ parts \in Seq(Part)
    BY <1>1 DEF HandsOut, CountInv
  <1>3. /\ Len(parts) \in Nat /\ Len(parts') = Len(parts) + 1
        /\ \A p \in 1..Len(parts) : parts'[p] = parts[p] /\ parts[p] \in Part
        /\ parts'[Len(parts) + 1] = e
    BY <1>2
  <1>4. \A p \in 1..Len(parts') : p \in 1..Len(parts) \/ p = Len(parts) + 1
    BY <1>3
  <1>5. QED
    BY <1>1, <1>3, <1>4

LEMMA NextPartReads ==
    ASSUME GeometryInv, CountInv, ReadsInv, NEW n, NEW c, HandsOut(n, c)
    PROVE  ReadsInv'
  <1>1. cur \in Nat \ {0} /\ LevelInv(bmp[cur]) /\ bmp[cur] \in Level /\ (cur' = cur \/ cur' = cur + 1)
    BY CurrentLevel DEF HandsOut, StaysOn, MovesOn
  <1>2. \A j \in 1..cur : j \in 1..cur' /\ bmp'[j].x = bmp[j].x /\ bmp'[j].loaded = bmp[j].loaded
    BY <1>1 DEF HandsOut
  <1>3. bmp[cur].block + AtLeast4(bmp[cur].x) * 4 * n <= AtLeast4(bmp[cur].x) * 4 * bmp[cur].loaded
    <2>1. PICK x, a, h, l : x = bmp[cur].x /\ a = AtLeast4(x) /\ h = Handed(bmp[cur]) /\ l = bmp[cur].loaded
      OBVIOUS
    <2>2. x \in Nat /\ l \in Nat /\ h \in Nat /\ n \in Nat
      BY <1>1, <2>1, LevelNumbers, SMTT(30) DEF Level, HandsOut
    <2>3. a \in Nat /\ x <= a
      BY <2>1, <2>2, LinesOfIs
    <2>4. bmp[cur].block = x * (4 * h) /\ h + n <= l
      BY <1>1, <2>1 DEF LevelInv, HandsOut
    <2>5. x * (4 * h) <= a * (4 * h)
      BY <2>2, <2>3
    <2>6. a * (4 * (h + n)) <= a * (4 * l)
      BY <2>2, <2>3, <2>4
    <2>7. a * (4 * (h + n)) = a * (4 * h) + a * 4 * n /\ a * (4 * l) = a * 4 * l
      BY <2>2, <2>3
    <2>8. a * (4 * h) \in Nat /\ a * 4 * n \in Nat /\ a * 4 * l \in Nat /\ x * (4 * h) \in Nat
      BY <2>2, <2>3
    <2>9. x * (4 * h) + a * 4 * n <= a * 4 * l
      BY <2>5, <2>6, <2>7, <2>8
    <2>10. QED
      BY <2>1, <2>4, <2>9
  <1>4. ASSUME NEW p \in 1..Len(parts')
        PROVE  /\ parts'[p].level \in 1..cur'
               /\ parts'[p].src + parts'[p].width * 4 * parts'[p].lines
                    <= AtLeast4(bmp'[parts'[p].level].x) * 4 * bmp'[parts'[p].level].loaded
    <2>1. CASE p \in 1..Len(parts)
      <3>1. parts[p].level \in 1..cur /\ parts'[p] = parts[p]
        BY <2>1, PartsAfter DEF ReadsInv
      <3>2. parts[p].src + parts[p].width * 4 * parts[p].lines
              <= AtLeast4(bmp[parts[p].level].x) * 4 * bmp[parts[p].level].loaded
        BY <2>1 DEF ReadsInv, PartsAreLoaded
      <3>3. QED
        BY <1>2, <3>1, <3>2
    <2>2. CASE p = Len(parts) + 1
      <3>1. parts'[p].level = cur /\ parts'[p].src = bmp[cur].block
            /\ parts'[p].width = AtLeast4(bmp[cur].x) /\ parts'[p].lines = n
        BY <2>2, PartsAfter
      <3>2. cur \in 1..cur
        BY <1>1
      <3>3. QED
        BY <1>2, <1>3, <3>1, <3>2
    <2>3. QED
      BY <2>1, <2>2, PartsAfter
  <1>5. QED
    BY <1>4 DEF ReadsInv, PartsAreLoaded

LEMMA ReservedIs ==
    ASSUME GeometryInv
    PROVE  /\ (img.x * img.y) \div 2 \in Nat
           /\ BytesUpTo(img.x, img.y)[cur - 1] \in Nat
           /\ (img.x * img.y) \div 2 + BytesUpTo(img.x, img.y)[cur - 1]
                <= DataBytes(img.x, img.y, img.mip)
           /\ DataBytes(img.x, img.y, img.mip) \in Nat
           /\ cur <= NumberOfMipLevels(img.x, img.y) - 1 =>
                BytesUpTo(img.x, img.y)[cur] =
                  BytesUpTo(img.x, img.y)[cur - 1] + BytesAt(img.x, img.y, cur)
  <1>1. PICK f, n : f = BytesUpTo(img.x, img.y) /\ n = NumberOfMipLevels(img.x, img.y) - 1
    OBVIOUS
  <1>2. /\ img.x \in Nat \ {0} /\ img.y \in Nat \ {0} /\ img.mip \in BOOLEAN
        /\ NumberOfMipLevels(img.x, img.y) \in Nat \ {0}
    BY ImageIs DEF GeometryInv
  <1>3. BytesTable(f, img.x, img.y, n) /\ f[0] = 0
    BY <1>1, <1>2, BytesUpToAre
  <1>4. cur \in Nat \ {0} /\ cur - 1 \in 0..n /\ n \in Nat
    BY <1>1, <1>2, CurrentLevel
  <1>5. f[cur - 1] \in Nat /\ f[n] \in Nat /\ f[cur - 1] <= f[n]
    BY <1>3, <1>4 DEF BytesTable
  <1>6. PICK s : s = (img.x * img.y) \div 2
    OBVIOUS
  <1>7. s \in Nat
    BY <1>2, <1>6
  <1>8. DataBytes(img.x, img.y, img.mip) = s + (IF img.mip THEN f[n] ELSE 0)
    BY <1>1, <1>6 DEF DataBytes, AdjustSizeForMipmaps
  <1>9. ~img.mip => cur - 1 = 0
    BY <1>4 DEF GeometryInv
  <1>10. s + f[cur - 1] <= DataBytes(img.x, img.y, img.mip) /\ DataBytes(img.x, img.y, img.mip) \in Nat
    BY <1>2, <1>3, <1>5, <1>7, <1>8, <1>9
  <1>11. cur <= n => f[cur] = f[cur - 1] + BytesAt(img.x, img.y, cur)
    BY <1>3, <1>4 DEF BytesTable
  <1>12. QED
    BY <1>1, <1>5, <1>6, <1>7, <1>10, <1>11

LEMMA NextPartWrites ==
    ASSUME GeometryInv, CountInv, ReadsInv, WritesInv, NEW n, NEW c, HandsOut(n, c), GeometryInv'
    PROVE  WritesInv'
  <1>1. /\ cur \in Nat \ {0} /\ LevelInv(bmp[cur]) /\ bmp[cur] \in Level
        /\ (cur' = cur \/ cur' = cur + 1) /\ img' = img
    BY CurrentLevel DEF HandsOut, StaysOn, MovesOn
  <1>2. PICK x, a, w, l, r :
          /\ x = bmp[cur].x \div 4 /\ w = AtLeast4(bmp[cur].x) /\ a = w \div 4
          /\ l = bmp[cur].left
          /\ r = (img.x * img.y) \div 2 + BytesUpTo(img.x, img.y)[cur - 1]
    OBVIOUS
  <1>3. x \in Nat /\ a \in Nat /\ x <= a /\ l \in Nat /\ (bmp[cur].x >= 4 => x = a)
    <2>1. bmp[cur].x \in Nat /\ l \in Nat
      BY <1>1, <1>2 DEF Level
    <2>2. QED
      BY <1>2, <2>1 DEF AtLeast4
  <1>4. n \in 1..l /\ offset \in Nat /\ offset' = offset + x * n
    BY <1>2 DEF HandsOut, WritesInv
  <1>5. r \in Nat /\ r <= DataBytes(img.x, img.y, img.mip) /\ DataBytes(img.x, img.y, img.mip) \in Nat
        /\ BytesUpTo(img.x, img.y)[cur - 1] \in Nat /\ (img.x * img.y) \div 2 \in Nat
    BY <1>2, ReservedIs
  <1>6. 8 * (offset + a * l) <= r
    BY <1>2 DEF WritesInv
  <1>7. x * n \in Nat /\ a * n \in Nat /\ a * l \in Nat /\ a * (l - n) \in Nat
        /\ x * n <= a * n /\ a * l = a * n + a * (l - n)
    BY <1>3, <1>4
  <1>8. 8 * (offset + a * n) <= r /\ 8 * (offset' + a * (l - n)) <= r /\ offset' \in Nat /\ offset <= offset'
        /\ 8 * offset' <= r
    BY <1>4, <1>5, <1>6, <1>7
  <1>9. \A j \in 1..cur : bmp'[j].x = bmp[j].x
    BY <1>1 DEF HandsOut
  <1>10. \A p \in 1..Len(parts) : parts[p].level \in 1..cur
    BY DEF ReadsInv
  <1>11. PICK m, e : m = Len(parts) + 1 /\ e = parts'[m]
    OBVIOUS
  <1>12. e.level = cur /\ e.width = w /\ e.lines = n /\ e.offset = offset /\ EndOf(e) = offset + a * n
    BY <1>2, <1>11, PartsAfter DEF EndOf
  <1>13. /\ Len(parts) \in Nat /\ Len(parts') = m
         /\ \A p \in 1..m : p \in 1..Len(parts) \/ p = m
         /\ \A p \in 1..Len(parts) : parts'[p] = parts[p] /\ parts[p] \in Part
    BY <1>11, PartsAfter
  <1>14. WritesInBounds'
    <2> SUFFICES ASSUME NEW p \in 1..m
                 PROVE  8 * (parts'[p].offset + (parts'[p].width \div 4) * parts'[p].lines)
                          <= DataBytes(img.x, img.y, img.mip)
      BY <1>1, <1>13 DEF WritesInBounds
    <2>1. CASE p \in 1..Len(parts)
      BY <1>13, <2>1 DEF WritesInv, WritesInBounds
    <2>2. CASE p = m
      <3>1. parts'[p].offset + (parts'[p].width \div 4) * parts'[p].lines = offset + a * n
        BY <1>2, <1>11, <1>12, <2>2
      <3>2. 8 * (offset + a * n) <= DataBytes(img.x, img.y, img.mip)
        BY <1>4, <1>5, <1>7, <1>8
      <3>3. QED
        BY <3>1, <3>2
    <2>3. QED
      BY <1>13, <2>1, <2>2
  <1>15. ASSUME NEW p \in 1..m, bmp'[parts'[p].level].x >= 4
         PROVE  /\ EndOf(parts'[p]) <= offset'
                /\ \A q \in (p + 1)..m : EndOf(parts'[p]) <= parts'[q].offset
    <2>1. CASE p \in 1..Len(parts)
      <3>1. parts'[p] = parts[p] /\ bmp[parts[p].level].x >= 4
        BY <1>9, <1>10, <1>13, <1>15, <2>1
      <3>2. EndOf(parts[p]) <= offset /\ \A q \in (p + 1)..Len(parts) : EndOf(parts[p]) <= parts[q].offset
        BY <2>1, <3>1 DEF WritesInv
      <3>3. EndOf(parts[p]) \in Nat
        <4>1. parts[p].offset \in Nat /\ parts[p].width \in Nat /\ parts[p].lines \in Nat
          BY <1>13, <2>1 DEF Part
        <4>2. QED
          BY <4>1 DEF EndOf
      <3>4. EndOf(parts[p]) <= offset'
        BY <1>4, <1>8, <3>2, <3>3
      <3>5. ASSUME NEW q \in (p + 1)..m
            PROVE  EndOf(parts[p]) <= parts'[q].offset
        <4>1. CASE q = m
          BY <1>11, <1>12, <3>2, <4>1
        <4>2. CASE q # m
          <5>1. q \in (p + 1)..Len(parts) /\ q \in 1..Len(parts)
            BY <1>11, <1>13, <2>1, <4>2
          <5>2. QED
            BY <1>13, <3>2, <5>1
        <4>3. QED
          BY <4>1, <4>2
      <3>6. QED
        BY <3>1, <3>4, <3>5
    <2>2. CASE p = m
      <3>1. parts'[p] = e /\ bmp[cur].x >= 4
        BY <1>1, <1>9, <1>11, <1>12, <1>15, <2>2
      <3>2. EndOf(e) = offset'
        BY <1>3, <1>4, <1>12, <3>1
      <3>3. (p + 1)..m = {}
        BY <1>11, <1>13, <2>2
      <3>4. QED
        BY <1>8, <3>1, <3>2, <3>3
    <2>3. QED
      BY <1>13, <2>1, <2>2
  <1>16. 8 * (offset' + (AtLeast4(bmp'[cur'].x) \div 4) * bmp'[cur'].left) <=
           (img.x * img.y) \div 2 + BytesUpTo(img.x, img.y)[cur' - 1]
    <2>1. CASE StaysOn(c)
      <3>1. cur' = cur /\ bmp'[cur'].x = bmp[cur].x /\ bmp'[cur'].left = l - n
        BY <1>1, <1>2, <2>1 DEF HandsOut, StaysOn
      <3>2. QED
        BY <1>2, <1>8, <3>1
    <2>2. CASE MovesOn(c)
      <3>1. PICK d : d = bmp'[cur + 1]
        OBVIOUS
      <3>2. cur' = cur + 1 /\ cur' - 1 = cur /\ d.left = LinesOf(d.y) /\ LevelInv(d)
        BY <1>1, <2>2, <3>1 DEF MovesOn
      <3>3. cur' \in 1..cur' /\ cur' <= NumberOfMipLevels(img.x, img.y)
        BY <1>1, <3>2 DEF GeometryInv
      <3>4. d.x = Halved(img.x, cur) /\ d.y = Halved(img.y, cur)
        BY <1>1, <3>1, <3>2, <3>3 DEF GeometryInv
      <3>5. d.x \in Nat /\ d.y \in Nat /\ LinesOf(d.y) \in Nat
        BY <3>2, LevelNumbers DEF LevelInv, Level
      <3>6. 8 * ((AtLeast4(d.x) \div 4) * LinesOf(d.y)) <= BytesAt(img.x, img.y, cur)
        BY <3>4, <3>5, BlocksFit DEF BytesAt
      <3>7. cur <= NumberOfMipLevels(img.x, img.y) - 1
        BY <1>1, <3>2, <3>3, ImageIs DEF GeometryInv
      <3>8. BytesUpTo(img.x, img.y)[cur] =
              BytesUpTo(img.x, img.y)[cur - 1] + BytesAt(img.x, img.y, cur)
        BY <3>7, ReservedIs
      <3>9. BytesAt(img.x, img.y, cur) \in Nat
        BY <1>1, ImageIs, BytesAtIs DEF GeometryInv
      <3>10. PICK k : k = (AtLeast4(d.x) \div 4) * LinesOf(d.y)
        OBVIOUS
      <3>11. k \in Nat
        <4>1. AtLeast4(d.x) \in Nat
          BY <3>5, LinesOfIs
        <4>2. AtLeast4(d.x) \div 4 \in Nat
          BY <4>1
        <4>3. QED
          BY <3>5, <3>10, <4>2
      <3>12. 8 * (offset' + k) <= (img.x * img.y) \div 2 + BytesUpTo(img.x, img.y)[cur]
        BY <1>2, <1>5, <1>8, <3>6, <3>8, <3>9, <3>10, <3>11
      <3>13. QED
        BY <3>1, <3>2, <3>10, <3>12
    <2>3. QED
      BY <2>1, <2>2 DEF HandsOut
  <1>17. QED
    BY <1>1, <1>8, <1>13, <1>14, <1>15, <1>16 DEF WritesInv

LEMMA NextPartKeeps ==
    ASSUME ProviderInv, NextPart
    PROVE  ProviderInv'
  <1>1. PICK n, c : HandsOut(n, c)
    BY NextPartIs
  <1>2. GeometryInv /\ CountInv /\ ControlInv /\ ReadsInv /\ WritesInv /\ offset \in Nat
    BY DEF ProviderInv, WritesInv
  <1>3. GeometryInv'
    BY <1>1, <1>2, NextPartGeometry
  <1>4. CountInv' /\ ControlInv' /\ ReadsInv' /\ WritesInv'
    BY <1>1, <1>2, <1>3, NextPartCount, NextPartControl, NextPartReads, NextPartWrites
  <1>5. QED
    BY <1>3, <1>4 DEF ProviderInv

\* A step that leaves the levels and the parts alone
LEMMA DataKept ==
    ASSUME ProviderInv, UNCHANGED <<img, bmp, lines, offset, done, parts>>
    PROVE  GeometryInv' /\ CountInv' /\ ReadsInv' /\ WritesInv' /\ cur' = cur /\ Num' = Num
  <1>1. GeometryInv /\ CountInv /\ ReadsInv /\ WritesInv
    BY DEF ProviderInv
  <1>2. cur' = cur /\ Num' = Num
    BY DEF cur, Num
  <1>3. GeometryInv'
    BY <1>1, <1>2 DEF GeometryInv
  <1>4. CountInv'
    BY <1>1, <1>2 DEF CountInv
  <1>5. ReadsInv'
    BY <1>1, <1>2 DEF ReadsInv, PartsAreLoaded
  <1>6. WritesInv'
    BY <1>1, <1>2 DEF WritesInv, WritesInBounds, EndOf
  <1>7. QED
    BY <1>2, <1>3, <1>4, <1>5, <1>6

LEMMA FreeKeeps ==
    ASSUME ProviderInv, FreeData
    PROVE  ProviderInv'
  <1>1. mpc = "free" /\ freed < Len(bmp) /\ freed' = freed /\ mpc' = "join"
        /\ UNCHANGED <<img, lines, offset, done, parts, pending>>
    BY DEF FreeData
  <1>2. ControlInv /\ GeometryInv
    BY DEF ProviderInv
  <1>3. PICK k : k = freed + 1
    OBVIOUS
  <1>4. k \in 1..cur /\ freed \in 0..cur /\ freed < cur
    BY <1>1, <1>2, <1>3 DEF ControlInv, GeometryInv, cur
  <1>5. LevelInv(bmp[k]) /\ bmp[k] \in Level
    BY <1>2, <1>4 DEF GeometryInv, LevelInv
  <1>6. PICK c : c = [bmp[k] EXCEPT !.alive = FALSE]
    OBVIOUS
  <1>7. LevelInv(c)
    BY <1>5, <1>6, DataFreed
  <1>8. c.x = bmp[k].x /\ c.y = bmp[k].y /\ c.lines = bmp[k].lines /\ c.left = bmp[k].left
        /\ c.loaded = bmp[k].loaded
    BY <1>5, <1>6 DEF Level
  <1>9. bmp' = [bmp EXCEPT ![k] = c]
    BY <1>3, <1>6 DEF FreeData
  <1>10. bmp[k].loaded \in Nat
    BY <1>5 DEF Level
  <1>11. c.loaded >= bmp[k].loaded
    BY <1>8, <1>10
  <1>12. GeometryInv' /\ CountInv' /\ ReadsInv' /\ WritesInv' /\ cur' = cur /\ Num' = Num
    BY <1>1, <1>4, <1>7, <1>8, <1>9, <1>11, LevelChange, Zenon
  <1>13. ControlInv'
    BY <1>1, <1>2, <1>4, <1>12 DEF ControlInv
  <1>14. QED
    BY <1>12, <1>13 DEF ProviderInv

LEMMA ProviderNext == ProviderInv /\ [Next]_vars => ProviderInv'
  <1> SUFFICES ASSUME ProviderInv, [Next]_vars
               PROVE  ProviderInv'
    OBVIOUS
  <1>1. ControlInv /\ GeometryInv /\ CountInv
    BY DEF ProviderInv
  <1>2. cur \in Nat \ {0} /\ cur = Len(bmp)
    BY <1>1, CurrentLevel DEF cur
  <1>3. CASE SemaphoreWait
    <2>1. UNCHANGED <<img, bmp, lines, offset, done, parts>> /\ pending' = pending /\ freed' = freed
          /\ mpc = "loop" /\ mpc' = "asleep" /\ Len(parts) < Num /\ bmp[cur].sema = 0
      BY <1>3 DEF SemaphoreWait
    <2>2. GeometryInv' /\ CountInv' /\ ReadsInv' /\ WritesInv' /\ cur' = cur /\ Num' = Num
      BY <2>1, DataKept
    <2>3. ControlInv'
      BY <1>1, <2>1, <2>2 DEF ControlInv
    <2>4. QED
      BY <2>2, <2>3 DEF ProviderInv
  <1>4. CASE NextPart
    BY <1>4, NextPartKeeps
  <1>5. CASE Sync
    <2>1. UNCHANGED <<img, bmp, lines, offset, done, parts>> /\ pending' = pending /\ freed' = freed
          /\ mpc = "loop" /\ mpc' = "free" /\ Len(parts) = Num /\ pending = {}
      BY <1>5 DEF Sync
    <2>2. GeometryInv' /\ CountInv' /\ ReadsInv' /\ WritesInv' /\ cur' = cur /\ Num' = Num
      BY <2>1, DataKept
    <2>3. ControlInv'
      BY <1>1, <2>1, <2>2 DEF ControlInv
    <2>4. QED
      BY <2>2, <2>3 DEF ProviderInv
  <1>6. CASE FreeData
    BY <1>6, FreeKeeps
  <1>7. CASE JoinLoader
    <2>1. UNCHANGED <<img, bmp, lines, offset, done, parts>> /\ pending' = pending /\ freed' = freed + 1
          /\ mpc = "join" /\ mpc' \in {"gone", "free"}
      BY <1>7 DEF JoinLoader
    <2>2. GeometryInv' /\ CountInv' /\ ReadsInv' /\ WritesInv' /\ cur' = cur /\ Num' = Num
      BY <2>1, DataKept
    <2>3. freed' \in 0..cur
      BY <1>1, <1>2, <2>1 DEF ControlInv
    <2>4. ControlInv'
      BY <1>1, <2>1, <2>2, <2>3 DEF ControlInv
    <2>5. QED
      BY <2>2, <2>4 DEF ProviderInv
  <1>8. CASE \E k \in 1..Len(bmp) : LoaderStep(k)
    BY <1>2, <1>8, LoaderKeeps
  <1>9. CASE \E p \in pending : EncodePart(p)
    <2>1. UNCHANGED <<img, bmp, lines, offset, done, parts>> /\ freed' = freed /\ mpc' = mpc
          /\ pending' \subseteq pending
      BY <1>9 DEF EncodePart
    <2>2. GeometryInv' /\ CountInv' /\ ReadsInv' /\ WritesInv' /\ cur' = cur /\ Num' = Num
      BY <2>1, DataKept
    <2>3. pending' \subseteq 1..Len(parts) /\ (pending = {} => pending' = {})
      BY <1>1, <2>1, Zenon DEF ControlInv
    <2>4. ControlInv'
      BY <1>1, <2>1, <2>2, <2>3 DEF ControlInv
    <2>5. QED
      BY <2>2, <2>4 DEF ProviderInv
  <1>10. CASE SpuriousWakeup
    <2>1. UNCHANGED <<img, bmp, lines, offset, done, parts>> /\ pending' = pending /\ freed' = freed
          /\ mpc = "asleep" /\ mpc' = "loop"
      BY <1>10 DEF SpuriousWakeup
    <2>2. GeometryInv' /\ CountInv' /\ ReadsInv' /\ WritesInv' /\ cur' = cur /\ Num' = Num
      BY <2>1, DataKept
    <2>3. ControlInv'
      BY <1>1, <2>1, <2>2 DEF ControlInv
    <2>4. QED
      BY <2>2, <2>3 DEF ProviderInv
  <1>11. CASE UNCHANGED vars
    <2>1. UNCHANGED <<img, bmp, lines, offset, done, parts>> /\ pending' = pending /\ freed' = freed
          /\ mpc' = mpc
      BY <1>11 DEF vars
    <2>2. GeometryInv' /\ CountInv' /\ ReadsInv' /\ WritesInv' /\ cur' = cur /\ Num' = Num
      BY <2>1, DataKept
    <2>3. ControlInv'
      BY <1>1, <2>1, <2>2 DEF ControlInv
    <2>4. QED
      BY <2>2, <2>3 DEF ProviderInv
  <1>12. QED
    BY <1>3, <1>4, <1>5, <1>6, <1>7, <1>8, <1>9, <1>10, <1>11 DEF Next, MainStep, Terminated
-----------------------------------------------------------------------------
(* What follows from the invariant                                         *)

LEMMA ReadsFollow == ProviderInv => ReadsAreSafe
  <1> SUFFICES ASSUME ProviderInv PROVE ReadsAreSafe
    OBVIOUS
  <1>1. GeometryInv /\ CountInv /\ ControlInv /\ ReadsInv
    BY DEF ProviderInv
  <1>2. cur \in Nat \ {0} /\ cur = Len(bmp)
    BY <1>1, CurrentLevel DEF cur
  <1>3. mpc \notin {"loop", "asleep"} => \A k \in 1..cur : bmp[k].left = 0
    <2>1. mpc \notin {"loop", "asleep"} => done
      BY <1>1, CountIs DEF ControlInv
    <2>2. QED
      BY <1>1, <1>2, <2>1 DEF CountInv, GeometryInv
  <1>4. ASSUME NEW k \in 1..cur
        PROVE  \/ bmp[k].load \in {"none", "end", "done"}
               \/ bmp[k].load \in {"read", "signal"} /\ bmp[k].loaded = LinesOf(bmp[k].y)
               \/ bmp[k].alive /\ (k > 1 => bmp[k - 1].alive)
    <2>1. CASE mpc \in {"loop", "asleep"}
      <3>1. bmp[k].alive /\ (k > 1 => bmp[k - 1].alive)
        BY <1>1, <1>2, <2>1 DEF ControlInv
      <3>2. QED
        BY <3>1
    <2>2. CASE mpc \notin {"loop", "asleep"}
      <3>1. PICK b : b = bmp[k]
        OBVIOUS
      <3>2. LevelInv(b) /\ b.left = 0
        BY <1>1, <1>3, <2>2, <3>1 DEF GeometryInv
      <3>3. LinesOf(b.y) \in Nat \ {0} /\ Taken(b) \in Nat /\ Permits(b) \in Nat
            /\ Taken(b) <= Permits(b) /\ Handed(b) <= Taken(b) * b.lines
        BY <3>2, LevelNumbers
      <3>4. b.lines \in Nat \ {0} /\ b.loaded \in Nat /\ b.acc \in Nat /\ b.load \in LoadPC
        BY <3>2 DEF LevelInv, Level
      <3>5. Handed(b) = LinesOf(b.y)
        BY <3>2, <3>3 DEF Handed
      <3>6. LinesOf(b.y) <= Permits(b) * b.lines
        <4>1. Taken(b) * b.lines <= Permits(b) * b.lines
          BY <3>3, <3>4
        <4>2. Taken(b) * b.lines \in Nat /\ Permits(b) * b.lines \in Nat
          BY <3>3, <3>4
        <4>3. QED
          BY <3>3, <3>5, <4>1, <4>2
      <3>7. b.load # "wait"
        <4>1. b.load = "wait" => Permits(b) * b.lines = 0
          BY <3>2, <3>4 DEF LevelInv
        <4>2. QED
          BY <3>3, <3>6, <4>1
      <3>8. b.load \in {"read", "signal"} => b.loaded = LinesOf(b.y)
        <4>1. b.load \in {"read", "signal"} => b.loaded = Permits(b) * b.lines + b.acc
          BY <3>2 DEF LevelInv
        <4>2. Permits(b) * b.lines \in Nat /\ b.loaded <= LinesOf(b.y)
          BY <3>2, <3>3, <3>4 DEF LevelInv
        <4>3. QED
          BY <3>3, <3>4, <3>6, <4>1, <4>2
      <3>9. QED
        BY <3>1, <3>4, <3>7, <3>8 DEF LoadPC
    <2>3. QED
      BY <2>1, <2>2
  <1>5. \A p \in pending : bmp[parts[p].level].alive
    <2> SUFFICES ASSUME NEW p \in pending PROVE bmp[parts[p].level].alive
      OBVIOUS
    <2>1. mpc \in {"loop", "asleep"} /\ p \in 1..Len(parts)
      BY <1>1 DEF ControlInv
    <2>2. parts[p].level \in 1..cur
      BY <1>1, <2>1 DEF ReadsInv
    <2>3. QED
      BY <1>1, <2>1, <2>2 DEF ControlInv
  <1>6. NoUseAfterFree
    BY <1>2, <1>4, <1>5 DEF NoUseAfterFree
  <1>7. QED
    BY <1>1, <1>6 DEF ReadsAreSafe, ReadsInv

LEMMA SleeperFollows == ProviderInv => SleeperWillBeWoken
  <1> SUFFICES ASSUME ProviderInv, mpc = "asleep"
               PROVE  /\ bmp[cur].sema = 0
                      /\ \/ bmp[cur].load \in {"wait", "signal"}
                         \/ bmp[cur].load = "read"
                            /\ (bmp[cur].loaded < LinesOf(bmp[cur].y) \/ bmp[cur].acc # 0)
    BY DEF SleeperWillBeWoken
  <1>1. GeometryInv /\ CountInv /\ ControlInv
    BY DEF ProviderInv
  <1>2. PICK b : b = bmp[cur]
    OBVIOUS
  <1>3. LevelInv(b) /\ b.sema = 0 /\ ~done
    BY <1>1, <1>2, CurrentLevel, CountIs DEF ControlInv
  <1>4. b.left \in Nat /\ b.left > 0 /\ b.lines \in Nat \ {0} /\ b.load \in LoadPC
        /\ b.loaded \in Nat /\ b.acc \in Nat
    BY <1>1, <1>2, <1>3 DEF CountInv, LevelInv, Level
  <1>5. LinesOf(b.y) \in Nat /\ Handed(b) \in Nat /\ Taken(b) \in Nat
    BY <1>3, LevelNumbers
  <1>6. Permits(b) = Taken(b) /\ Handed(b) = Taken(b) * b.lines /\ Handed(b) < LinesOf(b.y)
    BY <1>3, <1>4, <1>5 DEF LevelInv, Permits, Handed
  <1>7. b.load \notin {"none", "end", "done"}
    BY <1>3, <1>5, <1>6 DEF LevelInv
  <1>8. b.load = "read" => b.loaded < LinesOf(b.y) \/ b.acc # 0
    <2>1. b.load = "read" => b.loaded = Handed(b) + b.acc
      BY <1>3, <1>6 DEF LevelInv
    <2>2. QED
      BY <1>4, <1>5, <1>6, <2>1
  <1>9. QED
    BY <1>2, <1>3, <1>4, <1>7, <1>8 DEF LoadPC

LEMMA WrittenIs ==
    ASSUME NEW r, r.offset \in Nat, r.width \in Nat, r.lines \in Nat
    PROVE  Written(r) = r.offset .. (EndOf(r) - 1)
  <1>1. \A w, l \in Nat : (w \div 4) * l \in Nat
    OBVIOUS
  <1>2. PICK b : b = (r.width \div 4) * r.lines
    OBVIOUS
  <1>3. b \in Nat
    BY <1>1, <1>2, Zenon
  <1>4. EndOf(r) = r.offset + b
    BY <1>2 DEF EndOf
  <1>5. Written(r) = r.offset .. (r.offset + (b - 1))
    BY <1>2 DEF Written
  <1>6. r.offset + (b - 1) = (r.offset + b) - 1
    BY <1>3
  <1>7. QED
    BY <1>4, <1>5, <1>6, Zenon

LEMMA WritesFollow == ProviderInv => WritesAreSafe
  <1> SUFFICES ASSUME ProviderInv PROVE WritesAreSafe
    OBVIOUS
  <1>1. WritesInv /\ CountInv
    BY DEF ProviderInv
  <1>2. \A p \in 1..Len(parts) : parts[p] \in Part /\ Len(parts) \in Nat
    BY <1>1 DEF CountInv
  <1>3. ASSUME NEW p \in 1..Len(parts), NEW q \in 1..Len(parts), p < q,
               bmp[parts[p].level].x >= 4
        PROVE  Written(parts[p]) \cap Written(parts[q]) = {}
    <2>1. q \in (p + 1)..Len(parts)
      BY <1>2, <1>3
    <2>2. EndOf(parts[p]) <= parts[q].offset
      BY <1>1, <1>3, <2>1 DEF WritesInv
    <2>3. /\ parts[p].offset \in Nat /\ parts[p].width \in Nat /\ parts[p].lines \in Nat
          /\ parts[q].offset \in Nat /\ parts[q].width \in Nat /\ parts[q].lines \in Nat
      BY <1>2 DEF Part
    <2>4. EndOf(parts[p]) \in Nat /\ EndOf(parts[q]) \in Nat
      <3>1. \A o, w, l \in Nat : o + (w \div 4) * l \in Nat
        OBVIOUS
      <3>2. parts[p].offset + (parts[p].width \div 4) * parts[p].lines \in Nat
        BY <2>3, <3>1, Zenon
      <3>3. parts[q].offset + (parts[q].width \div 4) * parts[q].lines \in Nat
        BY <2>3, <3>1, Zenon
      <3>4. QED
        BY <3>2, <3>3, Zenon DEF EndOf
    <2>5. /\ Written(parts[p]) = parts[p].offset .. (EndOf(parts[p]) - 1)
          /\ Written(parts[q]) = parts[q].offset .. (EndOf(parts[q]) - 1)
      BY <2>3, WrittenIs
    <2>6. QED
      BY <2>2, <2>3, <2>4, <2>5
  <1>4. WideLevelsDisjoint
    <2> SUFFICES ASSUME NEW p \in 1..Len(parts), NEW q \in 1..Len(parts), p # q,
                        bmp[parts[p].level].x >= 4, bmp[parts[q].level].x >= 4
                 PROVE  Written(parts[p]) \cap Written(parts[q]) = {}
      BY DEF WideLevelsDisjoint
    <2>1. p < q \/ q < p
      BY <1>2
    <2>2. CASE p < q
      BY <1>3, <2>2
    <2>3. CASE q < p
      <3>1. Written(parts[q]) \cap Written(parts[p]) = {}
        BY <1>3, <2>3
      <3>2. QED
        BY <3>1
    <2>4. QED
      BY <2>1, <2>2, <2>3
  <1>5. QED
    BY <1>1, <1>4 DEF WritesAreSafe, WritesInv

LEMMA TypesFollow == ProviderInv => TypeOK
  <1> SUFFICES ASSUME ProviderInv PROVE TypeOK
    OBVIOUS
  <1>1. GeometryInv /\ CountInv /\ ControlInv /\ WritesInv
    BY DEF ProviderInv
  <1>2. cur \in Nat \ {0} /\ cur = Len(bmp) /\ lines \in Nat
    BY <1>1, CurrentLevel DEF cur
  <1>3. ASSUME NEW k \in 1..cur
        PROVE  /\ {bmp[k].x, bmp[k].y, bmp[k].lines} \subseteq Nat \ {0}
               /\ {bmp[k].left, bmp[k].block, bmp[k].acc, bmp[k].sema} \subseteq Nat
               /\ bmp[k].loaded \in 0..LinesOf(bmp[k].y)
               /\ bmp[k].load \in LoadPC
               /\ bmp[k].alive \in BOOLEAN
    <2>1. LevelInv(bmp[k]) /\ bmp[k] \in Level
      BY <1>1 DEF GeometryInv, LevelInv
    <2>2. LinesOf(bmp[k].y) \in Nat
      BY <2>1, LevelNumbers
    <2>3. bmp[k].loaded \in Nat /\ bmp[k].loaded <= LinesOf(bmp[k].y)
      BY <2>1 DEF LevelInv, Level
    <2>4. bmp[k].loaded \in 0..LinesOf(bmp[k].y)
      BY <2>2, <2>3
    <2>5. QED
      BY <2>1, <2>4 DEF Level
  <1>4. QED
    BY <1>1, <1>2, <1>3 DEF TypeOK, GeometryInv, CountInv, ControlInv, WritesInv

-----------------------------------------------------------------------------
(* The theorems: for any image whose sides are multiples of four, with or  *)
(* without its mipmap chain, and any number of rows in a part.             *)

LEMMA ProviderInvariance == Spec => []ProviderInv
  BY ProviderInit, ProviderNext, PTL DEF Spec

\* Every field of a Bitmap keeps its range under the loader threads and the
\* main thread: no counter of NextBlock passes zero.
THEOREM ProviderTypes == Spec => []TypeOK
  BY ProviderInvariance, TypesFollow, PTL

\* Rows are loaded before a task can get at them, and no pixel buffer goes
\* while a loader thread or a task still needs it.
THEOREM ReadsSafe == Spec => []ReadsAreSafe
  BY ProviderInvariance, ReadsFollow, PTL

\* While NextBlock waits on the semaphore, the loader of the level still has
\* an unlock to come: no wakeup is lost and no permit is missing.
THEOREM SleeperWoken == Spec => []SleeperWillBeWoken
  BY ProviderInvariance, SleeperFollows, PTL

\* NumberOfParts, computed from the sizes alone, is the number of parts that
\* NextPart hands out, so assert( !m_done ) never fails.
THEOREM PartsCounted == Spec => []PartsMatchDone
  <1>1. ProviderInv => PartsMatchDone
    BY CountIs DEF ProviderInv, PartsMatchDone
  <1>2. QED
    BY <1>1, ProviderInvariance, PTL

\* No task writes past the bytes that BlockData reserved, and two parts of
\* levels at least a block wide are never written to the same block.
THEOREM WritesSafe == Spec => []WritesAreSafe
  BY ProviderInvariance, WritesFollow, PTL
=============================================================================
