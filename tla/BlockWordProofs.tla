-------------------------- MODULE BlockWordProofs --------------------------
(***************************************************************************)
(* The words of a block mean to the decoder what the encoder meant, for    *)
(* all colours, indices, corners and alphas.                               *)
(***************************************************************************)
EXTENDS BlockWord, FiniteSetTheorems, WellFoundedInduction, TLAPS

Bits == {0, 1}
Word == [0..31 -> Bits]

\* What the decoder makes of the word in the file, and that it is what was made.
Meaning(w) ==
    CASE w.kind = "Etc2_RGB"           -> DecodeRGBPart(w.word[1], w.word[2])
      [] w.kind = "alpha of Etc2_RGBA" -> [mode |-> "any", pixels |-> DecodeAlpha(w.word)]
      [] w.kind = "Dxt1"               -> DecodeDxt1Part(w.word)
      [] w.kind = "alpha of Dxt5"      -> DecodeDxt5Alpha(w.word)

SameBlock(m, r) == r.pixels = m.pixels /\ (m.mode # "any" => r.mode = m.mode)

PowersOfTwo == <<2, 4, 8, 16, 32, 64, 128, 256>>

\* Fields <<value, position, width>> that lie in a word of n bits without overlap,
\* and what is given to OrN for them.
Layout(n, L) ==
    /\ \A x \in L : /\ x[1] \in Nat /\ x[2] \in Nat /\ x[3] \in 1..8
                      /\ x[1] < PowersOfTwo[x[3]] /\ x[2] + x[3] <= n
    /\ \A x, y \in L : x = y \/ x[2] + x[3] <= y[2] \/ y[2] + y[3] <= x[2]
PartsOf(L) == {<<x[1], x[2]>> : x \in L}

\* A field of m bits for every pixel, with values v at positions s.
FieldPerPixel(v, s, m) == {<<v[j], s[j], m>> : j \in 0..15}
PartPerPixel(v, s) == {<<v[j], s[j]>> : j \in 0..15}

-----------------------------------------------------------------------------
(* Words                                                                   *)

LEMMA BitOfIsBit ==
    ASSUME NEW v \in Int, NEW k \in Nat
    PROVE  BitOf(v, k) \in Bits
  BY DEF BitOf, Bits

LEMMA OrIsWord ==
    ASSUME NEW parts
    PROVE  Or(parts) \in Word
  BY DEF Or, OrN, Word, Bits

LEMMA FlagIsBit ==
    ASSUME NEW c
    PROVE  Flag(c) \in Bits
  BY DEF Flag, Bits

LEMMA Powers ==
    ASSUME NEW k \in 1..8
    PROVE  2^k = PowersOfTwo[k]
  <1>1. CASE k = 1
    BY <1>1 DEF PowersOfTwo
  <1>2. CASE k = 2
    BY <1>2 DEF PowersOfTwo
  <1>3. CASE k = 3
    BY <1>3 DEF PowersOfTwo
  <1>4. CASE k = 4
    BY <1>4 DEF PowersOfTwo
  <1>5. CASE k = 5
    BY <1>5 DEF PowersOfTwo
  <1>6. CASE k = 6
    BY <1>6 DEF PowersOfTwo
  <1>7. CASE k = 7
    BY <1>7 DEF PowersOfTwo
  <1>8. CASE k = 8
    BY <1>8 DEF PowersOfTwo
  <1>9. QED
    BY <1>1, <1>2, <1>3, <1>4, <1>5, <1>6, <1>7, <1>8

LEMMA PowersGrow ==
    ASSUME NEW a \in 1..8, NEW b \in 1..8, a <= b
    PROVE  2^a \in Nat /\ 2^a <= 2^b /\ 2^a <= 256
  <1>1. 2^a = PowersOfTwo[a]
    BY Powers, Zenon
  <1>2. 2^b = PowersOfTwo[b]
    BY Powers, Zenon
  <1>3. PowersOfTwo[a] \in Nat /\ PowersOfTwo[a] <= PowersOfTwo[b] /\ PowersOfTwo[a] <= 256
    BY DEF PowersOfTwo
  <1>4. QED
    BY <1>1, <1>2, <1>3, Zenon

\* A value has no bits above its width.
LEMMA NoHighBits ==
    ASSUME NEW v \in Nat, NEW m \in 1..8, v < 2^m, NEW k \in m..7
    PROVE  BitOf(v, k) = 0
  <1>1. k \in 1..8 /\ m <= k /\ k <= k
    OBVIOUS
  <1>2. 2^m \in Nat /\ 2^k \in Nat /\ 2^m <= 2^k
    BY <1>1, PowersGrow
  <1> DEFINE K == 2^k
  <1>3. K \in Nat /\ v < K
    BY <1>2
  <1> HIDE DEF K
  <1>4. v \div K = 0
    BY <1>3
  <1>5. (v \div K) % 2 = 0
    BY <1>4
  <1>6. QED
    BY <1>5, Zenon DEF BitOf, K

LEMMA SumOfBits ==
    ASSUME NEW v \in 0..255
    PROVE  v = BitOf(v, 0) + 2 * BitOf(v, 1) + 4 * BitOf(v, 2) + 8 * BitOf(v, 3) + 16 * BitOf(v, 4)
               + 32 * BitOf(v, 5) + 64 * BitOf(v, 6) + 128 * BitOf(v, 7)
  BY DEF BitOf

LEMMA PartsOfUnion ==
    ASSUME NEW L, NEW M
    PROVE  PartsOf(L \union M) = PartsOf(L) \union PartsOf(M)
  BY DEF PartsOf

LEMMA PartsOfFields ==
    ASSUME NEW v, NEW s, NEW m
    PROVE  PartsOf(FieldPerPixel(v, s, m)) = PartPerPixel(v, s)
  <1> DEFINE L == FieldPerPixel(v, s, m)
             R == PartPerPixel(v, s)
  <1>1. \A j \in 0..15 : <<v[j], s[j], m>> \in L
    BY DEF FieldPerPixel
  <1>2. \A x \in L : <<x[1], x[2]>> \in R
    BY DEF FieldPerPixel, PartPerPixel
  <1> HIDE DEF L
  <1>3. PartsOf(L) \subseteq R
    BY <1>2 DEF PartsOf
  <1>4. \A x \in L : <<x[1], x[2]>> \in PartsOf(L)
    BY DEF PartsOf
  <1>5. \A j \in 0..15 : <<v[j], s[j]>> \in PartsOf(L)
    BY <1>1, <1>4
  <1>6. QED
    BY <1>3, <1>5 DEF L, PartPerPixel

LEMMA BitsOfField ==
    ASSUME NEW n \in Nat, NEW L, Layout(n, L), NEW x \in L, NEW j \in 0..(x[3] - 1)
    PROVE  OrN(n, PartsOf(L))[x[2] + j] = BitOf(x[1], j)
  <1> DEFINE i == x[2] + j
             Sets(p) == i \in p[2]..(p[2] + 7) /\ BitOf(p[1], i - p[2]) = 1
  <1>1. x[1] \in Nat /\ x[2] \in Nat /\ x[3] \in 1..8 /\ x[2] + x[3] <= n
    BY DEF Layout
  <1>2. i \in 0..(n - 1) /\ j \in 0..7
    BY <1>1
  <1>3. OrN(n, PartsOf(L))[i] = IF \E p \in PartsOf(L) : Sets(p) THEN 1 ELSE 0
    BY <1>2 DEF OrN
  <1>4. \A y \in L : y # x => ~Sets(<<y[1], y[2]>>)
    <2> SUFFICES ASSUME NEW y \in L, y # x, i \in y[2]..(y[2] + 7)
                 PROVE  BitOf(y[1], i - y[2]) = 0
      BY DEF Bits
    <2>1. y[1] \in Nat /\ y[2] \in Nat /\ y[3] \in 1..8 /\ y[1] < 2^y[3]
      BY Powers DEF Layout
    <2>2. x[2] + x[3] <= y[2] \/ y[2] + y[3] <= x[2]
      BY DEF Layout
    <2>3. i - y[2] \in y[3]..7
      BY <1>1, <2>1, <2>2
    <2>4. QED
      BY <2>1, <2>3, NoHighBits
  <1>5. (\E p \in PartsOf(L) : Sets(p)) <=> BitOf(x[1], j) = 1
    <2>1. Sets(<<x[1], x[2]>>) <=> BitOf(x[1], j) = 1
      BY <1>1, <1>2
    <2> HIDE DEF Sets
    <2>2. QED
      BY <1>4, <2>1 DEF PartsOf
  <1>6. BitOf(x[1], j) \in Bits
    BY <1>1, <1>2, BitOfIsBit
  <1>7. QED
    BY <1>3, <1>5, <1>6 DEF Bits

\* What is put into a field is read from it.
LEMMA FieldIsRead ==
    ASSUME NEW n \in Nat, NEW L, Layout(n, L), NEW x \in L
    PROVE  Field(OrN(n, PartsOf(L)), x[2], x[3]) = x[1]
  <1> DEFINE w == OrN(n, PartsOf(L))
             b(j) == IF j < x[3] THEN w[x[2] + j] ELSE 0
  <1>1. x[1] \in Nat /\ x[2] \in Nat /\ x[3] \in 1..8 /\ x[1] < 2^x[3]
    BY Powers DEF Layout
  <1>2. \A j \in 0..7 : b(j) = BitOf(x[1], j)
    <2> TAKE j \in 0..7
    <2>1. CASE j < x[3]
      BY <1>1, <2>1, BitsOfField
    <2>2. CASE ~(j < x[3])
      <3>1. j \in x[3]..7
        BY <1>1, <2>2
      <3>2. QED
        BY <1>1, <2>2, <3>1, NoHighBits
    <2>3. QED
      BY <2>1, <2>2
  <1>3. x[1] \in 0..255
    <2>1. 2^x[3] <= 256 /\ 2^x[3] \in Nat
      BY <1>1, x[3] <= x[3], PowersGrow
    <2>2. QED
      BY <1>1, <2>1
  <1>4. Field(w, x[2], x[3]) = b(0) + 2 * b(1) + 4 * b(2) + 8 * b(3) + 16 * b(4) + 32 * b(5) + 64 * b(6) + 128 * b(7)
    BY DEF Field
  <1> HIDE DEF w, b
  <1>5. Field(w, x[2], x[3]) = x[1]
    BY <1>2, <1>3, <1>4, SumOfBits
  <1>6. QED
    BY <1>5 DEF w

\* Where no field lies there are zeros.
LEMMA ZeroOutside ==
    ASSUME NEW n \in Nat, NEW L, Layout(n, L), NEW i \in 0..(n - 1),
           \A x \in L : i < x[2] \/ x[2] + x[3] <= i
    PROVE  OrN(n, PartsOf(L))[i] = 0
  <1> DEFINE Sets(p) == i \in p[2]..(p[2] + 7) /\ BitOf(p[1], i - p[2]) = 1
  <1>1. OrN(n, PartsOf(L))[i] = IF \E p \in PartsOf(L) : Sets(p) THEN 1 ELSE 0
    BY DEF OrN
  <1>2. \A y \in L : ~Sets(<<y[1], y[2]>>)
    <2> SUFFICES ASSUME NEW y \in L, i \in y[2]..(y[2] + 7)
                 PROVE  BitOf(y[1], i - y[2]) = 0
      BY DEF Bits
    <2>1. y[1] \in Nat /\ y[2] \in Nat /\ y[3] \in 1..8 /\ y[1] < 2^y[3]
      BY Powers DEF Layout
    <2>2. i - y[2] \in y[3]..7
      BY <2>1
    <2>3. QED
      BY <2>1, <2>2, NoHighBits
  <1> HIDE DEF Sets
  <1>3. QED
    BY <1>1, <1>2 DEF PartsOf

LEMMA FieldAgrees ==
    ASSUME NEW w, NEW d, NEW lo \in Nat, NEW n \in 1..8, \A i \in lo..(lo + n - 1) : d[i] = w[i]
    PROVE  Field(d, lo, n) = Field(w, lo, n)
  <1> DEFINE b(j) == IF j < n THEN w[lo + j] ELSE 0
             c(j) == IF j < n THEN d[lo + j] ELSE 0
  <1>1. \A j \in 0..7 : b(j) = c(j)
    OBVIOUS
  <1>2. /\ Field(w, lo, n) = b(0) + 2 * b(1) + 4 * b(2) + 8 * b(3) + 16 * b(4) + 32 * b(5) + 64 * b(6) + 128 * b(7)
        /\ Field(d, lo, n) = c(0) + 2 * c(1) + 4 * c(2) + 8 * c(3) + 16 * c(4) + 32 * c(5) + 64 * c(6) + 128 * c(7)
    BY DEF Field
  <1> HIDE DEF b, c
  <1>3. QED
    BY <1>1, <1>2

\* The byte order of the file is undone by the reader.
LEMMA BswapTwice ==
    ASSUME NEW w \in Word
    PROVE  Bswap(w) \in Word /\ Bswap(Bswap(w)) = w
  <1>1. \A i \in 0..31 : /\ 8 * (3 - i \div 8) + (i % 8) \in 0..31
                         /\ LET j == 8 * (3 - i \div 8) + (i % 8) IN 8 * (3 - j \div 8) + (j % 8) = i
    OBVIOUS
  <1>2. Bswap(w) \in Word
    BY <1>1 DEF Bswap, Word
  <1>3. \A i \in 0..31 : Bswap(Bswap(w))[i] = w[i]
    BY <1>1 DEF Bswap
  <1>4. Bswap(Bswap(w)) = [i \in 0..31 |-> Bswap(Bswap(w))[i]]
    BY DEF Bswap
  <1>5. w = [i \in 0..31 |-> w[i]]
    BY DEF Word
  <1>6. QED
    BY <1>2, <1>3, <1>4, <1>5
-----------------------------------------------------------------------------
(* The mode of a colour word                                               *)

\* A base whose two highest bits differ cannot leave its range.
LEMMA HighBitsDiffer ==
    ASSUME NEW d, NEW i \in 1..3, \A j \in (32 - 8 * i)..(39 - 8 * i) : d[j] \in Bits,
           d[39 - 8 * i] = 1 - d[38 - 8 * i]
    PROVE  Base(d, i) + Delta(d, i) \in 0..31
  <1> DEFINE lo == 32 - 8 * i
  <1>1. /\ d[lo] \in Bits /\ d[lo + 1] \in Bits /\ d[lo + 2] \in Bits /\ d[lo + 3] \in Bits
        /\ d[lo + 4] \in Bits /\ d[lo + 5] \in Bits /\ d[lo + 6] \in Bits /\ d[lo + 7] \in Bits
        /\ d[lo + 7] = 1 - d[lo + 6]
    <2>1. lo + 7 = 39 - 8 * i /\ lo + 6 = 38 - 8 * i
      OBVIOUS
    <2>2. \A j \in 0..7 : lo + j \in lo..(39 - 8 * i)
      OBVIOUS
    <2>3. QED
      BY <2>1, <2>2
  <1>2. 35 - 8 * i = lo + 3 /\ lo \in Int
    OBVIOUS
  <1>3. Base(d, i) = d[lo + 3] + 2 * d[lo + 4] + 4 * d[lo + 5] + 8 * d[lo + 6] + 16 * d[lo + 7]
    <2>1. (lo + 3) + 0 = lo + 3 /\ (lo + 3) + 1 = lo + 4 /\ (lo + 3) + 2 = lo + 5 /\ (lo + 3) + 3 = lo + 6 /\ (lo + 3) + 4 = lo + 7
      BY <1>2
    <2> HIDE DEF lo
    <2>2. QED
      BY <1>1, <1>2, <2>1 DEF Base, Field, Bits
  <1>4. Delta(d, i) = LET v == d[lo] + 2 * d[lo + 1] + 4 * d[lo + 2] IN IF v > 3 THEN v - 8 ELSE v
    <2>1. Field(d, lo, 3) = d[lo] + 2 * d[lo + 1] + 4 * d[lo + 2]
      <3>1. lo + 0 = lo
        OBVIOUS
      <3> HIDE DEF lo
      <3>2. QED
        BY <1>1, <3>1 DEF Field, Bits
    <2>2. QED
      BY <2>1 DEF Delta
  <1> HIDE DEF lo
  <1>5. QED
    BY <1>1, <1>3, <1>4 DEF Bits

\* stuff59bits: red leaves its range, whatever the four bits are that it shares.
LEMMA StuffedT ==
    ASSUME NEW w \in Word
    PROVE  stuff59bits(w) \in Word /\ ModeOf(stuff59bits(w)) = "T"
  <1> DEFINE d == stuff59bits(w)
             a == w[26]
             b == w[25]
             c == w[24]
             e == w[23]
             ones == PadWithOnes(a, b, c, e)
  <1>1. \A i \in 0..31 : w[i] \in Bits
    BY DEF Word
  <1>2. d \in Word
    BY <1>1, FlagIsBit DEF stuff59bits, Word, Bits
  <1>3. /\ d[31] = Flag(ones) /\ d[30] = Flag(ones) /\ d[29] = Flag(ones) /\ d[28] = a /\ d[27] = b
        /\ d[26] = Flag(~ones) /\ d[25] = c /\ d[24] = e /\ d[1] = 1
    BY DEF stuff59bits
  <1>4. a \in Bits /\ b \in Bits /\ c \in Bits /\ e \in Bits
    BY <1>1
  <1> HIDE DEF d, a, b, c, e
  <1>5. /\ Base(d, 1) = b + 2 * a + 28 * Flag(ones)
        /\ Delta(d, 1) = e + 2 * c - 4 * Flag(~ones)
    BY <1>3, <1>4 DEF Base, Delta, Field, Flag, Bits
  <1>6. Base(d, 1) + Delta(d, 1) \notin 0..31
    BY <1>4, <1>5 DEF Flag, Bits, PadWithOnes
  <1>7. QED
    BY <1>2, <1>3, <1>6 DEF ModeOf, Leaves, d

\* stuff58bits: red stays, because its two highest bits differ, and green leaves.
LEMMA StuffedH ==
    ASSUME NEW w \in Word
    PROVE  stuff58bits(w) \in Word /\ ModeOf(stuff58bits(w)) = "H"
  <1> DEFINE d == stuff58bits(w)
             a == w[18]
             b == w[17]
             c == w[16]
             e == w[15]
             ones == PadWithOnes(a, b, c, e)
  <1>1. \A i \in 0..31 : w[i] \in Bits
    BY DEF Word
  <1>2. d \in Word
    BY <1>1, FlagIsBit DEF stuff58bits, Word, Bits
  <1>3. /\ d[23] = Flag(ones) /\ d[22] = Flag(ones) /\ d[21] = Flag(ones) /\ d[20] = a /\ d[19] = b
        /\ d[18] = Flag(~ones) /\ d[17] = c /\ d[16] = e /\ d[1] = 1
        /\ d[31] = 1 - d[30]
    BY DEF stuff58bits
  <1>4. a \in Bits /\ b \in Bits /\ c \in Bits /\ e \in Bits
    BY <1>1
  <1>5. \A i \in 24..31 : d[i] \in Bits
    BY <1>2 DEF Word
  <1> HIDE DEF d, a, b, c, e
  <1>6. /\ Base(d, 2) = b + 2 * a + 28 * Flag(ones)
        /\ Delta(d, 2) = e + 2 * c - 4 * Flag(~ones)
    BY <1>3, <1>4 DEF Base, Delta, Field, Flag, Bits
  <1>7. Base(d, 2) + Delta(d, 2) \notin 0..31
    BY <1>4, <1>6 DEF Flag, Bits, PadWithOnes
  <1>8. ~Leaves(d, 1)
    BY <1>3, <1>5, HighBitsDiffer DEF Leaves
  <1>9. QED
    BY <1>2, <1>3, <1>7, <1>8 DEF ModeOf, Leaves, d

Corner(c) == c[1] \in 0..63 /\ c[2] \in 0..127 /\ c[3] \in 0..63

PlanarLayout(co, ch) ==
    { <<ch[1] % 2, 0, 1>>, <<ch[1] \div 2, 2, 5>>, <<co[3] % 8, 7, 3>>, <<(co[3] \div 8) % 4, 11, 2>>,
      <<co[3] \div 32, 16, 1>>, <<co[2] % 64, 17, 6>>, <<co[2] \div 64, 24, 1>>, <<co[1], 25, 6>> }

\* g_flags sets bits that no field of the word uses.
LEMMA PlanarFields ==
    ASSUME NEW co, Corner(co), NEW ch, Corner(ch)
    PROVE  LET d == PlanarLo(co, ch)
           IN  /\ d \in Word
               /\ \A x \in PlanarLayout(co, ch) :
                    /\ Field(d, x[2], x[3]) = x[1]
                    /\ \A j \in 0..(x[3] - 1) : d[x[2] + j] = BitOf(x[1], j)
               /\ \A i \in {1, 10, 13, 14, 15, 23, 31} : d[i] = Flag(i \in g_flags(FlagIndex(co)))
  <1> DEFINE L == PlanarLayout(co, ch)
             w == OrN(32, PartsOf(L))
             d == PlanarLo(co, ch)
             free == {1, 10, 13, 14, 15, 23, 31}
             flags == g_flags(FlagIndex(co))
  <1>1. Layout(32, L)
    <2>1. /\ ch[1] % 2 \in 0..1 /\ ch[1] \div 2 \in 0..31 /\ co[3] % 8 \in 0..7 /\ (co[3] \div 8) % 4 \in 0..3
          /\ co[3] \div 32 \in 0..1 /\ co[2] % 64 \in 0..63 /\ co[2] \div 64 \in 0..1 /\ co[1] \in 0..63
      BY DEF Corner
    <2>2. \A x \in L : /\ x[1] \in Nat /\ x[2] \in Nat /\ x[3] \in 1..8
                       /\ x[1] < PowersOfTwo[x[3]] /\ x[2] + x[3] <= 32
      BY <2>1 DEF PlanarLayout, PowersOfTwo
    <2>3. \A x, y \in L : x = y \/ x[2] + x[3] <= y[2] \/ y[2] + y[3] <= x[2]
      BY DEF PlanarLayout
    <2>4. QED
      BY <2>2, <2>3 DEF Layout
  <1>2. PartsOf(L) = {<<ch[1] % 2, 0>>, <<ch[1] \div 2, 2>>, <<co[3] % 8, 7>>,
                      <<(co[3] \div 8) % 4, 11>>, <<co[3] \div 32, 16>>,
                      <<co[2] % 64, 17>>, <<co[2] \div 64, 24>>, <<co[1], 25>>}
    BY DEF PartsOf, PlanarLayout
  <1>3. d = [i \in 0..31 |-> IF i \in flags THEN 1 ELSE w[i]]
    BY <1>2 DEF PlanarLo, Or
  <1>4. flags \subseteq free
    BY DEF g_flags
  <1>5. \A x \in L : \A i \in x[2]..(x[2] + x[3] - 1) : i \notin free /\ i \in 0..31
    BY DEF PlanarLayout
  <1>6. \A i \in free : w[i] = 0
    <2>1. \A i \in free : i \in 0..31 /\ \A x \in L : i < x[2] \/ x[2] + x[3] <= i
      BY DEF PlanarLayout
    <2> HIDE DEF L, free
    <2>2. QED
      BY <1>1, <2>1, ZeroOutside
  <1>7. w \in Word
    BY OrIsWord DEF Or
  <1>8. d \in Word
    BY <1>3, <1>7 DEF Word, Bits
  <1>9. \A i \in free : d[i] = Flag(i \in flags)
    BY <1>3, <1>6 DEF Flag
  <1>10. \A x \in L : \A i \in x[2]..(x[2] + x[3] - 1) : d[i] = w[i]
    <2> HIDE DEF L, w, d, free, flags
    <2> QED BY <1>3, <1>4, <1>5
  <1>11. ASSUME NEW x \in L
         PROVE  Field(d, x[2], x[3]) = x[1] /\ \A j \in 0..(x[3] - 1) : d[x[2] + j] = BitOf(x[1], j)
    <2> HIDE DEF L, w, d, free, flags
    <2>1. x[2] \in Nat /\ x[3] \in 1..8
      BY <1>1 DEF Layout
    <2>2. Field(d, x[2], x[3]) = Field(w, x[2], x[3])
      BY <1>10, <2>1, FieldAgrees
    <2>3. Field(w, x[2], x[3]) = x[1]
      BY <1>1, FieldIsRead DEF w
    <2>4. \A j \in 0..(x[3] - 1) : w[x[2] + j] = BitOf(x[1], j)
      BY <1>1, BitsOfField DEF w
    <2>5. \A j \in 0..(x[3] - 1) : d[x[2] + j] = w[x[2] + j]
      BY <1>10, <2>1
    <2>6. QED
      BY <2>2, <2>3, <2>4, <2>5
  <1>12. QED
    BY <1>8, <1>9, <1>11

\* Red and green stay; blue leaves its range upwards or downwards, as g_flags
\* has it for the four bits of blue that the word keeps there.
LEMMA PlanarMode ==
    ASSUME NEW co, Corner(co), NEW ch, Corner(ch)
    PROVE  ModeOf(PlanarLo(co, ch)) = "planar"
  <1> DEFINE d == PlanarLo(co, ch)
             flags == g_flags(FlagIndex(co))
             L == PlanarLayout(co, ch)
  <1>1. /\ d \in Word
        /\ \A x \in L : \A j \in 0..(x[3] - 1) : d[x[2] + j] = BitOf(x[1], j)
        /\ \A i \in {1, 10, 13, 14, 15, 23, 31} : d[i] = Flag(i \in flags)
    BY PlanarFields
  <1>2. \A i \in 0..31 : d[i] \in Bits
    BY <1>1 DEF Word
  <1>3. /\ d[30] = BitOf(co[1], 5)
        /\ d[22] = BitOf(co[2] % 64, 5)
        /\ d[8] = BitOf(co[3] % 8, 1)
        /\ d[9] = BitOf(co[3] % 8, 2)
        /\ d[11] = BitOf((co[3] \div 8) % 4, 0)
        /\ d[12] = BitOf((co[3] \div 8) % 4, 1)
    <2>1. /\ <<co[1], 25, 6>> \in L /\ <<co[2] % 64, 17, 6>> \in L
          /\ <<co[3] % 8, 7, 3>> \in L /\ <<(co[3] \div 8) % 4, 11, 2>> \in L
      BY DEF PlanarLayout
    <2> HIDE DEF L, d, flags
    <2>2. QED
      BY <1>1, <2>1
  <1>4. /\ BitOf(co[2] % 64, 5) = BitOf(co[2], 5)
        /\ (co[3] \div 2) % 16 = d[8] + 2 * d[9] + 4 * d[11] + 8 * d[12]
    <2>1. BitOf(co[2] % 64, 5) = BitOf(co[2], 5)
      BY DEF Corner, BitOf
    <2>2. (co[3] \div 2) % 16 = BitOf(co[3] % 8, 1) + 2 * BitOf(co[3] % 8, 2) + 4 * BitOf((co[3] \div 8) % 4, 0)
                                + 8 * BitOf((co[3] \div 8) % 4, 1)
      BY DEF Corner, BitOf
    <2>3. QED
      BY <1>3, <2>1, <2>2
  <1> DEFINE m == (co[3] \div 2) % 16
  <1>5. /\ FlagIndex(co) = 32 * d[30] + 16 * d[22] + m
        /\ m \in 0..15
    BY <1>3, <1>4 DEF FlagIndex, Corner
  <1>6. /\ 31 \in flags <=> d[30] = 0
        /\ 23 \in flags <=> d[22] = 0
        /\ 1 \in flags
        /\ IF m \in {7, 10, 11, 13, 14, 15} THEN {13, 14, 15} \subseteq flags /\ 10 \notin flags
                                            ELSE 10 \in flags /\ {13, 14, 15} \cap flags = {}
    <2>1. d[30] \in Bits /\ d[22] \in Bits
      BY <1>2
    <2> HIDE DEF d, m
    <2>2. /\ FlagIndex(co) % 32 = 16 * d[22] + m /\ FlagIndex(co) % 16 = m
          /\ FlagIndex(co) < 32 <=> d[30] = 0
      BY <1>5, <2>1 DEF Bits
    <2>3. QED
      BY <1>5, <2>1, <2>2 DEF g_flags, Bits
  <1>7. /\ d[31] = 1 - d[30] /\ d[23] = 1 - d[22] /\ d[1] = 1
        /\ IF m \in {7, 10, 11, 13, 14, 15} THEN d[13] = 1 /\ d[14] = 1 /\ d[15] = 1 /\ d[10] = 0
                                            ELSE d[13] = 0 /\ d[14] = 0 /\ d[15] = 0 /\ d[10] = 1
    <2>1. d[30] \in Bits /\ d[22] \in Bits
      BY <1>2
    <2> HIDE DEF d, m, flags
    <2>2. QED
      BY <1>1, <1>6, <2>1 DEF Flag, Bits
  <1>8. ~Leaves(d, 1) /\ ~Leaves(d, 2)
    <2> HIDE DEF d
    <2> QED BY <1>2, <1>7, HighBitsDiffer DEF Leaves
  <1>9. Base(d, 3) + Delta(d, 3) \notin 0..31
    <2>1. d[8] \in Bits /\ d[9] \in Bits /\ d[11] \in Bits /\ d[12] \in Bits /\ d[10] \in Bits
      BY <1>2
    <2>2. m = d[8] + 2 * d[9] + 4 * d[11] + 8 * d[12]
      BY <1>4
    <2> HIDE DEF d, m
    <2>3. /\ Base(d, 3) = d[11] + 2 * d[12] + 4 * d[13] + 8 * d[14] + 16 * d[15]
          /\ Delta(d, 3) = d[8] + 2 * d[9] - 4 * d[10]
      BY <1>7, <2>1 DEF Base, Delta, Field, Bits
    <2>4. QED
      BY <1>7, <2>1, <2>2, <2>3, SMTT(60) DEF Bits
  <1>10. QED
    BY <1>7, <1>8, <1>9 DEF ModeOf, Leaves
-----------------------------------------------------------------------------
(* ETC1 words                                                              *)

LEMMA BitsInByte ==
    ASSUME NEW d, NEW lo \in Nat, NEW v \in 0..255, \A j \in 0..7 : d[lo + j] = BitOf(v, j)
    PROVE  /\ Field(d, lo + 3, 5) = v \div 8 /\ Field(d, lo, 3) = v % 8
           /\ Field(d, lo + 4, 4) = v \div 16 /\ Field(d, lo, 4) = v % 16
  <1>1. /\ d[lo] = BitOf(v, 0) /\ d[lo + 1] = BitOf(v, 1) /\ d[lo + 2] = BitOf(v, 2) /\ d[lo + 3] = BitOf(v, 3)
        /\ d[lo + 4] = BitOf(v, 4) /\ d[lo + 5] = BitOf(v, 5) /\ d[lo + 6] = BitOf(v, 6) /\ d[lo + 7] = BitOf(v, 7)
    <2>1. lo + 0 = lo
      OBVIOUS
    <2>2. QED
      BY <2>1
  <1>2. /\ Field(d, lo, 3) = d[lo] + 2 * d[lo + 1] + 4 * d[lo + 2]
        /\ Field(d, lo, 4) = d[lo] + 2 * d[lo + 1] + 4 * d[lo + 2] + 8 * d[lo + 3]
        /\ Field(d, lo + 4, 4) = d[lo + 4] + 2 * d[lo + 5] + 4 * d[lo + 6] + 8 * d[lo + 7]
        /\ Field(d, lo + 3, 5) = d[lo + 3] + 2 * d[lo + 4] + 4 * d[lo + 5] + 8 * d[lo + 6] + 16 * d[lo + 7]
    <2>1. \A j \in 0..7 : BitOf(v, j) \in Int
      BY BitOfIsBit DEF Bits
    <2>2. /\ lo + 0 = lo /\ (lo + 3) + 0 = lo + 3 /\ (lo + 3) + 1 = lo + 4 /\ (lo + 3) + 2 = lo + 5
          /\ (lo + 3) + 3 = lo + 6 /\ (lo + 3) + 4 = lo + 7
          /\ (lo + 4) + 0 = lo + 4 /\ (lo + 4) + 1 = lo + 5 /\ (lo + 4) + 2 = lo + 6 /\ (lo + 4) + 3 = lo + 7
      OBVIOUS
    <2>3. QED
      BY <1>1, <2>1, <2>2 DEF Field
  <1>3. v % 8 = BitOf(v, 0) + 2 * BitOf(v, 1) + 4 * BitOf(v, 2)
    BY DEF BitOf
  <1>4. v \div 8 = BitOf(v, 3) + 2 * BitOf(v, 4) + 4 * BitOf(v, 5) + 8 * BitOf(v, 6) + 16 * BitOf(v, 7)
    BY DEF BitOf
  <1>5. v % 16 = BitOf(v, 0) + 2 * BitOf(v, 1) + 4 * BitOf(v, 2) + 8 * BitOf(v, 3)
    BY DEF BitOf
  <1>6. v \div 16 = BitOf(v, 4) + 2 * BitOf(v, 5) + 4 * BitOf(v, 6) + 8 * BitOf(v, 7)
    BY DEF BitOf
  <1>7. QED
    BY <1>1, <1>2, <1>3, <1>4, <1>5, <1>6

\* Where the bytes of a word go when it is swapped.
LEMMA BytesSwapped ==
    ASSUME NEW w, NEW q \in 0..3, NEW j \in 0..7
    PROVE  Bswap(w)[8 * q + j] = w[8 * (3 - q) + j]
  <1>1. 8 * q + j \in 0..31 /\ (8 * q + j) \div 8 = q /\ (8 * q + j) % 8 = j
    OBVIOUS
  <1>2. QED
    BY <1>1 DEF Bswap

\* The averages fit their bits, and a difference its three.
LEMMA AveragesFit ==
    ASSUME NEW avg \in [1..2 -> Colours], NEW diff \in 0..1, NEW i \in 1..3
    PROVE  LET a == ProcessAverages(avg, diff)
           IN  /\ a[1][i] \in 0..31 /\ a[2][i] \in 0..31
               /\ diff = 1 => a[1][i] - a[2][i] \in -4..3
               /\ diff = 0 => a[1][i] \in 0..15 /\ a[2][i] \in 0..15
  <1>1. avg[1][i] \in 0..255 /\ avg[2][i] \in 0..255
    <2>0. avg[1] \in Colours /\ avg[2] \in Colours
      OBVIOUS
    <2>1. avg[1] \in [1..3 -> 0..255] /\ avg[2] \in [1..3 -> 0..255]
      <3>1. \A c \in Colours : c \in [1..3 -> 0..255]
        BY InputsAssumption, Zenon
      <3>2. QED
        BY <2>0, <3>1, Zenon
    <2>2. QED
      BY <2>1
  <1>2. \A v \in 0..255 : Quantise(v, 31) \in 0..31 /\ Quantise(v, 15) \in 0..15
    BY DEF Quantise
  <1>3. CASE diff = 0
    <2> DEFINE q1 == Quantise(avg[1][i], 15)
               q2 == Quantise(avg[2][i], 15)
    <2>1. ProcessAverages(avg, diff)[1][i] = q1 /\ ProcessAverages(avg, diff)[2][i] = q2
      BY <1>3 DEF ProcessAverages, Map3
    <2>2. q1 \in 0..15 /\ q2 \in 0..15
      BY <1>1, <1>2
    <2> HIDE DEF q1, q2
    <2>3. QED
      BY <1>3, <2>1, <2>2
  <1>4. CASE diff = 1
    <2> DEFINE q1 == Quantise(avg[1][i], 31)
               q2 == Quantise(avg[2][i], 31)
    <2>1. /\ ProcessAverages(avg, diff)[2][i] = q2
          /\ ProcessAverages(avg, diff)[1][i] = q2 + Clamp(-4, q1 - q2, 3)
      BY <1>4 DEF ProcessAverages, Map3
    <2>2. q1 \in 0..31 /\ q2 \in 0..31
      BY <1>1, <1>2
    <2> HIDE DEF q1, q2
    <2>3. QED
      BY <1>4, <2>1, <2>2 DEF Clamp
  <1>5. QED
    BY <1>3, <1>4

Etc1Parts(b, diff, flip, tidx) ==
    {<<b[1], 0>>, <<b[2], 8>>, <<b[3], 16>>, <<2 * diff + flip, 24>>, <<tidx[1], 26>>, <<tidx[2], 29>>}

Etc1Pixels(a, diff, flip, tidx, idx) ==
    [k \in 0..15 |-> LET h == 2 - HalfOf(k, flip)
                     IN  Modified(BaseColour(a[h], diff), g_table[tidx[h] + 1][idx[k] + 1])]

LEMMA Etc1Fields ==
    ASSUME NEW b, b[1] \in 0..255, b[2] \in 0..255, b[3] \in 0..255,
           NEW diff \in 0..1, NEW flip \in 0..1, NEW tidx, tidx[1] \in 0..7, tidx[2] \in 0..7,
           NEW lo, lo = Or(Etc1Parts(b, diff, flip, tidx))
    PROVE  /\ Bswap(lo)[0] = flip /\ Bswap(lo)[1] = diff
           /\ Field(Bswap(lo), 2, 3) = tidx[1] /\ Field(Bswap(lo), 5, 3) = tidx[2]
           /\ \A i \in 1..3 :
                /\ Field(Bswap(lo), 35 - 8 * i, 5) = b[i] \div 8
                /\ Field(Bswap(lo), 32 - 8 * i, 3) = b[i] % 8
                /\ Field(Bswap(lo), 36 - 8 * i, 4) = b[i] \div 16
                /\ Field(Bswap(lo), 32 - 8 * i, 4) = b[i] % 16
  <1> DEFINE L == { <<b[1], 0, 8>>, <<b[2], 8, 8>>, <<b[3], 16, 8>>, <<2 * diff + flip, 24, 2>>,
                    <<tidx[1], 26, 3>>, <<tidx[2], 29, 3>> }
             w == OrN(32, PartsOf(L))
             d == Bswap(w)
  <1>1. Layout(32, L)
    <2>1. \A x \in L : /\ x[1] \in Nat /\ x[2] \in Nat /\ x[3] \in 1..8
                       /\ x[1] < PowersOfTwo[x[3]] /\ x[2] + x[3] <= 32
      BY SMTT(60) DEF PowersOfTwo
    <2>2. \A x, y \in L : x = y \/ x[2] + x[3] <= y[2] \/ y[2] + y[3] <= x[2]
      OBVIOUS
    <2>3. QED
      BY <2>1, <2>2 DEF Layout
  <1>2. PartsOf(L) = {<<b[1], 0>>, <<b[2], 8>>, <<b[3], 16>>, <<2 * diff + flip, 24>>, <<tidx[1], 26>>, <<tidx[2], 29>>}
    BY DEF PartsOf
  <1>3. /\ \A j \in 0..7 : w[0 + j] = BitOf(b[1], j) /\ w[8 + j] = BitOf(b[2], j) /\ w[16 + j] = BitOf(b[3], j)
        /\ \A j \in 0..1 : w[24 + j] = BitOf(2 * diff + flip, j)
        /\ \A j \in 0..2 : w[26 + j] = BitOf(tidx[1], j) /\ w[29 + j] = BitOf(tidx[2], j)
    <2>1. /\ <<b[1], 0, 8>> \in L /\ <<b[2], 8, 8>> \in L /\ <<b[3], 16, 8>> \in L
          /\ <<2 * diff + flip, 24, 2>> \in L /\ <<tidx[1], 26, 3>> \in L /\ <<tidx[2], 29, 3>> \in L
      OBVIOUS
    <2> HIDE DEF L
    <2>2. \A x \in L : \A j \in 0..(x[3] - 1) : w[x[2] + j] = BitOf(x[1], j)
      BY <1>1, BitsOfField
    <2> HIDE DEF w
    <2>3. QED
      BY <2>1, <2>2
  <1> HIDE DEF L, w
  <1>4. /\ \A j \in 0..7 : d[24 + j] = BitOf(b[1], j) /\ d[16 + j] = BitOf(b[2], j) /\ d[8 + j] = BitOf(b[3], j)
        /\ \A j \in 0..7 : d[j] = w[24 + j]
    <2>1. /\ \A j \in 0..7 : d[8 * 3 + j] = w[8 * (3 - 3) + j] /\ d[8 * 2 + j] = w[8 * (3 - 2) + j]
        /\ \A j \in 0..7 : d[8 * 1 + j] = w[8 * (3 - 1) + j] /\ d[8 * 0 + j] = w[8 * (3 - 0) + j]
      BY BytesSwapped
    <2> HIDE DEF d
    <2>2. \A j \in 0..7 : d[24 + j] = w[0 + j] /\ d[16 + j] = w[8 + j] /\ d[8 + j] = w[16 + j] /\ d[j] = w[24 + j]
      BY <2>1
    <2>3. QED
      BY <1>3, <2>2
  <1> HIDE DEF d
  <1>5. d[0] = flip /\ d[1] = diff
    BY <1>3, <1>4 DEF BitOf
  <1>6. Field(d, 2, 3) = tidx[1] /\ Field(d, 5, 3) = tidx[2]
    <2>1. /\ d[2] = BitOf(tidx[1], 0) /\ d[3] = BitOf(tidx[1], 1) /\ d[4] = BitOf(tidx[1], 2)
          /\ d[5] = BitOf(tidx[2], 0) /\ d[6] = BitOf(tidx[2], 1) /\ d[7] = BitOf(tidx[2], 2)
      <3>1. /\ d[2] = w[26] /\ d[3] = w[27] /\ d[4] = w[28] /\ d[5] = w[29] /\ d[6] = w[30] /\ d[7] = w[31]
        BY <1>4
      <3>2. QED
        BY <1>3, <3>1
    <2>2. /\ tidx[1] = BitOf(tidx[1], 0) + 2 * BitOf(tidx[1], 1) + 4 * BitOf(tidx[1], 2)
          /\ tidx[2] = BitOf(tidx[2], 0) + 2 * BitOf(tidx[2], 1) + 4 * BitOf(tidx[2], 2)
      BY DEF BitOf
    <2>3. \A j \in 0..7 : BitOf(tidx[1], j) \in Int /\ BitOf(tidx[2], j) \in Int
      BY BitOfIsBit DEF Bits
    <2>4. QED
      BY <2>1, <2>2, <2>3 DEF Field
  <1>7. ASSUME NEW i \in 1..3
        PROVE  /\ Field(d, 35 - 8 * i, 5) = b[i] \div 8 /\ Field(d, 32 - 8 * i, 3) = b[i] % 8
               /\ Field(d, 36 - 8 * i, 4) = b[i] \div 16 /\ Field(d, 32 - 8 * i, 4) = b[i] % 16
    <2>1. CASE i = 1
      <3>1. 24 \in Nat /\ b[1] \in 0..255 /\ \A j \in 0..7 : d[24 + j] = BitOf(b[1], j)
        BY <1>4
      <3>2. /\ Field(d, 24 + 3, 5) = b[1] \div 8 /\ Field(d, 24, 3) = b[1] % 8
            /\ Field(d, 24 + 4, 4) = b[1] \div 16 /\ Field(d, 24, 4) = b[1] % 16
        BY <3>1, BitsInByte, Zenon
      <3>3. 24 + 3 = 35 - 8 * i /\ 24 + 4 = 36 - 8 * i /\ 24 = 32 - 8 * i
        BY <2>1
      <3>4. QED
        BY <2>1, <3>2, <3>3
    <2>2. CASE i = 2
      <3>1. 16 \in Nat /\ b[2] \in 0..255 /\ \A j \in 0..7 : d[16 + j] = BitOf(b[2], j)
        BY <1>4
      <3>2. /\ Field(d, 16 + 3, 5) = b[2] \div 8 /\ Field(d, 16, 3) = b[2] % 8
            /\ Field(d, 16 + 4, 4) = b[2] \div 16 /\ Field(d, 16, 4) = b[2] % 16
        BY <3>1, BitsInByte, Zenon
      <3>3. 16 + 3 = 35 - 8 * i /\ 16 + 4 = 36 - 8 * i /\ 16 = 32 - 8 * i
        BY <2>2
      <3>4. QED
        BY <2>2, <3>2, <3>3
    <2>3. CASE i = 3
      <3>1. 8 \in Nat /\ b[3] \in 0..255 /\ \A j \in 0..7 : d[8 + j] = BitOf(b[3], j)
        BY <1>4
      <3>2. /\ Field(d, 8 + 3, 5) = b[3] \div 8 /\ Field(d, 8, 3) = b[3] % 8
            /\ Field(d, 8 + 4, 4) = b[3] \div 16 /\ Field(d, 8, 4) = b[3] % 16
        BY <3>1, BitsInByte, Zenon
      <3>3. 8 + 3 = 35 - 8 * i /\ 8 + 4 = 36 - 8 * i /\ 8 = 32 - 8 * i
        BY <2>3
      <3>4. QED
        BY <2>3, <3>2, <3>3
    <2>4. QED
      BY <2>1, <2>2, <2>3
  <1>8. d = Bswap(lo)
    BY <1>2 DEF d, w, Or, Etc1Parts
  <1>9. QED
    BY <1>5, <1>6, <1>7, <1>8

LEMMA Etc1Indices ==
    ASSUME NEW idx \in [0..15 -> 0..3], NEW k \in 0..15
    PROVE  IndexAt(Or({<<idx[j] % 2, j>> : j \in 0..15} \union {<<idx[j] \div 2, 16 + j>> : j \in 0..15}), k) = idx[k]
  <1> DEFINE low == [j \in 0..15 |-> idx[j] % 2]
             high == [j \in 0..15 |-> idx[j] \div 2]
             pos == [j \in 0..15 |-> j]
             pos2 == [j \in 0..15 |-> 16 + j]
             L == FieldPerPixel(low, pos, 1) \union FieldPerPixel(high, pos2, 1)
             w == OrN(32, PartsOf(L))
  <1>1. \A j \in 0..15 : /\ low[j] \in 0..1 /\ high[j] \in 0..1 /\ pos[j] = j /\ pos2[j] = 16 + j
                         /\ low[j] = idx[j] % 2 /\ high[j] = idx[j] \div 2 /\ idx[j] \in 0..3
    OBVIOUS
  <1> HIDE DEF low, high, pos, pos2
  <1>2. Layout(32, L)
    <2>1. \A x \in L : /\ x[1] \in 0..1 /\ x[2] \in 0..31 /\ x[3] = 1
      BY <1>1 DEF FieldPerPixel
    <2>2. \A x, y \in L : x[2] = y[2] => x = y
      BY <1>1 DEF FieldPerPixel
    <2> HIDE DEF L
    <2>3. \A x \in L : /\ x[1] \in Nat /\ x[2] \in Nat /\ x[3] \in 1..8
                       /\ x[1] < PowersOfTwo[x[3]] /\ x[2] + x[3] <= 32
      BY <2>1 DEF PowersOfTwo
    <2>4. \A x, y \in L : x = y \/ x[2] + x[3] <= y[2] \/ y[2] + y[3] <= x[2]
      BY <2>1, <2>2
    <2>5. QED
      BY <2>3, <2>4 DEF Layout
  <1>3. PartsOf(L) = {<<idx[j] % 2, j>> : j \in 0..15} \union {<<idx[j] \div 2, 16 + j>> : j \in 0..15}
    <2>1. PartsOf(L) = PartPerPixel(low, pos) \union PartPerPixel(high, pos2)
      BY PartsOfFields, PartsOfUnion
    <2>2. PartPerPixel(low, pos) = {<<idx[j] % 2, j>> : j \in 0..15}
      BY <1>1 DEF PartPerPixel
    <2>3. PartPerPixel(high, pos2) = {<<idx[j] \div 2, 16 + j>> : j \in 0..15}
      BY <1>1 DEF PartPerPixel
    <2>4. QED
      BY <2>1, <2>2, <2>3
  <1>4. w[k] = BitOf(low[k], 0) /\ w[16 + k] = BitOf(high[k], 0)
    <2>1. <<low[k], pos[k], 1>> \in L /\ <<high[k], pos2[k], 1>> \in L
      BY DEF FieldPerPixel
    <2> HIDE DEF L
    <2>2. \A x \in L : \A j \in 0..(x[3] - 1) : w[x[2] + j] = BitOf(x[1], j)
      BY <1>2, BitsOfField
    <2> HIDE DEF w
    <2>3. w[pos[k] + 0] = BitOf(low[k], 0) /\ w[pos2[k] + 0] = BitOf(high[k], 0)
      BY <2>1, <2>2
    <2>4. QED
      BY <1>1, <2>3
  <1>5. 2 * BitOf(high[k], 0) + BitOf(low[k], 0) = idx[k]
    BY <1>1 DEF BitOf
  <1>6. QED
    BY <1>3, <1>4, <1>5 DEF IndexAt, Or

IndicesAre(hi, idx) == \A k \in 0..15 : IndexAt(hi, k) = idx[k]

\* Base, difference, tables and flip are in their places.
Etc1Header(d, a, diff, flip, tidx) ==
    /\ d[0] = flip /\ d[1] = diff /\ Field(d, 2, 3) = tidx[1] /\ Field(d, 5, 3) = tidx[2]
    /\ diff = 1 => \A i \in 1..3 : /\ Base(d, i) = a[2][i] /\ Base(d, i) + Delta(d, i) = a[1][i]
                                   /\ a[1][i] \in 0..31
    /\ diff = 0 => \A i \in 1..3 : Field(d, 36 - 8 * i, 4) = a[2][i] /\ Field(d, 32 - 8 * i, 4) = a[1][i]

LEMMA Etc1Decoded ==
    ASSUME NEW d, NEW hi, NEW a, NEW diff \in 0..1, NEW flip \in 0..1, NEW tidx, NEW idx,
           Etc1Header(d, a, diff, flip, tidx), IndicesAre(hi, idx)
    PROVE  /\ ModeOf(d) = IF diff = 1 THEN "differential" ELSE "individual"
           /\ DecodeEtc1(d, hi) = Etc1Pixels(a, diff, flip, tidx, idx)
  <1> USE DEF Etc1Header, IndicesAre
  <1>1. ModeOf(d) = IF diff = 1 THEN "differential" ELSE "individual"
    <2>1. CASE diff = 1
      <3>1. ~Leaves(d, 1) /\ ~Leaves(d, 2) /\ ~Leaves(d, 3)
        BY <2>1 DEF Leaves
      <3>2. QED
        BY <2>1, <3>1 DEF ModeOf
    <2>2. CASE diff = 0
      BY <2>2 DEF ModeOf
    <2>3. QED
      BY <2>1, <2>2
  <1> DEFINE c == IF diff = 1
                  THEN << Map3(LAMBDA i : Base(d, i)), Map3(LAMBDA i : Base(d, i) + Delta(d, i)) >>
                  ELSE << Map3(LAMBDA i : Field(d, 36 - 8 * i, 4)), Map3(LAMBDA i : Field(d, 32 - 8 * i, 4)) >>
             tcw == <<Field(d, 5, 3), Field(d, 2, 3)>>
  <1>2. DecodeEtc1(d, hi) = [k \in 0..15 |->
            LET h == HalfOf(k, d[0]) + 1
            IN  Modified(BaseColour(c[h], diff), g_table[tcw[h] + 1][IndexAt(hi, k) + 1])]
    BY DEF DecodeEtc1
  <1>3. \A i \in 1..3 : c[1][i] = a[2][i] /\ c[2][i] = a[1][i]
    <2>1. CASE diff = 1
      BY <2>1 DEF Map3
    <2>2. CASE diff = 0
      BY <2>2 DEF Map3
    <2> HIDE DEF c
    <2>3. QED
      BY <2>1, <2>2
  <1>4. tcw[1] = tidx[2] /\ tcw[2] = tidx[1]
    OBVIOUS
  <1> HIDE DEF c, tcw
  <1>5. BaseColour(c[1], diff) = BaseColour(a[2], diff) /\ BaseColour(c[2], diff) = BaseColour(a[1], diff)
    BY <1>3 DEF BaseColour, Map3
  <1>6. \A k \in 0..15 : HalfOf(k, flip) = 0 \/ HalfOf(k, flip) = 1
    BY DEF HalfOf
  <1>7. \A k \in 0..15 :
            LET h == HalfOf(k, d[0]) + 1
                g == 2 - HalfOf(k, flip)
            IN  Modified(BaseColour(c[h], diff), g_table[tcw[h] + 1][IndexAt(hi, k) + 1])
                  = Modified(BaseColour(a[g], diff), g_table[tidx[g] + 1][idx[k] + 1])
    BY <1>4, <1>5, <1>6
  <1>8. QED
    BY <1>1, <1>2, <1>7 DEF Etc1Pixels

LEMMA ColourMeaning ==
    ASSUME NEW lo, NEW hi
    PROVE  LET d == Bswap(lo)
               i == Bswap(hi)
               r == Meaning(ColourFile(lo, hi))
           IN  /\ r.mode = ModeOf(d)
               /\ ModeOf(d) = "T" => r.pixels = DecodeT(d, i)
               /\ ModeOf(d) = "H" => r.pixels = DecodeH(d, i)
               /\ ModeOf(d) = "planar" => r.pixels = DecodePlanar(d, i)
               /\ ModeOf(d) \in {"differential", "individual"} => r.pixels = DecodeEtc1(d, i)
  <1>1. Meaning(ColourFile(lo, hi)) = DecodeRGBPart(lo, hi)
    BY DEF Meaning, ColourFile
  <1>2. QED
    BY <1>1 DEF DecodeRGBPart

\* The byte of a channel, taken apart as the decoder does.
LEMMA DifferenceByte ==
    ASSUME NEW x \in 0..31, NEW y \in 0..31, x - y \in -4..3
    PROVE  LET v == 8 * y + ((x - y) % 8)
           IN  v \in 0..255 /\ v \div 8 = y /\ y + (IF v % 8 > 3 THEN (v % 8) - 8 ELSE v % 8) = x
  OBVIOUS

LEMMA Etc1Read ==
    ASSUME EncodeEtc1
    PROVE  SameBlock(made', Meaning(file'))
  <1>1. PICK avg \in [1..2 -> Colours], diff \in 0..1, flip \in 0..1, tidx \in [1..2 -> Modifiers], idx \in IndexSets :
            LET a == ProcessAverages(avg, diff)
                w == EncodeSelectors(EncodeAverages(a, diff, flip), tidx, idx)
            IN  /\ made' = [ mode   |-> IF diff = 1 THEN "differential" ELSE "individual",
                             pixels |-> [k \in 0..15 |->
                                 LET h == 2 - HalfOf(k, flip)
                                 IN  Modified(BaseColour(a[h], diff), g_table[tidx[h] + 1][idx[k] + 1])] ]
                /\ file' = ColourFile(w[1], w[2])
    BY DEF EncodeEtc1
  <1>block. tidx[1] \in 0..7 /\ tidx[2] \in 0..7 /\ idx \in [0..15 -> 0..3]
    <2>1. Modifiers \subseteq 0..7 /\ IndexSets \subseteq [0..15 -> 0..3]
      BY InputsAssumption
    <2>2. tidx[1] \in Modifiers /\ tidx[2] \in Modifiers
      OBVIOUS
    <2>3. idx \in [0..15 -> 0..3]
      BY <2>1, Zenon
    <2>4. tidx[1] \in 0..7 /\ tidx[2] \in 0..7
      BY <2>1, <2>2
    <2>5. QED
      BY <2>3, <2>4
  <1> DEFINE a == ProcessAverages(avg, diff)
             w == EncodeSelectors(EncodeAverages(a, diff, flip), tidx, idx)
             b == [i \in 1..3 |-> IF diff = 1 THEN 8 * a[2][i] + ((a[1][i] - a[2][i]) % 8)
                                              ELSE a[1][i] + 16 * a[2][i]]
             hi == Or({<<idx[k] % 2, k>> : k \in 0..15} \union {<<idx[k] \div 2, 16 + k>> : k \in 0..15})
             d == Bswap(w[1])
  <1>2. /\ w[1] = Or(Etc1Parts(b, diff, flip, tidx))
        /\ w[2] = Bswap(hi)
    <2>1. EncodeAverages(a, diff, flip) \union {<<tidx[1], 26>>, <<tidx[2], 29>>} = Etc1Parts(b, diff, flip, tidx)
      <3> HIDE DEF a
      <3> QED BY DEF EncodeAverages, Etc1Parts
    <2>2. QED
      BY <2>1 DEF EncodeSelectors
  <1>3. \A i \in 1..3 : /\ a[1][i] \in 0..31 /\ a[2][i] \in 0..31
                        /\ diff = 1 => a[1][i] - a[2][i] \in -4..3
                        /\ diff = 0 => a[1][i] \in 0..15 /\ a[2][i] \in 0..15
    BY AveragesFit
  <1> HIDE DEF a
  <1>4. \A i \in 1..3 : b[i] = IF diff = 1 THEN 8 * a[2][i] + ((a[1][i] - a[2][i]) % 8) ELSE a[1][i] + 16 * a[2][i]
    OBVIOUS
  <1> HIDE DEF b
  <1>5. \A i \in 1..3 : b[i] \in 0..255
    <2> TAKE i \in 1..3
    <2>1. PICK x \in 0..31, y \in 0..31 : x = a[1][i] /\ y = a[2][i]
      BY <1>3
    <2>2. diff = 0 => x \in 0..15 /\ y \in 0..15
      BY <1>3, <2>1
    <2>3. b[i] = IF diff = 1 THEN 8 * y + ((x - y) % 8) ELSE x + 16 * y
      BY <1>4, <2>1
    <2>4. QED
      BY <2>2, <2>3
  <1>7. /\ d[0] = flip /\ d[1] = diff /\ Field(d, 2, 3) = tidx[1] /\ Field(d, 5, 3) = tidx[2]
        /\ \A i \in 1..3 :
             /\ Field(d, 35 - 8 * i, 5) = b[i] \div 8 /\ Field(d, 32 - 8 * i, 3) = b[i] % 8
             /\ Field(d, 36 - 8 * i, 4) = b[i] \div 16 /\ Field(d, 32 - 8 * i, 4) = b[i] % 16
    <2>1. b[1] \in 0..255 /\ b[2] \in 0..255 /\ b[3] \in 0..255
      BY <1>5
    <2> HIDE DEF w
    <2>2. QED
      BY <1>2, <1>block, <2>1, Etc1Fields
  <1>8. Bswap(w[2]) = hi /\ \A k \in 0..15 : IndexAt(Bswap(w[2]), k) = idx[k]
    <2>1. Bswap(w[2]) = hi
      <3> HIDE DEF hi, w
      <3>1. hi \in Word
        BY OrIsWord DEF hi
      <3>2. QED
        BY <1>2, <3>1, BswapTwice
    <2> HIDE DEF w
    <2>2. QED
      BY <1>block, <2>1, Etc1Indices
  <1> HIDE DEF w, d, hi
  <1>9. diff = 1 => \A i \in 1..3 : /\ Base(d, i) = a[2][i] /\ Base(d, i) + Delta(d, i) = a[1][i]
                                    /\ a[1][i] \in 0..31
    <2> SUFFICES ASSUME diff = 1, NEW i \in 1..3
                 PROVE  Base(d, i) = a[2][i] /\ Base(d, i) + Delta(d, i) = a[1][i] /\ a[1][i] \in 0..31
      OBVIOUS
    <2>1. /\ a[1][i] \in 0..31 /\ a[2][i] \in 0..31 /\ a[1][i] - a[2][i] \in -4..3
          /\ b[i] = 8 * a[2][i] + ((a[1][i] - a[2][i]) % 8)
      BY <1>3, <1>4
    <2>2. b[i] \div 8 = a[2][i] /\ a[2][i] + (IF b[i] % 8 > 3 THEN (b[i] % 8) - 8 ELSE b[i] % 8) = a[1][i]
      BY <2>1, DifferenceByte
    <2>3. QED
      BY <1>7, <2>1, <2>2 DEF Base, Delta
  <1>10. diff = 0 => \A i \in 1..3 : Field(d, 36 - 8 * i, 4) = a[2][i] /\ Field(d, 32 - 8 * i, 4) = a[1][i]
    <2> SUFFICES ASSUME diff = 0, NEW i \in 1..3
                 PROVE  Field(d, 36 - 8 * i, 4) = a[2][i] /\ Field(d, 32 - 8 * i, 4) = a[1][i]
      OBVIOUS
    <2>1. a[1][i] \in 0..15 /\ a[2][i] \in 0..15 /\ b[i] = a[1][i] + 16 * a[2][i]
      BY <1>3, <1>4
    <2>2. b[i] \div 16 = a[2][i] /\ b[i] % 16 = a[1][i]
      BY <2>1
    <2>3. QED
      BY <1>7, <2>2
  <1>11. /\ ModeOf(d) = IF diff = 1 THEN "differential" ELSE "individual"
         /\ DecodeEtc1(d, Bswap(w[2])) = Etc1Pixels(a, diff, flip, tidx, idx)
    <2>1. Etc1Header(d, a, diff, flip, tidx) /\ IndicesAre(Bswap(w[2]), idx)
      BY <1>7, <1>8, <1>9, <1>10 DEF Etc1Header, IndicesAre
    <2>2. QED
      BY <2>1, Etc1Decoded
  <1>12. file' = ColourFile(w[1], w[2]) /\ made'.mode = ModeOf(d) /\ made'.pixels = DecodeEtc1(d, Bswap(w[2]))
    BY <1>1, <1>11 DEF w, a, Etc1Pixels
  <1>13. ModeOf(d) \in {"differential", "individual"}
    BY <1>11
  <1>14. QED
    BY <1>12, <1>13, ColourMeaning DEF SameBlock, d

\* A part that is 0 adds nothing.
LEMMA ZeroPart ==
    ASSUME NEW parts, NEW s \in Nat
    PROVE  Or(parts \union {<<0, s>>}) = Or(parts)
  <1>1. \A k \in 0..7 : BitOf(0, k) # 1
    <2> TAKE k \in 0..7
    <2>1. CASE k = 0
      BY <2>1 DEF BitOf
    <2>2. CASE k \in 1..8
      <3> DEFINE K == 2^k
      <3>1. K = PowersOfTwo[k]
        BY <2>2, Powers, Zenon
      <3>2. PowersOfTwo[k] \in Nat \ {0}
        BY <2>2 DEF PowersOfTwo
      <3> HIDE DEF K
      <3>3. (0 \div K) % 2 # 1
        BY <3>1, <3>2
      <3>4. QED
        BY <3>3, Zenon DEF BitOf, K
    <2>3. QED
      BY <2>1, <2>2
  <1> DEFINE Sets(i, p) == i \in p[2]..(p[2] + 7) /\ BitOf(p[1], i - p[2]) = 1
  <1>2. \A i \in 0..31 : ~Sets(i, <<0, s>>)
    BY <1>1
  <1> HIDE DEF Sets
  <1>3. \A i \in 0..31 : (\E p \in parts \union {<<0, s>>} : Sets(i, p)) <=> (\E p \in parts : Sets(i, p))
    BY <1>2
  <1>4. QED
    BY <1>3 DEF Or, OrN, Sets

LEMMA SolidRead ==
    ASSUME CheckSolid
    PROVE  SameBlock(made', Meaning(file'))
  <1>1. PICK c \in Colours :
            /\ made' = [ mode   |-> "differential",
                         pixels |-> [k \in 0..15 |-> Modified(BaseColour(Map3(LAMBDA i : c[i] \div 8), 1), 2)] ]
            /\ file' = ColourFile(Or({<<8 * (c[i] \div 8), 8 * (i - 1)>> : i \in 1..3} \union {<<2, 24>>}), Or({}))
    BY DEF CheckSolid
  <1> DEFINE e == Map3(LAMBDA i : c[i] \div 8)
             a == <<e, e>>
             b == [i \in 1..3 |-> 8 * (c[i] \div 8)]
             zeros == [k \in 0..15 |-> 0]
             lo == Or({<<8 * (c[i] \div 8), 8 * (i - 1)>> : i \in 1..3} \union {<<2, 24>>})
             d == Bswap(lo)
  <1>2. c[1] \in 0..255 /\ c[2] \in 0..255 /\ c[3] \in 0..255
    <2>1. c \in [1..3 -> 0..255]
      BY InputsAssumption, Zenon
    <2>2. QED
      BY <2>1
  <1>3. lo = Or(Etc1Parts(b, 1, 0, <<0, 0>>))
    <2> DEFINE S == {<<8 * (c[i] \div 8), 8 * (i - 1)>> : i \in 1..3} \union {<<2, 24>>}
    <2>1. S = {<<b[1], 0>>, <<b[2], 8>>, <<b[3], 16>>, <<2, 24>>}
      OBVIOUS
    <2>2. Etc1Parts(b, 1, 0, <<0, 0>>) = {<<b[1], 0>>, <<b[2], 8>>, <<b[3], 16>>, <<2, 24>>, <<0, 26>>, <<0, 29>>}
      BY DEF Etc1Parts
    <2> HIDE DEF b
    <2>3. Etc1Parts(b, 1, 0, <<0, 0>>) = (S \union {<<0, 26>>}) \union {<<0, 29>>}
      BY <2>1, <2>2
    <2> HIDE DEF S
    <2>4. Or((S \union {<<0, 26>>}) \union {<<0, 29>>}) = Or(S)
      BY ZeroPart
    <2>5. QED
      BY <2>3, <2>4 DEF S
  <1>4. b[1] \in 0..255 /\ b[2] \in 0..255 /\ b[3] \in 0..255
    BY <1>2
  <1>5. \A i \in 1..3 : b[i] \div 8 = e[i] /\ b[i] % 8 = 0 /\ e[i] \in 0..31
    BY <1>2 DEF Map3
  <1> HIDE DEF b, e, lo
  <1>6. Etc1Header(d, a, 1, 0, <<0, 0>>)
    <2>1. /\ d[0] = 0 /\ d[1] = 1 /\ Field(d, 2, 3) = 0 /\ Field(d, 5, 3) = 0
          /\ \A i \in 1..3 : Field(d, 35 - 8 * i, 5) = b[i] \div 8 /\ Field(d, 32 - 8 * i, 3) = b[i] % 8
      <3> DEFINE z == <<0, 0>>
      <3>1. z[1] = 0 /\ z[2] = 0 /\ lo = Or(Etc1Parts(b, 1, 0, z))
        BY <1>3
      <3> HIDE DEF z
      <3>2. QED
        BY <1>4, <3>1, Etc1Fields
    <2>2. \A i \in 1..3 : Base(d, i) = e[i] /\ Base(d, i) + Delta(d, i) = e[i]
      BY <1>5, <2>1 DEF Base, Delta
    <2>3. a[1] = e /\ a[2] = e
      OBVIOUS
    <2> HIDE DEF a, d
    <2>4. QED
      BY <1>5, <2>1, <2>2, <2>3 DEF Etc1Header
  <1>7. IndicesAre(Bswap(Or({})), zeros)
    <2>1. \A j \in 0..31 : Or({})[j] = 0
      BY DEF Or, OrN
    <2>2. \A j \in 0..31 : 8 * (3 - j \div 8) + (j % 8) \in 0..31
      OBVIOUS
    <2>3. \A j \in 0..31 : Bswap(Or({}))[j] = 0
      BY <2>1, <2>2 DEF Bswap
    <2>4. QED
      BY <2>3 DEF IndicesAre, IndexAt
  <1>8. /\ ModeOf(d) = "differential"
        /\ DecodeEtc1(d, Bswap(Or({}))) = Etc1Pixels(a, 1, 0, <<0, 0>>, zeros)
    BY <1>6, <1>7, Etc1Decoded
  <1>9. Etc1Pixels(a, 1, 0, <<0, 0>>, zeros) = [k \in 0..15 |-> Modified(BaseColour(e, 1), 2)]
    <2>1. \A k \in 0..15 : 2 - HalfOf(k, 0) \in 1..2
      BY DEF HalfOf
    <2>2. \A h \in 1..2 : a[h] = e /\ <<0, 0>>[h] + 1 = 1
      OBVIOUS
    <2>3. g_table[1][1] = 2
      BY DEF g_table
    <2>4. \A k \in 0..15 : LET h == 2 - HalfOf(k, 0)
                           IN  Modified(BaseColour(a[h], 1), g_table[<<0, 0>>[h] + 1][zeros[k] + 1]) = Modified(BaseColour(e, 1), 2)
      <3> HIDE DEF a
      <3> QED BY <2>1, <2>2, <2>3
    <2>5. QED
      BY <2>4 DEF Etc1Pixels
  <1>10. file' = ColourFile(lo, Or({})) /\ made'.mode = ModeOf(d) /\ made'.pixels = DecodeEtc1(d, Bswap(Or({})))
    BY <1>1, <1>8, <1>9 DEF lo, e
  <1>11. QED
    BY <1>8, <1>10, ColourMeaning DEF SameBlock
-----------------------------------------------------------------------------
(* Planar words                                                            *)

LEMMA PlanarHiFields ==
    ASSUME NEW ch, Corner(ch), NEW cv, Corner(cv)
    PROVE  LET hi == PlanarHi(ch, cv)
           IN  /\ hi \in Word
               /\ Field(hi, 0, 6) = cv[3] /\ Field(hi, 6, 7) = cv[2] /\ Field(hi, 13, 6) = cv[1]
               /\ Field(hi, 19, 6) = ch[3] /\ Field(hi, 25, 7) = ch[2]
  <1> DEFINE L == {<<cv[3], 0, 6>>, <<cv[2], 6, 7>>, <<cv[1], 13, 6>>, <<ch[3], 19, 6>>, <<ch[2], 25, 7>>}
             w == OrN(32, PartsOf(L))
  <1>1. Layout(32, L)
    <2>1. \A x \in L : /\ x[1] \in Nat /\ x[2] \in Nat /\ x[3] \in 1..8
                       /\ x[1] < PowersOfTwo[x[3]] /\ x[2] + x[3] <= 32
      BY DEF Corner, PowersOfTwo
    <2>2. \A x, y \in L : x = y \/ x[2] + x[3] <= y[2] \/ y[2] + y[3] <= x[2]
      OBVIOUS
    <2>3. QED
      BY <2>1, <2>2 DEF Layout
  <1>2. PlanarHi(ch, cv) = w
    BY DEF PlanarHi, PartsOf, Or
  <1>3. w \in Word
    BY OrIsWord DEF Or
  <1>4. /\ <<cv[3], 0, 6>> \in L /\ <<cv[2], 6, 7>> \in L /\ <<cv[1], 13, 6>> \in L
        /\ <<ch[3], 19, 6>> \in L /\ <<ch[2], 25, 7>> \in L
    OBVIOUS
  <1> HIDE DEF L
  <1>5. \A x \in L : Field(w, x[2], x[3]) = x[1]
    BY <1>1, FieldIsRead
  <1> HIDE DEF w
  <1>6. QED
    BY <1>2, <1>3, <1>4, <1>5

LEMMA PlanarDecoded ==
    ASSUME NEW co, Corner(co), NEW ch, Corner(ch), NEW cv, Corner(cv)
    PROVE  DecodePlanar(PlanarLo(co, ch), PlanarHi(ch, cv))
             = [k \in 0..15 |-> PlanarPixel(Expand(co), Expand(ch), Expand(cv), k)]
  <1> DEFINE d == PlanarLo(co, ch)
             hi == PlanarHi(ch, cv)
             v == <<Field(hi, 13, 6), Field(hi, 6, 7), Field(hi, 0, 6)>>
             h == <<d[0] + 2 * Field(d, 2, 5), Field(hi, 25, 7), Field(hi, 19, 6)>>
             o == << Field(d, 25, 6), Field(d, 17, 6) + 64 * d[24],
                     Field(d, 7, 3) + 8 * Field(d, 11, 2) + 32 * d[16] >>
  <1>1. DecodePlanar(d, hi) = [k \in 0..15 |-> PlanarPixel(Expand(o), Expand(h), Expand(v), k)]
    BY DEF DecodePlanar
  <1>2. /\ Field(hi, 0, 6) = cv[3] /\ Field(hi, 6, 7) = cv[2] /\ Field(hi, 13, 6) = cv[1]
        /\ Field(hi, 19, 6) = ch[3] /\ Field(hi, 25, 7) = ch[2]
    BY PlanarHiFields
  <1>3. /\ Field(d, 2, 5) = ch[1] \div 2 /\ Field(d, 25, 6) = co[1] /\ Field(d, 17, 6) = co[2] % 64
        /\ Field(d, 7, 3) = co[3] % 8 /\ Field(d, 11, 2) = (co[3] \div 8) % 4
        /\ d[0] = ch[1] % 2 /\ d[24] = co[2] \div 64 /\ d[16] = co[3] \div 32
    <2> DEFINE L == PlanarLayout(co, ch)
    <2>1. /\ \A x \in L : Field(d, x[2], x[3]) = x[1]
          /\ \A x \in L : \A j \in 0..(x[3] - 1) : d[x[2] + j] = BitOf(x[1], j)
      BY PlanarFields
    <2>2. /\ <<ch[1] % 2, 0, 1>> \in L /\ <<ch[1] \div 2, 2, 5>> \in L /\ <<co[3] % 8, 7, 3>> \in L
          /\ <<(co[3] \div 8) % 4, 11, 2>> \in L /\ <<co[3] \div 32, 16, 1>> \in L
          /\ <<co[2] % 64, 17, 6>> \in L /\ <<co[2] \div 64, 24, 1>> \in L /\ <<co[1], 25, 6>> \in L
      BY DEF PlanarLayout
    <2> HIDE DEF L, d
    <2>3. /\ Field(d, 2, 5) = ch[1] \div 2 /\ Field(d, 25, 6) = co[1] /\ Field(d, 17, 6) = co[2] % 64
          /\ Field(d, 7, 3) = co[3] % 8 /\ Field(d, 11, 2) = (co[3] \div 8) % 4
      BY <2>1, <2>2
    <2>4. d[0 + 0] = BitOf(ch[1] % 2, 0) /\ d[24 + 0] = BitOf(co[2] \div 64, 0) /\ d[16 + 0] = BitOf(co[3] \div 32, 0)
      BY <2>1, <2>2
    <2>5. ch[1] % 2 \in 0..1 /\ co[2] \div 64 \in 0..1 /\ co[3] \div 32 \in 0..1
      BY DEF Corner
    <2>6. \A x \in 0..1 : BitOf(x, 0) = x
      BY DEF BitOf
    <2>7. QED
      BY <2>3, <2>4, <2>5, <2>6
  <1> HIDE DEF d, hi
  <1>4. v[1] = cv[1] /\ v[2] = cv[2] /\ v[3] = cv[3]
    BY <1>2
  <1>5. h[1] = ch[1] /\ h[2] = ch[2] /\ h[3] = ch[3]
    BY <1>2, <1>3 DEF Corner
  <1>6. o[1] = co[1] /\ o[2] = co[2] /\ o[3] = co[3]
    BY <1>3 DEF Corner
  <1> HIDE DEF v, h, o
  <1>7. Expand(o) = Expand(co) /\ Expand(h) = Expand(ch) /\ Expand(v) = Expand(cv)
    BY <1>4, <1>5, <1>6 DEF Expand
  <1>8. QED
    BY <1>1, <1>7 DEF d, hi

LEMMA PlanarRead ==
    ASSUME EncodePlanar
    PROVE  SameBlock(made', Meaning(file'))
  <1>1. PICK o \in Corners, h \in Corners, v \in Corners :
            /\ made' = [mode |-> "planar", pixels |-> [k \in 0..15 |-> PlanarPixel(Expand(o), Expand(h), Expand(v), k)]]
            /\ file' = ColourFile(Bswap(PlanarLo(o, h)), Bswap(PlanarHi(h, v)))
    BY DEF EncodePlanar
  <1>2. Corner(o) /\ Corner(h) /\ Corner(v)
    <2>1. \A c \in Corners : Corner(c)
      BY InputsAssumption, Zenon DEF Corner
    <2>2. QED
      BY <2>1, Zenon
  <1>3. PlanarLo(o, h) \in Word /\ PlanarHi(h, v) \in Word
    BY <1>2, PlanarFields, PlanarHiFields
  <1>4. Bswap(Bswap(PlanarLo(o, h))) = PlanarLo(o, h) /\ Bswap(Bswap(PlanarHi(h, v))) = PlanarHi(h, v)
    BY <1>3, BswapTwice
  <1>5. ModeOf(PlanarLo(o, h)) = "planar"
    BY <1>2, PlanarMode
  <1>6. made'.mode = "planar" /\ made'.pixels = DecodePlanar(PlanarLo(o, h), PlanarHi(h, v))
    BY <1>1, <1>2, PlanarDecoded
  <1>7. QED
    BY <1>1, <1>4, <1>5, <1>6, ColourMeaning DEF SameBlock
-----------------------------------------------------------------------------
(* T and H words                                                           *)

LEMMA FieldOfBits ==
    ASSUME NEW d, NEW lo \in Nat, NEW m \in 1..8, NEW v \in Nat, v < PowersOfTwo[m],
           \A j \in 0..(m - 1) : d[lo + j] = BitOf(v, j)
    PROVE  Field(d, lo, m) = v
  <1> DEFINE b(j) == IF j < m THEN d[lo + j] ELSE 0
  <1>1. v < 2^m
    BY Powers
  <1>2. \A j \in 0..7 : b(j) = BitOf(v, j)
    <2> TAKE j \in 0..7
    <2>1. CASE j < m
      BY <2>1
    <2>2. CASE ~(j < m)
      <3>1. j \in m..7
        BY <2>2
      <3>2. QED
        BY <1>1, <2>2, <3>1, NoHighBits
    <2>3. QED
      BY <2>1, <2>2
  <1>3. v \in 0..255
    BY DEF PowersOfTwo
  <1>4. Field(d, lo, m) = b(0) + 2 * b(1) + 4 * b(2) + 8 * b(3) + 16 * b(4) + 32 * b(5) + 64 * b(6) + 128 * b(7)
    BY DEF Field
  <1> HIDE DEF b
  <1>5. QED
    BY <1>2, <1>3, <1>4, SumOfBits

LEMMA FourBits ==
    ASSUME NEW d, NEW lo \in Nat, NEW v \in 0..15,
           \A j \in 0..3 : d[lo + j] = BitOf(v, j)
    PROVE  Field(d, lo, 4) = v
  <1>1. 4 \in 1..8 /\ v \in Nat /\ v < PowersOfTwo[4]
    BY DEF PowersOfTwo
  <1>2. \A j \in 0..(4 - 1) : d[lo + j] = BitOf(v, j)
    OBVIOUS
  <1>3. QED
    BY <1>1, <1>2, FieldOfBits, Zenon

Nibbles(c) == \A h \in 1..2 : \A i \in 1..3 : c[h][i] \in 0..15

SameColours(c, e) == \A h \in 1..2 : \A i \in 1..3 : e[h][i] = c[h][i]

\* The colours and the distance that DecodeT takes from a word.
TColours(d) ==
    << <<4 * Field(d, 27, 2) + Field(d, 24, 2), Field(d, 20, 4), Field(d, 16, 4)>>,
       <<Field(d, 12, 4), Field(d, 8, 4), Field(d, 4, 4)>> >>
TCodeword(d) == 2 * Field(d, 2, 2) + d[0]

LEMMA TFields ==
    ASSUME NEW c, Nibbles(c), NEW d \in 0..7
    PROVE  /\ PackT(c, d) \in Word
           /\ SameColours(c, TColours(stuff59bits(PackT(c, d))))
           /\ TCodeword(stuff59bits(PackT(c, d))) = d
  <1> DEFINE L == { <<c[1][1], 23, 4>>, <<c[1][2], 19, 4>>, <<c[1][3], 15, 4>>,
                    <<c[2][1], 11, 4>>, <<c[2][2], 7, 4>>, <<c[2][3], 3, 4>>, <<d, 0, 3>> }
             w == OrN(32, PartsOf(L))
             e == stuff59bits(w)
  <1>block. /\ c[1][1] \in 0..15 /\ c[1][2] \in 0..15 /\ c[1][3] \in 0..15
        /\ c[2][1] \in 0..15 /\ c[2][2] \in 0..15 /\ c[2][3] \in 0..15
    BY DEF Nibbles
  <1>1. Layout(32, L)
    <2>1. \A x \in L : /\ x[1] \in Nat /\ x[2] \in Nat /\ x[3] \in 1..8
                       /\ x[1] < PowersOfTwo[x[3]] /\ x[2] + x[3] <= 32
      BY <1>block DEF PowersOfTwo
    <2>2. \A x, y \in L : x = y \/ x[2] + x[3] <= y[2] \/ y[2] + y[3] <= x[2]
      OBVIOUS
    <2>3. QED
      BY <2>1, <2>2 DEF Layout
  <1>2. PackT(c, d) = w
    BY DEF PackT, PartsOf, Or
  <1>3. w \in Word
    BY OrIsWord DEF Or
  <1>4. /\ \A j \in 0..3 : w[23 + j] = BitOf(c[1][1], j) /\ w[19 + j] = BitOf(c[1][2], j) /\ w[15 + j] = BitOf(c[1][3], j)
        /\ \A j \in 0..3 : w[11 + j] = BitOf(c[2][1], j) /\ w[7 + j] = BitOf(c[2][2], j) /\ w[3 + j] = BitOf(c[2][3], j)
        /\ \A j \in 0..2 : w[0 + j] = BitOf(d, j)
    <2>1. /\ <<c[1][1], 23, 4>> \in L /\ <<c[1][2], 19, 4>> \in L /\ <<c[1][3], 15, 4>> \in L
          /\ <<c[2][1], 11, 4>> \in L /\ <<c[2][2], 7, 4>> \in L /\ <<c[2][3], 3, 4>> \in L /\ <<d, 0, 3>> \in L
      OBVIOUS
    <2> HIDE DEF L
    <2>2. \A x \in L : \A j \in 0..(x[3] - 1) : w[x[2] + j] = BitOf(x[1], j)
      BY <1>1, BitsOfField
    <2> HIDE DEF w
    <2>3. QED
      BY <2>1, <2>2
  <1> HIDE DEF L, w
  <1>5. /\ \A j \in 0..3 : e[20 + j] = w[19 + j] /\ e[16 + j] = w[15 + j]
        /\ \A j \in 0..3 : e[12 + j] = w[11 + j] /\ e[8 + j] = w[7 + j] /\ e[4 + j] = w[3 + j]
        /\ e[24] = w[23 + 0] /\ e[25] = w[23 + 1] /\ e[27] = w[23 + 2] /\ e[28] = w[23 + 3]
        /\ e[0] = w[0 + 0] /\ e[2] = w[0 + 1] /\ e[3] = w[0 + 2]
    BY DEF stuff59bits
  <1> HIDE DEF e
  <1>6. /\ Field(e, 20, 4) = c[1][2] /\ Field(e, 16, 4) = c[1][3]
        /\ Field(e, 12, 4) = c[2][1] /\ Field(e, 8, 4) = c[2][2] /\ Field(e, 4, 4) = c[2][3]
    <2>1. 20 \in Nat /\ 16 \in Nat /\ 12 \in Nat /\ 8 \in Nat /\ 4 \in Nat
      OBVIOUS
    <2>2. /\ \A j \in 0..3 : e[20 + j] = BitOf(c[1][2], j)
          /\ \A j \in 0..3 : e[16 + j] = BitOf(c[1][3], j)
          /\ \A j \in 0..3 : e[12 + j] = BitOf(c[2][1], j)
          /\ \A j \in 0..3 : e[8 + j] = BitOf(c[2][2], j)
          /\ \A j \in 0..3 : e[4 + j] = BitOf(c[2][3], j)
      BY <1>4, <1>5
    <2>3. Field(e, 20, 4) = c[1][2]
      BY <1>block, <2>1, <2>2, FourBits, Zenon
    <2>4. Field(e, 16, 4) = c[1][3]
      BY <1>block, <2>1, <2>2, FourBits, Zenon
    <2>5. Field(e, 12, 4) = c[2][1]
      BY <1>block, <2>1, <2>2, FourBits, Zenon
    <2>6. Field(e, 8, 4) = c[2][2]
      BY <1>block, <2>1, <2>2, FourBits, Zenon
    <2>7. Field(e, 4, 4) = c[2][3]
      <3>1. PICK lo \in Nat : lo = 4
        OBVIOUS
      <3>2. \A j \in 0..3 : e[lo + j] = BitOf(c[2][3], j)
        BY <2>2, <3>1
      <3>3. Field(e, lo, 4) = c[2][3]
        BY <1>block, <3>2, FourBits, Zenon
      <3>4. QED
        BY <3>1, <3>3
    <2>8. QED
      BY <2>3, <2>4, <2>5, <2>6, <2>7
  <1>7. 4 * Field(e, 27, 2) + Field(e, 24, 2) = c[1][1]
    <2>1. /\ e[24] = BitOf(c[1][1], 0) /\ e[25] = BitOf(c[1][1], 1)
          /\ e[27] = BitOf(c[1][1], 2) /\ e[28] = BitOf(c[1][1], 3)
      BY <1>4, <1>5
    <2>2. PICK v \in 0..15 : v = c[1][1]
      BY <1>block
    <2>3. v = BitOf(v, 0) + 2 * BitOf(v, 1) + 4 * BitOf(v, 2) + 8 * BitOf(v, 3)
      BY DEF BitOf
    <2>4. BitOf(v, 0) \in Int /\ BitOf(v, 1) \in Int /\ BitOf(v, 2) \in Int /\ BitOf(v, 3) \in Int
      BY BitOfIsBit DEF Bits
    <2>5. QED
      BY <2>1, <2>2, <2>3, <2>4 DEF Field
  <1>8. 2 * Field(e, 2, 2) + e[0] = d
    <2>1. e[0] = BitOf(d, 0) /\ e[2] = BitOf(d, 1) /\ e[3] = BitOf(d, 2)
      BY <1>4, <1>5
    <2>2. d = BitOf(d, 0) + 2 * BitOf(d, 1) + 4 * BitOf(d, 2)
      BY DEF BitOf
    <2>3. BitOf(d, 0) \in Int /\ BitOf(d, 1) \in Int /\ BitOf(d, 2) \in Int
      BY BitOfIsBit DEF Bits
    <2>4. QED
      BY <2>1, <2>2, <2>3 DEF Field
  <1>9. QED
    BY <1>2, <1>3, <1>6, <1>7, <1>8 DEF SameColours, TColours, TCodeword, e

HColours(d) ==
    << <<Field(d, 27, 4), d[20] + 2 * Field(d, 24, 3), Field(d, 15, 3) + 8 * d[19]>>,
       <<Field(d, 11, 4), Field(d, 7, 4), Field(d, 3, 4)>> >>

LEMMA HFields ==
    ASSUME NEW c, Nibbles(c), NEW d \in 0..7
    PROVE  /\ PackH(c, d) \in Word
           /\ SameColours(c, HColours(stuff58bits(PackH(c, d))))
           /\ 4 * stuff58bits(PackH(c, d))[2] + 2 * stuff58bits(PackH(c, d))[0] = 2 * (d \div 2)
  <1> DEFINE L == { <<c[1][1], 22, 4>>, <<c[1][2], 18, 4>>, <<c[1][3], 14, 4>>,
                    <<c[2][1], 10, 4>>, <<c[2][2], 6, 4>>, <<c[2][3], 2, 4>>, <<d \div 2, 0, 2>> }
             w == OrN(32, PartsOf(L))
             e == stuff58bits(w)
  <1>block. /\ c[1][1] \in 0..15 /\ c[1][2] \in 0..15 /\ c[1][3] \in 0..15
        /\ c[2][1] \in 0..15 /\ c[2][2] \in 0..15 /\ c[2][3] \in 0..15
        /\ d \div 2 \in 0..3
    BY DEF Nibbles
  <1>1. Layout(32, L)
    <2>1. \A x \in L : /\ x[1] \in Nat /\ x[2] \in Nat /\ x[3] \in 1..8
                       /\ x[1] < PowersOfTwo[x[3]] /\ x[2] + x[3] <= 32
      BY <1>block DEF PowersOfTwo
    <2>2. \A x, y \in L : x = y \/ x[2] + x[3] <= y[2] \/ y[2] + y[3] <= x[2]
      OBVIOUS
    <2>3. QED
      BY <2>1, <2>2 DEF Layout
  <1>2. PackH(c, d) = w
    <2> DEFINE h == d \div 2
    <2>1. PackH(c, d) = Or({<<c[1][1], 22>>, <<c[1][2], 18>>, <<c[1][3], 14>>,
                            <<c[2][1], 10>>, <<c[2][2], 6>>, <<c[2][3], 2>>, <<h, 0>>})
      BY DEF PackH
    <2> HIDE DEF h
    <2>2. PartsOf(L) = {<<c[1][1], 22>>, <<c[1][2], 18>>, <<c[1][3], 14>>,
                        <<c[2][1], 10>>, <<c[2][2], 6>>, <<c[2][3], 2>>, <<h, 0>>}
      <3>1. L = { <<c[1][1], 22, 4>>, <<c[1][2], 18, 4>>, <<c[1][3], 14, 4>>,
                  <<c[2][1], 10, 4>>, <<c[2][2], 6, 4>>, <<c[2][3], 2, 4>>, <<h, 0, 2>> }
        BY DEF h
      <3> HIDE DEF L
      <3>2. QED
        BY <3>1 DEF PartsOf
    <2>3. QED
      BY <2>1, <2>2 DEF Or
  <1>3. w \in Word
    BY OrIsWord DEF Or
  <1>4. /\ \A j \in 0..3 : w[22 + j] = BitOf(c[1][1], j) /\ w[18 + j] = BitOf(c[1][2], j) /\ w[14 + j] = BitOf(c[1][3], j)
        /\ \A j \in 0..3 : w[10 + j] = BitOf(c[2][1], j) /\ w[6 + j] = BitOf(c[2][2], j) /\ w[2 + j] = BitOf(c[2][3], j)
        /\ \A j \in 0..1 : w[0 + j] = BitOf(d \div 2, j)
    <2>1. /\ <<c[1][1], 22, 4>> \in L /\ <<c[1][2], 18, 4>> \in L /\ <<c[1][3], 14, 4>> \in L
          /\ <<c[2][1], 10, 4>> \in L /\ <<c[2][2], 6, 4>> \in L /\ <<c[2][3], 2, 4>> \in L /\ <<d \div 2, 0, 2>> \in L
      OBVIOUS
    <2> HIDE DEF L
    <2>2. \A x \in L : \A j \in 0..(x[3] - 1) : w[x[2] + j] = BitOf(x[1], j)
      BY <1>1, BitsOfField
    <2> HIDE DEF w
    <2>3. QED
      BY <2>1, <2>2
  <1> HIDE DEF L, w
  <1>5. /\ \A j \in 0..3 : e[27 + j] = w[22 + j] /\ e[11 + j] = w[10 + j]
        /\ \A j \in 0..3 : e[7 + j] = w[6 + j] /\ e[3 + j] = w[2 + j]
        /\ e[20] = w[18 + 0] /\ e[24] = w[18 + 1] /\ e[25] = w[18 + 2] /\ e[26] = w[18 + 3]
        /\ e[15] = w[14 + 0] /\ e[16] = w[14 + 1] /\ e[17] = w[14 + 2] /\ e[19] = w[14 + 3]
        /\ e[0] = w[0 + 0] /\ e[2] = w[0 + 1]
    BY DEF stuff58bits
  <1> HIDE DEF e
  <1>6. /\ Field(e, 27, 4) = c[1][1] /\ Field(e, 11, 4) = c[2][1]
        /\ Field(e, 7, 4) = c[2][2] /\ Field(e, 3, 4) = c[2][3]
    <2>1. 27 \in Nat /\ 11 \in Nat /\ 7 \in Nat /\ 3 \in Nat
      OBVIOUS
    <2>2. /\ \A j \in 0..3 : e[27 + j] = BitOf(c[1][1], j)
          /\ \A j \in 0..3 : e[11 + j] = BitOf(c[2][1], j)
          /\ \A j \in 0..3 : e[7 + j] = BitOf(c[2][2], j)
          /\ \A j \in 0..3 : e[3 + j] = BitOf(c[2][3], j)
      BY <1>4, <1>5
    <2>3. Field(e, 27, 4) = c[1][1]
      BY <1>block, <2>1, <2>2, FourBits, Zenon
    <2>4. Field(e, 11, 4) = c[2][1]
      BY <1>block, <2>1, <2>2, FourBits, Zenon
    <2>5. Field(e, 7, 4) = c[2][2]
      BY <1>block, <2>1, <2>2, FourBits, Zenon
    <2>6. Field(e, 3, 4) = c[2][3]
      <3>1. PICK lo \in Nat : lo = 3
        OBVIOUS
      <3>2. \A j \in 0..3 : e[lo + j] = BitOf(c[2][3], j)
        BY <2>2, <3>1
      <3>3. Field(e, lo, 4) = c[2][3]
        BY <1>block, <3>2, FourBits, Zenon
      <3>4. QED
        BY <3>1, <3>3
    <2>7. QED
      BY <2>3, <2>4, <2>5, <2>6
  <1>7. \A v \in 0..15 : /\ v = BitOf(v, 0) + 2 * BitOf(v, 1) + 4 * BitOf(v, 2) + 8 * BitOf(v, 3)
                         /\ BitOf(v, 0) \in Int /\ BitOf(v, 1) \in Int /\ BitOf(v, 2) \in Int /\ BitOf(v, 3) \in Int
    <2> TAKE v \in 0..15
    <2>1. v = BitOf(v, 0) + 2 * BitOf(v, 1) + 4 * BitOf(v, 2) + 8 * BitOf(v, 3)
      BY DEF BitOf
    <2>2. QED
      BY <2>1, BitOfIsBit DEF Bits
  <1>8. e[20] + 2 * Field(e, 24, 3) = c[1][2]
    <2>1. /\ e[20] = BitOf(c[1][2], 0) /\ e[24] = BitOf(c[1][2], 1)
          /\ e[25] = BitOf(c[1][2], 2) /\ e[26] = BitOf(c[1][2], 3)
      BY <1>4, <1>5
    <2>2. PICK v \in 0..15 : v = c[1][2]
      BY <1>block
    <2>3. QED
      BY <1>7, <2>1, <2>2 DEF Field
  <1>9. Field(e, 15, 3) + 8 * e[19] = c[1][3]
    <2>1. /\ e[15] = BitOf(c[1][3], 0) /\ e[16] = BitOf(c[1][3], 1)
          /\ e[17] = BitOf(c[1][3], 2) /\ e[19] = BitOf(c[1][3], 3)
      BY <1>4, <1>5
    <2>2. PICK v \in 0..15 : v = c[1][3]
      BY <1>block
    <2>3. QED
      BY <1>7, <2>1, <2>2 DEF Field
  <1>10. 4 * e[2] + 2 * e[0] = 2 * (d \div 2)
    <2>1. e[0] = BitOf(d \div 2, 0) /\ e[2] = BitOf(d \div 2, 1)
      BY <1>4, <1>5
    <2>2. PICK v \in 0..3 : v = d \div 2
      BY <1>block
    <2>3. v = BitOf(v, 0) + 2 * BitOf(v, 1) /\ BitOf(v, 0) \in Int /\ BitOf(v, 1) \in Int
      BY BitOfIsBit DEF Bits, BitOf
    <2>4. QED
      BY <2>1, <2>2, <2>3
  <1>11. QED
    BY <1>2, <1>3, <1>6, <1>8, <1>9, <1>10 DEF SameColours, HColours, e

LEMMA THIndices ==
    ASSUME NEW idx \in [0..15 -> 0..3]
    PROVE  /\ SearchIndices(idx) \in Word
           /\ IndicesAre(indexConversion(SearchIndices(idx)), idx)
           /\ IndicesAre(indexConversion(OtherPair(SearchIndices(idx))), [k \in 0..15 |-> (idx[k] + 2) % 4])
           /\ indexConversion(SearchIndices(idx)) \in Word
           /\ indexConversion(OtherPair(SearchIndices(idx))) \in Word
  <1> DEFINE pos == [j \in 0..15 |-> 2 * (15 - (4 * (j % 4) + j \div 4))]
             L == FieldPerPixel(idx, pos, 2)
             s == OrN(32, PartsOf(L))
  <1>block. \A j \in 0..15 : idx[j] \in 0..3
    OBVIOUS
  <1>1. \A j \in 0..15 : /\ pos[j] = 2 * (15 - (4 * (j % 4) + j \div 4)) /\ pos[j] \in 0..30 /\ pos[j] % 2 = 0
    OBVIOUS
  <1>2. \A i, j \in 0..15 : i # j => pos[i] # pos[j]
    OBVIOUS
  <1> HIDE DEF pos
  <1>3. Layout(32, L)
    <2>1. \A x \in L : /\ x[1] \in 0..3 /\ x[2] \in 0..30 /\ x[2] % 2 = 0 /\ x[3] = 2
      BY <1>block, <1>1 DEF FieldPerPixel
    <2>2. \A x, y \in L : x[2] = y[2] => x = y
      BY <1>2 DEF FieldPerPixel
    <2> HIDE DEF L
    <2>3. \A x \in L : /\ x[1] \in Nat /\ x[2] \in Nat /\ x[3] \in 1..8
                       /\ x[1] < PowersOfTwo[x[3]] /\ x[2] + x[3] <= 32
      <3>1. PowersOfTwo[2] = 4
        BY DEF PowersOfTwo
      <3>2. QED
        BY <2>1, <3>1
    <2>4. \A x, y \in L : x = y \/ x[2] + x[3] <= y[2] \/ y[2] + y[3] <= x[2]
      BY <2>1, <2>2
    <2>5. QED
      BY <2>3, <2>4 DEF Layout
  <1>4. SearchIndices(idx) = s
    <2>1. PartsOf(L) = PartPerPixel(idx, pos)
      BY PartsOfFields
    <2>2. PartPerPixel(idx, pos) = {<<idx[k], 2 * (15 - (4 * (k % 4) + k \div 4))>> : k \in 0..15}
      BY <1>1 DEF PartPerPixel
    <2>3. QED
      BY <2>1, <2>2 DEF SearchIndices, Or
  <1>5. \A k \in 0..15 : s[pos[k]] = BitOf(idx[k], 0) /\ s[pos[k] + 1] = BitOf(idx[k], 1)
    <2> TAKE k \in 0..15
    <2>1. <<idx[k], pos[k], 2>> \in L
      BY DEF FieldPerPixel
    <2> HIDE DEF L
    <2>2. \A x \in L : \A j \in 0..(x[3] - 1) : s[x[2] + j] = BitOf(x[1], j)
      BY <1>3, BitsOfField
    <2> HIDE DEF s
    <2>3. s[pos[k] + 0] = BitOf(idx[k], 0) /\ s[pos[k] + 1] = BitOf(idx[k], 1)
      BY <2>1, <2>2
    <2>4. QED
      BY <1>1, <2>3
  <1>6. s \in Word
    BY OrIsWord DEF Or
  <1> HIDE DEF L, s
  <1>7. \A k \in 0..15 : /\ idx[k] = 2 * BitOf(idx[k], 1) + BitOf(idx[k], 0)
                         /\ BitOf(idx[k], 1) \in Bits /\ BitOf(idx[k], 0) \in Bits
                         /\ (idx[k] + 2) % 4 = 2 * (1 - BitOf(idx[k], 1)) + BitOf(idx[k], 0)
    <2> TAKE k \in 0..15
    <2>1. PICK v \in 0..3 : v = idx[k]
      BY <1>block
    <2>2. v = 2 * BitOf(v, 1) + BitOf(v, 0) /\ (v + 2) % 4 = 2 * (1 - BitOf(v, 1)) + BitOf(v, 0)
      BY DEF BitOf
    <2>3. BitOf(v, 1) \in Bits /\ BitOf(v, 0) \in Bits
      BY BitOfIsBit
    <2>4. QED
      BY <2>1, <2>2, <2>3
  <1>8. \A b \in 0..31 : 2 * (15 - (4 * (b % 4) + (b % 16) \div 4)) + b \div 16 \in 0..31
    OBVIOUS
  <1>9. \A k \in 0..15 : /\ 2 * (15 - (4 * (k % 4) + (k % 16) \div 4)) + k \div 16 = pos[k]
                         /\ 2 * (15 - (4 * ((16 + k) % 4) + ((16 + k) % 16) \div 4)) + (16 + k) \div 16 = pos[k] + 1
    BY <1>1
  <1>10. ASSUME NEW t \in Word
         PROVE  /\ indexConversion(t) \in Word
                /\ \A k \in 0..15 : IndexAt(indexConversion(t), k) = 2 * t[pos[k] + 1] + t[pos[k]]
    <2>1. indexConversion(t) \in Word
      BY <1>8 DEF indexConversion, Word
    <2>2. \A k \in 0..15 : indexConversion(t)[k] = t[pos[k]] /\ indexConversion(t)[16 + k] = t[pos[k] + 1]
      BY <1>9 DEF indexConversion
    <2>3. QED
      BY <2>1, <2>2 DEF IndexAt
  <1>11. /\ OtherPair(s) \in Word
         /\ \A k \in 0..15 : OtherPair(s)[pos[k]] = s[pos[k]] /\ OtherPair(s)[pos[k] + 1] = 1 - s[pos[k] + 1]
    <2>1. \A i \in 0..31 : s[i] \in Bits
      BY <1>6 DEF Word
    <2>2. OtherPair(s) \in Word
      BY <2>1 DEF OtherPair, Word, Bits
    <2>3. \A k \in 0..15 : pos[k] \in 0..31 /\ pos[k] + 1 \in 0..31 /\ pos[k] % 2 # 1 /\ (pos[k] + 1) % 2 = 1
      BY <1>1
    <2>4. QED
      BY <2>2, <2>3 DEF OtherPair
  <1>12. IndicesAre(indexConversion(s), idx)
    BY <1>5, <1>6, <1>7, <1>10 DEF IndicesAre
  <1>13. IndicesAre(indexConversion(OtherPair(s)), [k \in 0..15 |-> (idx[k] + 2) % 4])
    <2>1. \A k \in 0..15 : IndexAt(indexConversion(OtherPair(s)), k) = (idx[k] + 2) % 4
      BY <1>5, <1>7, <1>10, <1>11
    <2>2. QED
      BY <2>1 DEF IndicesAre
  <1>14. QED
    BY <1>4, <1>6, <1>10, <1>11, <1>12, <1>13

RGB == [1..3 -> 0..255]
RGBBlock == [0..15 -> RGB]

\* Intervals from 0 are finite sets, and those are well-founded by inclusion.
LEMMA LeastNumber ==
    ASSUME NEW X, X \subseteq Nat, X # {}
    PROVE  \E m \in X : \A k \in X : m <= k
  <1> DEFINE T == {0..n : n \in X}
  <1>1. IsWellFoundedOn(StrictSubsetOrdering(Nat), FiniteSubsetsOf(Nat))
    BY FS_StrictSubsetOrderingWellFounded
  <1>2. T \subseteq FiniteSubsetsOf(Nat)
    <2>1. \A n \in X : IsFiniteSet(0..n)
      BY FS_Interval
    <2>2. \A n \in X : 0..n \in SUBSET Nat
      OBVIOUS
    <2>3. QED
      BY <2>1, <2>2, Zenon DEF FiniteSubsetsOf
  <1>3. T # {}
    OBVIOUS
  <1>4. PICK s \in T : \A u \in T : <<u, s>> \notin StrictSubsetOrdering(Nat)
    <2> HIDE DEF T
    <2> QED
      BY <1>1, <1>2, <1>3, WFMin, Zenon
  <1>5. PICK m \in X : s = 0..m
    OBVIOUS
  <1>6. ASSUME NEW k \in X, ~(m <= k)
        PROVE  FALSE
    <2>1. 0..k \in T /\ 0..k \subseteq 0..m /\ 0..k # 0..m
      BY <1>6
    <2>2. <<0..k, s>> \in StrictSubsetOrdering(Nat)
      BY <2>1, <1>2, <1>5 DEF StrictSubsetOrdering, FiniteSubsetsOf
    <2>3. QED
      BY <2>1, <2>2, <1>4
  <1>7. QED
    BY <1>6

LEMMA PixelBytes ==
    ASSUME NEW b \in RGBBlock, NEW k \in 0..15, NEW i \in 1..3
    PROVE  b[k][i] \in 0..255
  <1>1. b[k] \in RGB
    BY DEF RGBBlock
  <1>2. QED
    BY <1>1 DEF RGB

LEMMA LumaIsByte ==
    ASSUME NEW b \in RGBBlock, NEW k \in 0..15
    PROVE  Luma(b[k]) \in 0..255
  <1>1. 1 \in 1..3 /\ 2 \in 1..3 /\ 3 \in 1..3
    OBVIOUS
  <1>2. b[k][1] \in 0..255 /\ b[k][2] \in 0..255 /\ b[k][3] \in 0..255
    BY <1>1, PixelBytes, Zenon
  <1>3. PICK x \in 0..255, y \in 0..255, z \in 0..255 : x = b[k][1] /\ y = b[k][2] /\ z = b[k][3]
    BY <1>2, Zenon
  <1>4. (38 * x + 76 * y + 14 * z) \div 128 \in 0..255
    OBVIOUS
  <1>5. QED
    BY <1>3, <1>4, Zenon DEF Luma

\* Pixels by their places in insertionSort's order, which are the numbers 0..15.
LEMMA SortedBlock ==
    ASSUME NEW b \in RGBBlock
    PROVE  /\ insertionSort(b) \in RGBBlock
           /\ \A m, n \in 0..15 : m <= n => Luma(insertionSort(b)[m]) <= Luma(insertionSort(b)[n])
  <1> DEFINE l == [k \in 0..15 |-> Luma(b[k])]
             Before(k) == {j \in 0..15 : l[j] < l[k] \/ (l[j] = l[k] /\ j < k)}
             place == [k \in 0..15 |-> Cardinality(Before(k))]
             at(n) == CHOOSE k \in 0..15 : place[k] = n
  <1>1. \A k \in 0..15 : l[k] = Luma(b[k]) /\ l[k] \in Int
    <2> TAKE k \in 0..15
    <2>1. Luma(b[k]) \in 0..255
      BY LumaIsByte
    <2>2. QED
      BY <2>1
  <1>2. insertionSort(b) = [n \in 0..15 |-> b[at(n)]]
    BY DEF insertionSort
  <1>3. IsFiniteSet(0..15) /\ Cardinality(0..15) = 16
    <2>1. 0 \in Int /\ 15 \in Int
      OBVIOUS
    <2>2. IsFiniteSet(0..15) /\ Cardinality(0..15) = IF 0 > 15 THEN 0 ELSE 15 - 0 + 1
      BY <2>1, FS_Interval
    <2>3. QED
      BY <2>2
  <1> HIDE DEF l
  <1>4. \A k \in 0..15 : /\ Before(k) \subseteq (0..15) \ {k}
                         /\ \A j \in 0..15 : j \in Before(k) <=> (l[j] < l[k] \/ (l[j] = l[k] /\ j < k))
    BY <1>1
  <1>5. \A k \in 0..15 : place[k] = Cardinality(Before(k))
    OBVIOUS
  <1> HIDE DEF Before, place
  <1>6. \A k \in 0..15 : IsFiniteSet(Before(k)) /\ place[k] \in 0..15
    <2> TAKE k \in 0..15
    <2>1. IsFiniteSet((0..15) \ {k}) /\ Cardinality((0..15) \ {k}) = 15
      <3>1. IsFiniteSet((0..15) \ {k}) /\ Cardinality((0..15) \ {k}) = IF k \in 0..15 THEN Cardinality(0..15) - 1 ELSE Cardinality(0..15)
        BY <1>3, FS_RemoveElement, Zenon
      <3>2. QED
        BY <1>3, <3>1
    <2>2. Before(k) \in SUBSET ((0..15) \ {k})
      BY <1>4
    <2>3. IsFiniteSet(Before(k)) /\ Cardinality(Before(k)) <= Cardinality((0..15) \ {k})
      BY <2>1, <2>2, FS_Subset, Zenon
    <2>4. Cardinality(Before(k)) \in Nat
      BY <2>3, FS_CardinalityType, Zenon
    <2>5. QED
      BY <1>5, <2>1, <2>3, <2>4
  <1>7. \A j, k \in 0..15 : j \in Before(k) => place[j] < place[k]
    <2> SUFFICES ASSUME NEW j \in 0..15, NEW k \in 0..15, j \in Before(k)
                 PROVE  place[j] < place[k]
      OBVIOUS
    <2>1. Before(j) \in SUBSET Before(k)
      <3>1. \A i \in 0..15 : i \in Before(j) => i \in Before(k)
        BY <1>1, <1>4
      <3>2. Before(j) \subseteq 0..15
        BY <1>4
      <3>3. QED
        BY <3>1, <3>2
    <2>2. j \notin Before(j)
      BY <1>4
    <2>3. Before(j) # Before(k)
      BY <2>2
    <2>4. Cardinality(Before(j)) <= Cardinality(Before(k)) /\ Cardinality(Before(k)) # Cardinality(Before(j))
      BY <1>6, <2>1, <2>3, FS_Subset, Zenon
    <2>5. QED
      BY <1>5, <1>6, <2>4
  <1>8. \A j, k \in 0..15 : j # k => place[j] # place[k]
    <2> SUFFICES ASSUME NEW j \in 0..15, NEW k \in 0..15, j # k
                 PROVE  place[j] # place[k]
      OBVIOUS
    <2>1. j \in Before(k) \/ k \in Before(j)
      BY <1>1, <1>4
    <2>2. QED
      BY <1>6, <1>7, <2>1
  <1>9. place \in Surjection(0..15, 0..15)
    <2>1. place \in [0..15 -> 0..15]
      BY <1>6 DEF place
    <2>2. place \in Injection(0..15, 0..15)
      BY <1>8, <2>1 DEF Injection, IsInjective
    <2>3. QED
      BY <1>3, <2>2, FS_Injection, Zenon
  <1>10. \A n \in 0..15 : at(n) \in 0..15 /\ place[at(n)] = n
    <2> TAKE n \in 0..15
    <2>1. \E k \in 0..15 : place[k] = n
      BY <1>9 DEF Surjection
    <2>2. QED
      BY <2>1
  <1> HIDE DEF at
  <1>11. insertionSort(b) \in RGBBlock
    BY <1>2, <1>10 DEF RGBBlock
  <1>12. ASSUME NEW m \in 0..15, NEW n \in 0..15, m <= n
         PROVE  Luma(insertionSort(b)[m]) <= Luma(insertionSort(b)[n])
    <2>1. insertionSort(b)[m] = b[at(m)] /\ insertionSort(b)[n] = b[at(n)]
      BY <1>2
    <2>2. PICK x \in 0..15, y \in 0..15 : x = at(m) /\ y = at(n) /\ place[x] = m /\ place[y] = n
      BY <1>10
    <2>3. ~(l[y] < l[x])
      <3>1. SUFFICES ASSUME l[y] < l[x]
                     PROVE  FALSE
        OBVIOUS
      <3>2. y \in Before(x)
        BY <1>4, <3>1
      <3>3. place[y] < place[x]
        BY <1>7, <3>2
      <3>4. QED
        BY <1>12, <2>2, <3>3
    <2>4. l[x] <= l[y]
      BY <1>1, <2>3
    <2>5. QED
      BY <1>1, <2>1, <2>2, <2>4
  <1>13. QED
    BY <1>11, <1>12

\* The first smallest sum exists: the smallest of numbers that hold sum and place.
LEMMA CutIs ==
    ASSUME NEW p \in RGBBlock
    PROVE  minSumRangeIdx(p) \in 0..14
  <1> DEFINE l == [k \in 0..15 |-> Luma(p[k])]
             sum == [i \in 0..14 |-> (l[15] - l[i + 1]) + (l[i] - l[0]) + diffBonus[i + 1]]
             first(i) == \A j \in 0..14 : sum[i] < sum[j] \/ (sum[i] = sum[j] /\ i <= j)
  <1>1. \A k \in 0..15 : l[k] \in 0..255
    BY LumaIsByte
  <1>2. minSumRangeIdx(p) = CHOOSE i \in 0..14 : first(i)
    BY DEF minSumRangeIdx
  <1> HIDE DEF l
  <1>3. \A i \in 0..14 : sum[i] \in Int /\ sum[i] + 512 \in Nat
    <2> TAKE i \in 0..14
    <2>1. diffBonus[i + 1] \in 0..8
      <3>1. i + 1 \in 1..15
        OBVIOUS
      <3>2. \A k \in 1..15 : diffBonus[k] \in 0..8
        BY DEF diffBonus
      <3>3. QED
        BY <3>1, <3>2
    <2>2. PICK d \in 0..8 : d = diffBonus[i + 1]
      BY <2>1
    <2>3. l[15] \in 0..255 /\ l[i + 1] \in 0..255 /\ l[i] \in 0..255 /\ l[0] \in 0..255
      BY <1>1
    <2>4. sum[i] = (l[15] - l[i + 1]) + (l[i] - l[0]) + d
      BY <2>2
    <2>5. PICK w \in 0..255, x \in 0..255, y \in 0..255, z \in 0..255 :
              w = l[15] /\ x = l[i + 1] /\ y = l[i] /\ z = l[0]
      BY <2>3, Zenon
    <2> HIDE DEF sum
    <2>6. sum[i] = (w - x) + (y - z) + d
      BY <2>4, <2>5, Zenon
    <2>7. QED
      BY <2>6
  <1> HIDE DEF sum
  <1> DEFINE key(i) == 15 * (sum[i] + 512) + i
             X == {key(i) : i \in 0..14}
  <1>4. \A i \in 0..14 : key(i) \in Nat
    BY <1>3
  <1>5. PICK m \in X : \A k \in X : m <= k
    <2>1. X \subseteq Nat /\ key(0) \in X
      BY <1>4
    <2> HIDE DEF X
    <2>2. QED
      BY <2>1, LeastNumber
  <1>6. PICK i \in 0..14 : m = key(i)
    OBVIOUS
  <1>7. first(i)
    <2> SUFFICES ASSUME NEW j \in 0..14
                 PROVE  sum[i] < sum[j] \/ (sum[i] = sum[j] /\ i <= j)
      OBVIOUS
    <2>1. key(j) \in X
      OBVIOUS
    <2> HIDE DEF X
    <2>2. 15 * (sum[i] + 512) + i <= 15 * (sum[j] + 512) + j
      BY <1>5, <1>6, <2>1
    <2>3. sum[i] \in Int /\ sum[j] \in Int
      BY <1>3
    <2>4. QED
      BY <2>2, <2>3
  <1> HIDE DEF first
  <1>8. QED
    BY <1>2, <1>7, Zenon

LEMMA MeanOfBytes ==
    ASSUME NEW n \in 1..15, NEW x \in Nat, x <= 255 * n
    PROVE  x \div n \in 0..255
  <1>1. x \div n \in Nat /\ (x \div n) * n <= x
    BY SMTT(30)
  <1>2. PICK q \in Nat : q = x \div n
    BY <1>1
  <1>3. q * n <= 255 * n
    <2>1. PICK y \in Nat : y = q * n
      BY SMT
    <2>2. y <= x
      BY <1>1, <1>2, <2>1
    <2>3. QED
      BY <2>1, <2>2
  <1>4. q <= 255
    BY <1>3, SMTT(30)
  <1>5. QED
    BY <1>2, <1>4

RightSum(p, s, i) == Sum16(LAMBDA k : IF k > s THEN p[k][i] ELSE 0)

LEMMA RightMean ==
    ASSUME NEW p \in RGBBlock, NEW s \in 0..14, NEW i \in 1..3
    PROVE  RightSum(p, s, i) \div (15 - s) \in 0..255
  <1> DEFINE x(k) == IF k > s THEN p[k][i] ELSE 0
             y(k) == IF k > s THEN 1 ELSE 0
  <1>1. \A k \in 0..15 : p[k][i] \in 0..255
    BY PixelBytes
  <1>2. \A k \in 0..15 : x(k) \in Nat /\ y(k) \in Nat /\ x(k) <= 255 * y(k)
    <2> TAKE k \in 0..15
    <2>1. CASE k > s
      <3>1. PICK v \in 0..255 : v = p[k][i]
        BY <1>1
      <3>2. x(k) = v /\ y(k) = 1
        BY <2>1, <3>1, Zenon
      <3>3. QED
        BY <3>2
    <2>2. CASE ~(k > s)
      <3>1. x(k) = 0 /\ y(k) = 0
        BY <2>2, Zenon
      <3>2. QED
        BY <3>1
    <2>3. QED
      BY <2>1, <2>2
  <1>3. y(0) + y(1) + y(2) + y(3) + y(4) + y(5) + y(6) + y(7)
             + y(8) + y(9) + y(10) + y(11) + y(12) + y(13) + y(14) + y(15) = 15 - s
    OBVIOUS
  <1>4. RightSum(p, s, i) = x(0) + x(1) + x(2) + x(3) + x(4) + x(5) + x(6) + x(7)
             + x(8) + x(9) + x(10) + x(11) + x(12) + x(13) + x(14) + x(15)
    BY DEF RightSum, Sum16
  <1> HIDE DEF x, y
  <1>5. RightSum(p, s, i) \in Nat /\ RightSum(p, s, i) <= 255 * (15 - s)
    <2>1. \A k \in {0, 4, 8, 12} :
              /\ x(k) + x(k + 1) + x(k + 2) + x(k + 3) \in Nat
              /\ y(k) + y(k + 1) + y(k + 2) + y(k + 3) \in Nat
              /\ x(k) + x(k + 1) + x(k + 2) + x(k + 3) <= 255 * (y(k) + y(k + 1) + y(k + 2) + y(k + 3))
      BY <1>2
    <2>2. PICK x0 \in Nat, x1 \in Nat, x2 \in Nat, x3 \in Nat :
              /\ x0 = x(0) + x(1) + x(2) + x(3) /\ x1 = x(4) + x(5) + x(6) + x(7)
              /\ x2 = x(8) + x(9) + x(10) + x(11) /\ x3 = x(12) + x(13) + x(14) + x(15)
      <3>1. x(0) + x(1) + x(2) + x(3) \in Nat /\ x(4) + x(5) + x(6) + x(7) \in Nat
        BY <2>1
      <3>2. x(8) + x(9) + x(10) + x(11) \in Nat /\ x(12) + x(13) + x(14) + x(15) \in Nat
        BY <2>1
      <3>3. QED
        BY <3>1, <3>2, Zenon
    <2>3. PICK y0 \in Nat, y1 \in Nat, y2 \in Nat, y3 \in Nat :
              /\ y0 = y(0) + y(1) + y(2) + y(3) /\ y1 = y(4) + y(5) + y(6) + y(7)
              /\ y2 = y(8) + y(9) + y(10) + y(11) /\ y3 = y(12) + y(13) + y(14) + y(15)
      <3>1. y(0) + y(1) + y(2) + y(3) \in Nat /\ y(4) + y(5) + y(6) + y(7) \in Nat
        BY <2>1
      <3>2. y(8) + y(9) + y(10) + y(11) \in Nat /\ y(12) + y(13) + y(14) + y(15) \in Nat
        BY <2>1
      <3>3. QED
        BY <3>1, <3>2, Zenon
    <2>4. x0 <= 255 * y0 /\ x1 <= 255 * y1 /\ x2 <= 255 * y2 /\ x3 <= 255 * y3
      BY <2>1, <2>2, <2>3
    <2>5. RightSum(p, s, i) = x0 + x1 + x2 + x3
      BY <1>2, <1>4, <2>2
    <2>6. y0 + y1 + y2 + y3 = 15 - s
      BY <1>2, <1>3, <2>3
    <2>7. QED
      BY <2>4, <2>5, <2>6
  <1>6. PICK n \in 1..15 : n = 15 - s
    OBVIOUS
  <1>7. QED
    BY <1>5, <1>6, MeanOfBytes

LEMMA MidsAre ==
    ASSUME NEW p, NEW s, NEW i \in 1..3
    PROVE  /\ Swapped(p, s) => /\ mid_rgb(p, s)[1][i] = RightSum(p, s, i) \div (15 - s)
                               /\ mid_rgb(p, s)[2][i] = (p[0][i] + p[s][i]) \div 2
           /\ ~Swapped(p, s) => mid_rgb(p, s)[1][i] = (p[0][i] + p[s][i]) \div 2
           /\ (~Swapped(p, s) /\ TMode(p, s)) => mid_rgb(p, s)[2][i] = RightSum(p, s, i) \div (15 - s)
           /\ (~Swapped(p, s) /\ ~TMode(p, s)) => mid_rgb(p, s)[2][i] = (p[s + 1][i] + p[15][i]) \div 2
  <1> DEFINE left  == <<(p[0][1] + p[s][1]) \div 2, (p[0][2] + p[s][2]) \div 2, (p[0][3] + p[s][3]) \div 2>>
             right == <<(p[s + 1][1] + p[15][1]) \div 2, (p[s + 1][2] + p[15][2]) \div 2, (p[s + 1][3] + p[15][3]) \div 2>>
             mean  == <<RightSum(p, s, 1) \div (15 - s), RightSum(p, s, 2) \div (15 - s), RightSum(p, s, 3) \div (15 - s)>>
  <1>1. mid_rgb(p, s) = IF Swapped(p, s) THEN <<mean, left>> ELSE IF TMode(p, s) THEN <<left, mean>> ELSE <<left, right>>
    BY Zenon DEF mid_rgb, Map3, RightSum
  <1>2. /\ left[i] = (p[0][i] + p[s][i]) \div 2
        /\ right[i] = (p[s + 1][i] + p[15][i]) \div 2
        /\ mean[i] = RightSum(p, s, i) \div (15 - s)
    <2>1. i = 1 \/ i = 2 \/ i = 3
      OBVIOUS
    <2>2. QED
      BY <2>1
  <1> HIDE DEF left, right, mean
  <1>3. QED
    <2>1. CASE Swapped(p, s)
      <3>1. mid_rgb(p, s) = <<mean, left>>
        BY <1>1, <2>1, Zenon
      <3>2. QED
        BY <1>2, <2>1, <3>1
    <2>2. CASE ~Swapped(p, s) /\ TMode(p, s)
      <3>1. mid_rgb(p, s) = <<left, mean>>
        BY <1>1, <2>2, Zenon
      <3>2. QED
        BY <1>2, <2>2, <3>1
    <2>3. CASE ~Swapped(p, s) /\ ~TMode(p, s)
      <3>1. mid_rgb(p, s) = <<left, right>>
        BY <1>1, <2>3, Zenon
      <3>2. QED
        BY <1>2, <2>3, <3>1
    <2>4. QED
      BY <2>1, <2>2, <2>3

LEMMA MidBytes ==
    ASSUME NEW p \in RGBBlock, NEW s \in 0..14, NEW i \in 1..3
    PROVE  mid_rgb(p, s)[1][i] \in 0..255 /\ mid_rgb(p, s)[2][i] \in 0..255
  <1> DEFINE A == (p[0][i] + p[s][i]) \div 2
             B == (p[s + 1][i] + p[15][i]) \div 2
             M == RightSum(p, s, i) \div (15 - s)
  <1>1. A \in 0..255 /\ B \in 0..255
    <2>1. p[0][i] \in 0..255 /\ p[s][i] \in 0..255 /\ p[s + 1][i] \in 0..255 /\ p[15][i] \in 0..255
      <3>1. 0 \in 0..15 /\ s \in 0..15 /\ s + 1 \in 0..15 /\ 15 \in 0..15
        OBVIOUS
      <3>2. \A k \in 0..15 : p[k][i] \in 0..255
        BY PixelBytes
      <3>3. QED
        BY <3>1, <3>2, ZenonT(60)
    <2>2. PICK q \in 0..255, r \in 0..255, u \in 0..255, v \in 0..255 :
              q = p[0][i] /\ r = p[s][i] /\ u = p[s + 1][i] /\ v = p[15][i]
      BY <2>1, Zenon
    <2>3. (q + r) \div 2 \in 0..255 /\ (u + v) \div 2 \in 0..255
      OBVIOUS
    <2>4. QED
      BY <2>2, <2>3
  <1>2. M \in 0..255
    BY RightMean
  <1>3. CASE Swapped(p, s)
    <2>1. mid_rgb(p, s)[1][i] = M /\ mid_rgb(p, s)[2][i] = A
      BY <1>3, MidsAre
    <2> HIDE DEF A, M
    <2>2. QED
      BY <1>1, <1>2, <2>1
  <1>4. CASE ~Swapped(p, s) /\ TMode(p, s)
    <2>1. mid_rgb(p, s)[1][i] = A /\ mid_rgb(p, s)[2][i] = M
      BY <1>4, MidsAre
    <2> HIDE DEF A, M
    <2>2. QED
      BY <1>1, <1>2, <2>1
  <1>5. CASE ~Swapped(p, s) /\ ~TMode(p, s)
    <2>1. mid_rgb(p, s)[1][i] = A /\ mid_rgb(p, s)[2][i] = B
      BY <1>5, MidsAre
    <2> HIDE DEF A, B
    <2>2. QED
      BY <1>1, <2>1
  <1>6. QED
    BY <1>3, <1>4, <1>5

\* compressColor of one channel
QuantisedH(v) == Clamp(1, (15 * (v + 8)) \div 255, 14)

LEMMA CompressedNibbles ==
    ASSUME NEW m, \A i \in 1..3 : m[1][i] \in 0..255 /\ m[2][i] \in 0..255, NEW t \in BOOLEAN
    PROVE  Nibbles(compressColor(m, t))
  <1> DEFINE c == compressColor(m, t)
  <1>1. ASSUME NEW i \in 1..3
        PROVE  c[1][i] \in 0..15 /\ c[2][i] \in 0..15
    <2>1. m[1][i] \in 0..255 /\ m[2][i] \in 0..255
      OBVIOUS
    <2>2. /\ c[1][i] = IF t THEN Clamp(0, (15 * (m[1][i] + 8)) \div 255, 15) ELSE QuantisedH(m[1][i])
          /\ c[2][i] = QuantisedH(m[2][i])
      BY DEF compressColor, Map3, QuantisedH
    <2>3. \A v \in 0..255 : QuantisedH(v) \in 0..15 /\ Clamp(0, (15 * (v + 8)) \div 255, 15) \in 0..15
      BY DEF QuantisedH, Clamp
    <2> HIDE DEF c
    <2>4. PICK u \in 0..255, v \in 0..255 : u = m[1][i] /\ v = m[2][i]
      BY <2>1
    <2>5. c[2][i] \in 0..15
      BY <2>2, <2>3, <2>4, ZenonT(60)
    <2>6. c[1][i] \in 0..15
      <3>1. CASE t
        <4>1. c[1][i] = Clamp(0, (15 * (u + 8)) \div 255, 15)
          BY <2>2, <2>4, <3>1, Zenon
        <4>2. QED
          BY <2>3, <4>1, ZenonT(60)
      <3>2. CASE ~t
        <4>1. c[1][i] = QuantisedH(u)
          BY <2>2, <2>4, <3>2, Zenon
        <4>2. QED
          BY <2>3, <4>1, ZenonT(60)
      <3>3. QED
        BY <3>1, <3>2
    <2>7. QED
      BY <2>5, <2>6
  <1> HIDE DEF c
  <1>2. QED
    BY <1>1 DEF Nibbles, c

\* Equal after compressColor means less than two steps apart.
LEMMA QuantisedClose ==
    ASSUME NEW v \in 0..255, NEW u \in 0..255, QuantisedH(v) = QuantisedH(u)
    PROVE  u - v <= 25
  BY DEF QuantisedH, Clamp

\* Middles of two pairs of colours.
MiddlesOf(m, p) ==
    \A i \in 1..3 : m[1][i] = (p[1][i] + p[2][i]) \div 2 /\ m[2][i] = (p[3][i] + p[4][i]) \div 2

LEMMA ColourBytes ==
    ASSUME NEW p \in [1..4 -> RGB], NEW a \in 1..4, NEW i \in 1..3
    PROVE  p[a][i] \in 0..255
  BY DEF RGB

LEMMA FourBytes ==
    ASSUME NEW p \in [1..4 -> RGB], NEW i \in 1..3
    PROVE  \E q \in 0..255 : \E r \in 0..255 : \E u \in 0..255 : \E v \in 0..255 :
               q = p[1][i] /\ r = p[2][i] /\ u = p[3][i] /\ v = p[4][i]
  <1>1. 1 \in 1..4 /\ 2 \in 1..4 /\ 3 \in 1..4 /\ 4 \in 1..4
    OBVIOUS
  <1>2. p[1][i] \in 0..255
    BY <1>1, ColourBytes, Zenon
  <1>3. p[2][i] \in 0..255
    BY <1>1, ColourBytes, Zenon
  <1>4. p[3][i] \in 0..255
    BY <1>1, ColourBytes, Zenon
  <1>5. p[4][i] \in 0..255
    BY <1>1, ColourBytes, Zenon
  <1>6. QED
    BY <1>2, <1>3, <1>4, <1>5, Zenon

\* The two colours of an H block of high contrast differ, so that their order
\* can tell a bit: p are the darkest pixel and the last of the left part, the
\* first of the right part and the brightest.
LEMMA HColoursDiffer ==
    ASSUME NEW p \in [1..4 -> RGB], Luma(p[4]) - Luma(p[1]) >= 97, Luma(p[2]) <= Luma(p[3]),
           NEW m, MiddlesOf(m, p)
    PROVE  PackedColour(compressColor(m, FALSE)[1]) # PackedColour(compressColor(m, FALSE)[2])
  <1> DEFINE c == compressColor(m, FALSE)
  <1>1. \A i \in 1..3 : m[1][i] = (p[1][i] + p[2][i]) \div 2 /\ m[2][i] = (p[3][i] + p[4][i]) \div 2
    BY DEF MiddlesOf
  <1>2. \A a \in 1..4 : \A i \in 1..3 : p[a][i] \in 0..255
    BY ColourBytes
  <1>3. \A i \in 1..3 : m[1][i] \in 0..255 /\ m[2][i] \in 0..255
    <2> TAKE i \in 1..3
    <2>1. PICK q \in 0..255, r \in 0..255, u \in 0..255, v \in 0..255 :
              q = p[1][i] /\ r = p[2][i] /\ u = p[3][i] /\ v = p[4][i]
      BY FourBytes, ZenonT(60)
    <2>2. (q + r) \div 2 \in 0..255 /\ (u + v) \div 2 \in 0..255
      OBVIOUS
    <2>3. QED
      BY <1>1, <2>1, <2>2
  <1>4. \A i \in 1..3 : c[1][i] = QuantisedH(m[1][i]) /\ c[2][i] = QuantisedH(m[2][i])
    BY DEF compressColor, Map3, QuantisedH
  <1>5. \A v \in 0..255 : QuantisedH(v) \in 1..14
    BY DEF QuantisedH, Clamp
  <1> HIDE DEF c
  <1>6. SUFFICES ASSUME PackedColour(c[1]) = PackedColour(c[2])
                 PROVE  FALSE
    BY DEF c
  <1>7. \A i \in 1..3 : c[1][i] = c[2][i]
    <2>1. \A i \in 1..3 : c[1][i] \in 1..14 /\ c[2][i] \in 1..14
      <3> TAKE i \in 1..3
      <3>1. PICK u \in 0..255, v \in 0..255 : u = m[1][i] /\ v = m[2][i]
        BY <1>3
      <3>2. c[1][i] = QuantisedH(u) /\ c[2][i] = QuantisedH(v)
        BY <1>4, <3>1
      <3>3. QuantisedH(u) \in 1..14 /\ QuantisedH(v) \in 1..14
        BY <1>5
      <3>4. QED
        BY <3>2, <3>3
    <2>2. /\ c[1][1] \in 1..14 /\ c[1][2] \in 1..14 /\ c[1][3] \in 1..14
          /\ c[2][1] \in 1..14 /\ c[2][2] \in 1..14 /\ c[2][3] \in 1..14
      BY <2>1
    <2>3. 256 * c[1][1] + 16 * c[1][2] + c[1][3] = 256 * c[2][1] + 16 * c[2][2] + c[2][3]
      BY <1>6 DEF PackedColour
    <2>4. c[1][1] = c[2][1] /\ c[1][2] = c[2][2] /\ c[1][3] = c[2][3]
      <3>1. PICK x \in 1..14, y \in 1..14, z \in 1..14 : x = c[1][1] /\ y = c[1][2] /\ z = c[1][3]
        BY <2>2
      <3>2. PICK u \in 1..14, v \in 1..14, t \in 1..14 : u = c[2][1] /\ v = c[2][2] /\ t = c[2][3]
        BY <2>2
      <3>3. 256 * x + 16 * y + z = 256 * u + 16 * v + t
        BY <2>3, <3>1, <3>2
      <3>4. x = u /\ y = v /\ z = t
        BY <3>3
      <3>5. QED
        BY <3>1, <3>2, <3>4
    <2>5. QED
      BY <2>4
  <1>8. \A i \in 1..3 : m[2][i] - m[1][i] <= 25
    BY <1>3, <1>4, <1>7, QuantisedClose, ZenonT(60)
  <1>9. \A i \in 1..3 : (p[3][i] + p[4][i]) - (p[1][i] + p[2][i]) <= 51
    <2> TAKE i \in 1..3
    <2>1. PICK q \in 0..255, r \in 0..255, u \in 0..255, v \in 0..255 :
              q = p[1][i] /\ r = p[2][i] /\ u = p[3][i] /\ v = p[4][i]
      BY FourBytes, ZenonT(60)
    <2>2. (u + v) \div 2 - (q + r) \div 2 <= 25
      BY <1>1, <1>8, <2>1
    <2>3. (u + v) - (q + r) <= 51
      BY <2>2
    <2>4. QED
      BY <2>1, <2>3
  <1>10. \A a \in 1..4 : p[a][1] \in Int /\ p[a][2] \in Int /\ p[a][3] \in Int
    <2>1. 1 \in 1..3 /\ 2 \in 1..3 /\ 3 \in 1..3 /\ \A v \in 0..255 : v \in Int
      OBVIOUS
    <2>2. QED
      BY <1>2, <2>1, Zenon
  <1> DEFINE S(c1) == 38 * c1[1] + 76 * c1[2] + 14 * c1[3]
  <1>11. (S(p[3]) + S(p[4])) - (S(p[1]) + S(p[2])) <= 51 * 128
    <2>1. /\ p[1][1] \in Int /\ p[1][2] \in Int /\ p[1][3] \in Int
          /\ p[2][1] \in Int /\ p[2][2] \in Int /\ p[2][3] \in Int
      <3>1. 1 \in 1..4 /\ 2 \in 1..4
        OBVIOUS
      <3>2. QED
        BY <1>10, <3>1, Zenon
    <2>2. /\ p[3][1] \in Int /\ p[3][2] \in Int /\ p[3][3] \in Int
          /\ p[4][1] \in Int /\ p[4][2] \in Int /\ p[4][3] \in Int
      <3>1. 3 \in 1..4 /\ 4 \in 1..4
        OBVIOUS
      <3>2. QED
        BY <1>10, <3>1, Zenon
    <2>3. PICK x, y, z :
              /\ x = (p[3][1] + p[4][1]) - (p[1][1] + p[2][1])
              /\ y = (p[3][2] + p[4][2]) - (p[1][2] + p[2][2])
              /\ z = (p[3][3] + p[4][3]) - (p[1][3] + p[2][3])
      OBVIOUS
    <2>4. /\ x \in Int /\ y \in Int /\ z \in Int
          /\ x <= 51 /\ y <= 51 /\ z <= 51
      BY <1>9, <2>1, <2>2, <2>3
    <2>5. (S(p[3]) + S(p[4])) - (S(p[1]) + S(p[2])) = 38 * x + 76 * y + 14 * z
      BY <2>1, <2>2, <2>3
    <2> HIDE DEF S
    <2>6. QED
      BY <2>4, <2>5
  <1>12. ASSUME NEW a \in 1..4
         PROVE  S(p[a]) \in Int /\ Luma(p[a]) \in Int /\ 128 * Luma(p[a]) <= S(p[a]) /\ S(p[a]) < 128 * Luma(p[a]) + 128
    <2>1. S(p[a]) \in Int /\ Luma(p[a]) = S(p[a]) \div 128
      BY <1>10 DEF Luma
    <2> HIDE DEF S
    <2>2. QED
      BY <2>1
  <1> HIDE DEF S
  <1>13. QED
    <2>1. 1 \in 1..4 /\ 2 \in 1..4 /\ 3 \in 1..4 /\ 4 \in 1..4
      OBVIOUS
    <2>2. PICK s1, s2, s3, s4 : s1 = S(p[1]) /\ s2 = S(p[2]) /\ s3 = S(p[3]) /\ s4 = S(p[4])
      OBVIOUS
    <2>3. PICK l1, l2, l3, l4 : l1 = Luma(p[1]) /\ l2 = Luma(p[2]) /\ l3 = Luma(p[3]) /\ l4 = Luma(p[4])
      OBVIOUS
    <2>4. s1 \in Int /\ l1 \in Int /\ 128 * l1 <= s1 /\ s1 < 128 * l1 + 128
      BY <1>12, <2>1, <2>2, <2>3, Zenon
    <2>5. s2 \in Int /\ l2 \in Int /\ 128 * l2 <= s2 /\ s2 < 128 * l2 + 128
      BY <1>12, <2>1, <2>2, <2>3, Zenon
    <2>6. s3 \in Int /\ l3 \in Int /\ 128 * l3 <= s3 /\ s3 < 128 * l3 + 128
      BY <1>12, <2>1, <2>2, <2>3, Zenon
    <2>7. s4 \in Int /\ l4 \in Int /\ 128 * l4 <= s4 /\ s4 < 128 * l4 + 128
      BY <1>12, <2>1, <2>2, <2>3, Zenon
    <2>8. l4 - l1 >= 97 /\ l2 <= l3 /\ (s3 + s4) - (s1 + s2) <= 51 * 128
      BY <1>11, <2>2, <2>3
    <2>9. QED
      BY <2>4, <2>5, <2>6, <2>7, <2>8

LEMMA SamePaint ==
    ASSUME NEW c, NEW e, SameColours(c, e), NEW d
    PROVE  /\ calculatePaintColors59T(d, e) = calculatePaintColors59T(d, c)
           /\ calculatePaintColors58H(d, e) = calculatePaintColors58H(d, c)
           /\ PackedColour(e[1]) = PackedColour(c[1]) /\ PackedColour(e[2]) = PackedColour(c[2])
  <1>1. \A by : Shifted(e[1], by) = Shifted(c[1], by) /\ Shifted(e[2], by) = Shifted(c[2], by)
    BY DEF SameColours, Shifted, Map3
  <1>2. PackedColour(e[1]) = PackedColour(c[1]) /\ PackedColour(e[2]) = PackedColour(c[2])
    BY DEF SameColours, PackedColour
  <1>3. QED
    BY <1>1, <1>2 DEF calculatePaintColors59T, calculatePaintColors58H

LEMMA OtherPaint ==
    ASSUME NEW c, NEW d, NEW i \in 0..3
    PROVE  calculatePaintColors58H(d, <<c[2], c[1]>>)[((i + 2) % 4) + 1] = calculatePaintColors58H(d, c)[i + 1]
  <1>1. CASE i = 0
    BY <1>1 DEF calculatePaintColors58H
  <1>2. CASE i = 1
    BY <1>2 DEF calculatePaintColors58H
  <1>3. CASE i = 2
    BY <1>3 DEF calculatePaintColors58H
  <1>4. CASE i = 3
    BY <1>4 DEF calculatePaintColors58H
  <1>5. QED
    BY <1>1, <1>2, <1>3, <1>4

LEMMA TDecoded ==
    ASSUME NEW c, Nibbles(c), NEW d \in 0..7, NEW hi, NEW idx, IndicesAre(hi, idx)
    PROVE  DecodeT(stuff59bits(PackT(c, d)), hi) = [k \in 0..15 |-> calculatePaintColors59T(d, c)[idx[k] + 1]]
  <1> DEFINE w == stuff59bits(PackT(c, d))
  <1>1. SameColours(c, TColours(w)) /\ TCodeword(w) = d
    BY TFields
  <1> HIDE DEF w
  <1>2. DecodeT(w, hi) = [k \in 0..15 |-> calculatePaintColors59T(TCodeword(w), TColours(w))[IndexAt(hi, k) + 1]]
    BY DEF DecodeT, TCodeword, TColours
  <1>3. calculatePaintColors59T(TCodeword(w), TColours(w)) = calculatePaintColors59T(d, c)
    BY <1>1, SamePaint
  <1>4. QED
    BY <1>2, <1>3 DEF IndicesAre, w

LEMMA HDecoded ==
    ASSUME NEW c, Nibbles(c), NEW d \in 0..7, NEW hi, NEW idx, IndicesAre(hi, idx),
           PackedColour(c[1]) >= PackedColour(c[2]) <=> d % 2 = 1
    PROVE  DecodeH(stuff58bits(PackH(c, d)), hi) = [k \in 0..15 |-> calculatePaintColors58H(d, c)[idx[k] + 1]]
  <1> DEFINE w == stuff58bits(PackH(c, d))
             e == HColours(w)
             codeword == 4 * w[2] + 2 * w[0] + Flag(PackedColour(e[1]) >= PackedColour(e[2]))
  <1>1. SameColours(c, e) /\ 4 * w[2] + 2 * w[0] = 2 * (d \div 2)
    BY HFields
  <1>2. w[2] \in Bits /\ w[0] \in Bits
    <2>1. w \in Word
      BY HFields, StuffedH
    <2> HIDE DEF w
    <2>2. QED
      BY <2>1 DEF Word
  <1>3. DecodeH(w, hi) = [k \in 0..15 |-> calculatePaintColors58H(codeword, e)[IndexAt(hi, k) + 1]]
    <2> HIDE DEF w
    <2> QED BY DEF DecodeH, HColours
  <1> HIDE DEF w, e
  <1>4. codeword = d
    <2>1. Flag(PackedColour(e[1]) >= PackedColour(e[2])) = d % 2
      BY <1>1, SamePaint DEF Flag
    <2>2. QED
      BY <1>1, <1>2, <2>1 DEF Bits
  <1> HIDE DEF codeword
  <1>5. calculatePaintColors58H(codeword, e) = calculatePaintColors58H(d, c)
    BY <1>1, <1>4, SamePaint
  <1>6. QED
    BY <1>3, <1>5 DEF IndicesAre, w

LEMMA THRead ==
    ASSUME EncodeTH
    PROVE  SameBlock(made', Meaning(file'))
  <1>block. PICK p \in {insertionSort(x) : x \in THBlocks} :
            LET cut == minSumRangeIdx(p)
            IN  /\ HighContrast(p)
                /\ \E d \in 0..7, idx \in IndexSets :
                     LET b == compressBlockTH(p, cut, d, idx)
                     IN  /\ made' = [mode |-> IF TMode(p, cut) THEN "T" ELSE "H", pixels |-> [k \in 0..15 |-> b.paint[idx[k] + 1]]]
                         /\ file' = ColourFile(Bswap(b.lo), Bswap(b.hi))
    BY DEF EncodeTH
  <1>sorted. p \in RGBBlock /\ \A m, n \in 0..15 : m <= n => Luma(p[m]) <= Luma(p[n])
    <2>1. PICK x \in THBlocks : p = insertionSort(x)
      OBVIOUS
    <2>2. x \in RGBBlock
      BY InputsAssumption, Zenon DEF RGBBlock, RGB
    <2>3. QED
      BY <2>1, <2>2, SortedBlock
  <1>cut. PICK cut \in 0..14 : cut = minSumRangeIdx(p)
    BY <1>sorted, CutIs
  <1>1. PICK d \in 0..7, idx \in IndexSets :
            LET b == compressBlockTH(p, cut, d, idx)
            IN  /\ HighContrast(p)
                /\ made' = [mode |-> IF TMode(p, cut) THEN "T" ELSE "H", pixels |-> [k \in 0..15 |-> b.paint[idx[k] + 1]]]
                /\ file' = ColourFile(Bswap(b.lo), Bswap(b.hi))
    BY <1>block, <1>cut, Zenon
  <1> DEFINE b == compressBlockTH(p, cut, d, idx)
             t == TMode(p, cut)
             m == mid_rgb(p, cut)
             c == compressColor(m, t)
             s == SearchIndices(idx)
  <1>2. idx \in [0..15 -> 0..3]
    BY InputsAssumption, Zenon
  <1>3. Nibbles(c)
    <2>1. t \in BOOLEAN
      BY DEF TMode
    <2>2. \A i \in 1..3 : m[1][i] \in 0..255 /\ m[2][i] \in 0..255
      BY <1>sorted, MidBytes
    <2> HIDE DEF t, m
    <2>3. QED
      BY <2>1, <2>2, CompressedNibbles
  <1>4. /\ IndicesAre(indexConversion(s), idx) /\ indexConversion(s) \in Word
        /\ IndicesAre(indexConversion(OtherPair(s)), [k \in 0..15 |-> (idx[k] + 2) % 4])
        /\ indexConversion(OtherPair(s)) \in Word
    BY <1>2, THIndices
  <1>5. CASE t
    <2> DEFINE w == stuff59bits(PackT(c, d))
    <2>1. b.paint = calculatePaintColors59T(d, c) /\ b.lo = w /\ b.hi = indexConversion(s)
      <3> HIDE DEF s, w
      <3> QED BY <1>5 DEF compressBlockTH, s, w
    <2>2. w \in Word /\ ModeOf(w) = "T"
      BY <1>3, TFields, StuffedT
    <2>3. DecodeT(w, indexConversion(s)) = [k \in 0..15 |-> calculatePaintColors59T(d, c)[idx[k] + 1]]
      <3> HIDE DEF c, s
      <3> QED BY <1>3, <1>4, TDecoded
    <2> HIDE DEF w, c, s, t
    <2>4. made'.mode = "T" /\ made'.pixels = DecodeT(w, indexConversion(s)) /\ file' = ColourFile(Bswap(w), Bswap(indexConversion(s)))
      <3> HIDE DEF b
      <3>1. made' = [mode |-> IF t THEN "T" ELSE "H", pixels |-> [k \in 0..15 |-> b.paint[idx[k] + 1]]]
        BY <1>1 DEF b, t
      <3>2. file' = ColourFile(Bswap(b.lo), Bswap(b.hi))
        BY <1>1 DEF b
      <3>3. QED
        BY <1>5, <2>1, <2>3, <3>1, <3>2
    <2>5. Bswap(Bswap(w)) = w /\ Bswap(Bswap(indexConversion(s))) = indexConversion(s)
      BY <1>4, <2>2, BswapTwice
    <2>6. QED
      BY <2>2, <2>4, <2>5, ColourMeaning DEF SameBlock
  <1>6. CASE ~t
    <2> DEFINE sw == ColoursSwap(c, d)
               c2 == IF sw THEN <<c[2], c[1]>> ELSE c
               i2 == IF sw THEN [k \in 0..15 |-> (idx[k] + 2) % 4] ELSE idx
               w == stuff58bits(PackH(c2, d))
               hi == indexConversion(IF sw THEN OtherPair(s) ELSE s)
    <2>1. b.paint = calculatePaintColors58H(d, c) /\ b.lo = w /\ b.hi = hi
      <3> HIDE DEF s, w, hi
      <3> QED BY <1>6 DEF compressBlockTH, s, w, hi
    <2>2. PackedColour(c[1]) # PackedColour(c[2])
      <3>1. t = FALSE
        BY <1>6 DEF TMode
      <3>2. PICK e : e = <<p[0], p[cut], p[cut + 1], p[15]>>
        OBVIOUS
      <3>3. e \in [1..4 -> RGB]
        BY <1>sorted, <3>2 DEF RGBBlock
      <3>4. Luma(e[4]) - Luma(e[1]) >= 97 /\ Luma(e[2]) <= Luma(e[3])
        <4>1. Luma(p[15]) - Luma(p[0]) >= 97
          BY <1>1 DEF HighContrast
        <4>2. Luma(p[cut]) <= Luma(p[cut + 1])
          BY <1>sorted
        <4>3. QED
          BY <3>2, <4>1, <4>2
      <3>5. MiddlesOf(m, e)
        <4>1. ~Swapped(p, cut) /\ ~TMode(p, cut)
          BY <1>6 DEF TMode
        <4>2. \A i \in 1..3 : m[1][i] = (p[0][i] + p[cut][i]) \div 2 /\ m[2][i] = (p[cut + 1][i] + p[15][i]) \div 2
          BY <4>1, MidsAre
        <4> HIDE DEF m
        <4>3. QED
          BY <3>2, <4>2 DEF MiddlesOf
      <3> HIDE DEF t, m
      <3>6. PackedColour(compressColor(m, FALSE)[1]) # PackedColour(compressColor(m, FALSE)[2])
        BY <3>3, <3>4, <3>5, HColoursDiffer
      <3>7. QED
        BY <3>1, <3>6
    <2> HIDE DEF c, s, t
    <2>3. PackedColour(c[1]) \in Int /\ PackedColour(c[2]) \in Int
      <3>1. /\ c[1][1] \in 0..15 /\ c[1][2] \in 0..15 /\ c[1][3] \in 0..15
            /\ c[2][1] \in 0..15 /\ c[2][2] \in 0..15 /\ c[2][3] \in 0..15
        BY <1>3 DEF Nibbles
      <3>2. PICK x, y, z, u, v, r : /\ x = c[1][1] /\ y = c[1][2] /\ z = c[1][3]
                                    /\ u = c[2][1] /\ v = c[2][2] /\ r = c[2][3]
        OBVIOUS
      <3>3. x \in Int /\ y \in Int /\ z \in Int /\ u \in Int /\ v \in Int /\ r \in Int
        BY <3>1, <3>2
      <3>4. PackedColour(c[1]) = 256 * x + 16 * y + z /\ PackedColour(c[2]) = 256 * u + 16 * v + r
        BY <3>2 DEF PackedColour
      <3>5. QED
        BY <3>3, <3>4
    <2>4. Nibbles(c2) /\ (PackedColour(c2[1]) >= PackedColour(c2[2]) <=> d % 2 = 1)
      <3>1. CASE sw
        <4>1. c2[1] = c[2] /\ c2[2] = c[1]
          BY <3>1
        <4> HIDE DEF c2
        <4>2. Nibbles(c2)
          BY <1>3, <4>1 DEF Nibbles
        <4>3. QED
          BY <2>2, <2>3, <3>1, <4>1, <4>2 DEF ColoursSwap
      <3>2. CASE ~sw
        <4>1. c2 = c
          BY <3>2
        <4> HIDE DEF c2
        <4>2. QED
          BY <1>3, <2>3, <3>2, <4>1 DEF ColoursSwap
      <3>3. QED
        BY <3>1, <3>2
    <2>5. IndicesAre(hi, i2) /\ hi \in Word
      <3> HIDE DEF sw
      <3>1. CASE sw
        BY <1>4, <3>1
      <3>2. CASE ~sw
        BY <1>4, <3>2
      <3>3. QED
        BY <3>1, <3>2
    <2>6. \A k \in 0..15 : calculatePaintColors58H(d, c2)[i2[k] + 1] = calculatePaintColors58H(d, c)[idx[k] + 1]
      <3> HIDE DEF sw
      <3>1. CASE sw
        <4>1. c2 = <<c[2], c[1]>> /\ \A k \in 0..15 : i2[k] = (idx[k] + 2) % 4
          BY <3>1
        <4> HIDE DEF c2, i2
        <4>2. \A k \in 0..15 : idx[k] \in 0..3
          BY <1>2
        <4>3. QED
          BY <4>1, <4>2, OtherPaint
      <3>2. CASE ~sw
        BY <3>2
      <3>3. QED
        BY <3>1, <3>2
    <2>7. w \in Word /\ ModeOf(w) = "H"
      <3> HIDE DEF c2
      <3> QED BY <2>4, HFields, StuffedH
    <2>8. DecodeH(w, hi) = [k \in 0..15 |-> calculatePaintColors58H(d, c2)[i2[k] + 1]]
      <3> HIDE DEF c2, i2, hi
      <3> QED BY <2>4, <2>5, HDecoded
    <2> HIDE DEF w, hi, c2, i2, sw
    <2>9. made'.mode = "H" /\ made'.pixels = DecodeH(w, hi) /\ file' = ColourFile(Bswap(w), Bswap(hi))
      <3> HIDE DEF b
      <3>1. made' = [mode |-> IF t THEN "T" ELSE "H", pixels |-> [k \in 0..15 |-> b.paint[idx[k] + 1]]]
        BY <1>1 DEF b, t
      <3>2. file' = ColourFile(Bswap(b.lo), Bswap(b.hi))
        BY <1>1 DEF b
      <3>3. [k \in 0..15 |-> b.paint[idx[k] + 1]] = DecodeH(w, hi)
        BY <2>1, <2>6, <2>8
      <3>4. QED
        BY <1>6, <2>1, <3>1, <3>2, <3>3
    <2>10. Bswap(Bswap(w)) = w /\ Bswap(Bswap(hi)) = hi
      BY <2>5, <2>7, BswapTwice
    <2>11. QED
      BY <2>7, <2>9, <2>10, ColourMeaning DEF SameBlock
  <1>7. QED
    BY <1>5, <1>6
-----------------------------------------------------------------------------
(* Smallest and largest values                                             *)

LEMMA LeastOfBytes ==
    ASSUME NEW X, X \subseteq 0..255, X # {}
    PROVE  /\ \E m \in X : \A k \in X : m <= k
           /\ \E m \in X : \A k \in X : m >= k
  <1>1. \E m \in X : \A k \in X : m <= k
    <2>1. X \subseteq Nat
      OBVIOUS
    <2>2. QED
      BY <2>1, LeastNumber
  <1> DEFINE Y == {255 - k : k \in X}
  <1>2. Y \subseteq Nat /\ Y # {}
    <2>1. \A k \in X : 255 - k \in Nat
      OBVIOUS
    <2>2. PICK k : k \in X
      OBVIOUS
    <2>3. 255 - k \in Y
      BY <2>2
    <2>4. QED
      BY <2>1, <2>3
  <1>3. PICK n \in Y : \A k \in Y : n <= k
    <2> HIDE DEF Y
    <2> QED BY <1>2, LeastNumber
  <1>4. PICK m \in X : n = 255 - m
    OBVIOUS
  <1>5. \A k \in X : m >= k
    <2> TAKE k \in X
    <2>1. 255 - k \in Y /\ k \in Int /\ m \in Int
      OBVIOUS
    <2> HIDE DEF Y
    <2>2. n <= 255 - k
      BY <1>3, <2>1
    <2>3. QED
      BY <1>4, <2>1, <2>2
  <1>6. QED
    BY <1>1, <1>5

LEMMA Extremes ==
    ASSUME NEW a \in [0..15 -> 0..255]
    PROVE  /\ Smallest(a) \in 0..255 /\ Largest(a) \in 0..255
           /\ \A k \in 0..15 : Smallest(a) <= a[k] /\ a[k] <= Largest(a)
           /\ RangeOf(a) \in 0..255 /\ Mid(a) \in 0..255
  <1> DEFINE X == {a[k] : k \in 0..15}
  <1>1. X \subseteq 0..255 /\ a[0] \in X
    OBVIOUS
  <1>2. X # {}
    BY <1>1
  <1>3. \A k \in 0..15 : a[k] \in X
    OBVIOUS
  <1>4. (\E m \in X : \A k \in X : m <= k) /\ (\E m \in X : \A k \in X : m >= k)
    <2> HIDE DEF X
    <2> QED BY <1>1, <1>2, LeastOfBytes
  <1>5. Smallest(a) = CHOOSE v \in X : \A k \in 0..15 : v <= a[k]
    BY DEF Smallest
  <1>6. Largest(a) = CHOOSE v \in X : \A k \in 0..15 : v >= a[k]
    BY DEF Largest
  <1> HIDE DEF X
  <1>7. (\E v \in X : \A k \in 0..15 : v <= a[k]) /\ (\E v \in X : \A k \in 0..15 : v >= a[k])
    BY <1>3, <1>4
  <1>8. Smallest(a) \in X /\ \A k \in 0..15 : Smallest(a) <= a[k]
    BY <1>5, <1>7
  <1>9. Largest(a) \in X /\ \A k \in 0..15 : Largest(a) >= a[k]
    BY <1>6, <1>7
  <1>10. Smallest(a) \in 0..255 /\ Largest(a) \in 0..255
    BY <1>1, <1>8, <1>9
  <1>11. Smallest(a) <= a[0] /\ a[0] <= Largest(a) /\ a[0] \in 0..255 /\ \A k \in 0..15 : a[k] \in 0..255
    BY <1>8, <1>9, <1>10
  <1>12. RangeOf(a) \in 0..255 /\ Mid(a) \in 0..255
    <2>1. PICK l \in 0..255, h \in 0..255, v \in 0..255 : l = Smallest(a) /\ h = Largest(a) /\ v = a[0]
      BY <1>10, <1>11
    <2>2. l <= v /\ v <= h
      BY <1>11, <2>1
    <2>3. h - l \in 0..255 /\ l + (h - l) \div 2 \in 0..255
      BY <2>2
    <2>4. QED
      BY <2>1, <2>3 DEF RangeOf, Mid
  <1>13. QED
    BY <1>8, <1>9, <1>10, <1>11, <1>12
-----------------------------------------------------------------------------
(* Words of 64 bits                                                        *)

Word64 == [0..63 -> Bits]

LEMMA Or64IsWord ==
    ASSUME NEW parts
    PROVE  Or64(parts) \in Word64
  BY DEF Or64, OrN, Word64, Bits

LEMMA Bswap64Twice ==
    ASSUME NEW w \in Word64
    PROVE  Bswap64(w) \in Word64 /\ Bswap64(Bswap64(w)) = w
  <1>1. \A i \in 0..63 : /\ 8 * (7 - i \div 8) + (i % 8) \in 0..63
                         /\ LET j == 8 * (7 - i \div 8) + (i % 8) IN 8 * (7 - j \div 8) + (j % 8) = i
    OBVIOUS
  <1>2. Bswap64(w) \in Word64
    BY <1>1 DEF Bswap64, Word64
  <1>3. \A i \in 0..63 : Bswap64(Bswap64(w))[i] = w[i]
    BY <1>1 DEF Bswap64
  <1>4. Bswap64(Bswap64(w)) = [i \in 0..63 |-> Bswap64(Bswap64(w))[i]]
    BY DEF Bswap64
  <1>5. w = [i \in 0..63 |-> w[i]]
    BY DEF Word64
  <1>6. QED
    BY <1>2, <1>3, <1>4, <1>5

\* Positions s of fields of m bits, one for every pixel, apart and beside those of H.
PixelPlaces(s, m, H) ==
    /\ m \in 1..8
    /\ \A k \in 0..15 : s[k] \in Nat /\ s[k] + m <= 64
    /\ \A i, j \in 0..15 : i = j \/ s[i] + m <= s[j] \/ s[j] + m <= s[i]
    /\ \A x \in H : \A k \in 0..15 : x[2] + x[3] <= s[k] \/ s[k] + m <= x[2]

FitIn(v, m) == \A k \in 0..15 : v[k] \in Nat /\ v[k] < PowersOfTwo[m]

PixelWordHolds(w, H, v, s, m) ==
    /\ w \in Word64
    /\ \A x \in H : Field(w, x[2], x[3]) = x[1]
    /\ \A k \in 0..15 : Field(w, s[k], m) = v[k]

\* What a word of some fields H and one field for every pixel holds.
LEMMA PixelWord ==
    ASSUME NEW H, Layout(64, H), NEW v, NEW s, NEW m, PixelPlaces(s, m, H),
           FitIn(v, m), NEW w, w = Or64(PartsOf(H) \union PartPerPixel(v, s))
    PROVE  PixelWordHolds(w, H, v, s, m)
  <1> DEFINE P == FieldPerPixel(v, s, m)
             L == H \union P
  <1>1. w = OrN(64, PartsOf(L))
    <2>1. PartsOf(L) = PartsOf(H) \union PartsOf(P)
      BY PartsOfUnion, Zenon
    <2>2. PartsOf(P) = PartPerPixel(v, s)
      BY PartsOfFields, Zenon
    <2>3. QED
      BY <2>1, <2>2 DEF Or64
  <1>2. \A x \in P : \E k \in 0..15 : x = <<v[k], s[k], m>>
    BY DEF FieldPerPixel
  <1>3. \A k \in 0..15 : <<v[k], s[k], m>> \in P
    BY DEF FieldPerPixel
  <1> HIDE DEF P
  <1>4. \A x \in L : /\ x[1] \in Nat /\ x[2] \in Nat /\ x[3] \in 1..8
                     /\ x[1] < PowersOfTwo[x[3]] /\ x[2] + x[3] <= 64
    <2>1. ASSUME NEW x \in P
          PROVE  /\ x[1] \in Nat /\ x[2] \in Nat /\ x[3] \in 1..8
                 /\ x[1] < PowersOfTwo[x[3]] /\ x[2] + x[3] <= 64
      <3>1. PICK k \in 0..15 : x[1] = v[k] /\ x[2] = s[k] /\ x[3] = m
        BY <1>2
      <3>2. QED
        BY <3>1 DEF PixelPlaces, FitIn
    <2>2. QED
      BY <2>1 DEF Layout
  <1>5. \A x, y \in L : x = y \/ x[2] + x[3] <= y[2] \/ y[2] + y[3] <= x[2]
    <2>1. ASSUME NEW x \in P, NEW y \in P
          PROVE  x = y \/ x[2] + x[3] <= y[2] \/ y[2] + y[3] <= x[2]
      <3>1. PICK k \in 0..15 : x = <<v[k], s[k], m>>
        BY <1>2
      <3>2. PICK l \in 0..15 : y = <<v[l], s[l], m>>
        BY <1>2
      <3>3. QED
        BY <3>1, <3>2 DEF PixelPlaces
    <2>2. ASSUME NEW x \in H, NEW y \in P
          PROVE  x[2] + x[3] <= y[2] \/ y[2] + y[3] <= x[2]
      <3>1. PICK l \in 0..15 : y[2] = s[l] /\ y[3] = m
        BY <1>2
      <3>2. QED
        BY <3>1 DEF PixelPlaces
    <2>3. QED
      BY <2>1, <2>2 DEF Layout
  <1>6. Layout(64, L)
    BY <1>4, <1>5 DEF Layout
  <1>7. H \subseteq L /\ P \subseteq L
    OBVIOUS
  <1> HIDE DEF L
  <1>8. \A x \in L : Field(w, x[2], x[3]) = x[1]
    BY <1>1, <1>6, FieldIsRead
  <1>9. \A k \in 0..15 : Field(w, s[k], m) = v[k]
    BY <1>3, <1>7, <1>8
  <1>10. w \in Word64
    BY Or64IsWord
  <1>11. QED
    BY <1>7, <1>8, <1>9, <1>10 DEF PixelWordHolds
-----------------------------------------------------------------------------
(* The alpha word of ETC2                                                  *)

\* The six multipliers stand for those of all sixteen tables, and fit 4 bits.
LEMMA SameMultiplier ==
    ASSUME NEW r \in 0..255, NEW sel \in 0..15
    PROVE  /\ Multiplier(r, g_alphaRange_SIMD[GetMulSel(sel)]) = Multiplier(r, sel)
           /\ Multiplier(r, sel) \in 1..15
  <1> DEFINE g(s) == g_alphaRange(s)
  <1>1. /\ g(0) = 2193 /\ g(1) = 2530 /\ g(2) = 2530 /\ g(3) = 2530 /\ g(4) = 2741 /\ g(5) = 2990
        /\ g(6) = 2990 /\ g(7) = 2990 /\ g(8) = 3289 /\ g(9) = 3289 /\ g(10) = 3289 /\ g(11) = 3289
        /\ g(12) = 3289 /\ g(13) = 3289 /\ g(14) = 3655 /\ g(15) = 3655
    BY DEF g_alphaRange, g_alpha
  <1> HIDE DEF g
  <1>2. /\ g(g_alphaRange_SIMD[GetMulSel(sel)]) = g(sel)
        /\ g(sel) \in 0..3655
    <2>1. CASE sel = 0
      BY <1>1, <2>1 DEF g_alphaRange_SIMD, GetMulSel
    <2>2. CASE sel \in 1..3
      BY <1>1, <2>2 DEF g_alphaRange_SIMD, GetMulSel
    <2>3. CASE sel = 4
      BY <1>1, <2>3 DEF g_alphaRange_SIMD, GetMulSel
    <2>4. CASE sel \in 5..7
      BY <1>1, <2>4 DEF g_alphaRange_SIMD, GetMulSel
    <2>5. CASE sel \in 8..13
      BY <1>1, <2>5 DEF g_alphaRange_SIMD, GetMulSel
    <2>6. CASE sel \in 14..15
      BY <1>1, <2>6 DEF g_alphaRange_SIMD, GetMulSel
    <2>7. QED
      BY <2>1, <2>2, <2>3, <2>4, <2>5, <2>6
  <1>3. Multiplier(r, g_alphaRange_SIMD[GetMulSel(sel)]) = Multiplier(r, sel)
    BY <1>2 DEF Multiplier, g
  <1>5. (r * g(sel)) \div 65536 + 1 \in 1..15
    <2>1. PICK x \in 0..3655 : x = g(sel)
      BY <1>2
    <2>2. PICK y : y = r * x
      OBVIOUS
    <2>3. y \in Nat /\ y <= 255 * x
      BY <2>2, SMTT(30)
    <2>4. y \div 65536 + 1 \in 1..15
      BY <2>3, SMTT(30)
    <2>5. QED
      BY <2>1, <2>2, <2>4
  <1>6. QED
    BY <1>3, <1>5 DEF Multiplier, g

LEMMA NearestIs ==
    ASSUME NEW v \in 0..255, NEW base \in 0..255, NEW mul \in 0..15, NEW sel \in 0..15
    PROVE  NearestModifier(v, base, mul, sel) \in 0..7
  <1> DEFINE D == [j \in 0..7 |-> Distance(v, Alpha(base, mul, sel, j))]
             X == {8 * D[j] + j : j \in 0..7}
  <1>1. \A j \in 0..7 : D[j] \in Nat
    <2> TAKE j \in 0..7
    <2>1. Alpha(base, mul, sel, j) \in 0..255
      <3>1. g_alpha[sel + 1][j + 1] \in Int
        <4>1. \A s \in 1..16 : \A i \in 1..8 : g_alpha[s][i] \in Int
          BY DEF g_alpha
        <4>2. QED
          BY <4>1
      <3>2. PICK z \in Int : z = base + mul * g_alpha[sel + 1][j + 1]
        BY <3>1
      <3>3. Clamp(0, z, 255) \in 0..255
        BY DEF Clamp
      <3>4. QED
        BY <3>2, <3>3 DEF Alpha
    <2>2. PICK u \in 0..255 : u = Alpha(base, mul, sel, j)
      BY <2>1
    <2>3. (v - u) * (v - u) \in Nat
      BY SMTT(30)
    <2>4. QED
      BY <2>2, <2>3 DEF Distance
  <1>2. NearestModifier(v, base, mul, sel)
          = CHOOSE j \in 0..7 : \A i \in 0..7 : D[j] < D[i] \/ (D[j] = D[i] /\ j <= i)
    BY DEF NearestModifier
  <1> HIDE DEF D
  <1>3. X \subseteq Nat /\ X # {}
    <2>1. 8 * D[0] + 0 \in X
      OBVIOUS
    <2>2. QED
      BY <1>1, <2>1
  <1>4. PICK m \in X : \A k \in X : m <= k
    <2> HIDE DEF X
    <2> QED BY <1>3, LeastNumber
  <1>5. PICK j \in 0..7 : m = 8 * D[j] + j
    OBVIOUS
  <1>6. \A i \in 0..7 : D[j] < D[i] \/ (D[j] = D[i] /\ j <= i)
    <2> TAKE i \in 0..7
    <2>1. 8 * D[i] + i \in X
      OBVIOUS
    <2> HIDE DEF X
    <2>2. 8 * D[j] + j <= 8 * D[i] + i
      BY <1>4, <1>5, <2>1
    <2>3. QED
      BY <1>1, <2>2
  <1>7. QED
    BY <1>2, <1>6

EacParts(base, mul, sel, idx) ==
    {<<base, 56>>, <<mul, 52>>, <<sel, 48>>} \union {<<idx[k], 45 - 3 * k>> : k \in 0..15}
EacAlphas(base, mul, sel, idx) == [k \in 0..15 |-> Alpha(base, mul, sel, idx[k])]
EacPlaces == [k \in 0..15 |-> 45 - 3 * k]

LEMMA EacRead ==
    ASSUME NEW base \in 0..255, NEW mul \in 0..15, NEW sel \in 0..15, NEW idx \in [0..15 -> 0..7],
           NEW w, w = Or64(EacParts(base, mul, sel, idx))
    PROVE  DecodeAlpha(Bswap64(w)) = EacAlphas(base, mul, sel, idx)
  <1> DEFINE H == {<<base, 56, 8>>, <<mul, 52, 4>>, <<sel, 48, 4>>}
             s == EacPlaces
  <1>1. Layout(64, H)
    <2>1. \A x \in H : /\ x[1] \in Nat /\ x[2] \in Nat /\ x[3] \in 1..8
                       /\ x[1] < PowersOfTwo[x[3]] /\ x[2] + x[3] <= 64
      BY DEF PowersOfTwo
    <2>2. \A x, y \in H : x = y \/ x[2] + x[3] <= y[2] \/ y[2] + y[3] <= x[2]
      OBVIOUS
    <2>3. QED
      BY <2>1, <2>2 DEF Layout
  <1>2. \A k \in 0..15 : s[k] = 45 - 3 * k
    BY DEF EacPlaces
  <1>3. PixelPlaces(s, 3, H)
    <2> HIDE DEF s
    <2>1. \A k \in 0..15 : s[k] \in Nat /\ s[k] + 3 <= 48
      BY <1>2
    <2>2. \A i, j \in 0..15 : i = j \/ s[i] + 3 <= s[j] \/ s[j] + 3 <= s[i]
      BY <1>2
    <2>3. \A x \in H : 48 <= x[2]
      OBVIOUS
    <2>4. \A x \in H : \A k \in 0..15 : s[k] + 3 <= x[2]
      <3>1. \A x \in H : x[2] \in Nat
        OBVIOUS
      <3> HIDE DEF H
      <3>2. QED
        BY <2>1, <2>3, <3>1, SMT
    <2>5. \A k \in 0..15 : s[k] \in Nat /\ s[k] + 3 <= 64
      BY <2>1, SMT
    <2> HIDE DEF H
    <2>6. QED
      BY <2>2, <2>4, <2>5, 3 \in 1..8, ZenonT(30) DEF PixelPlaces
  <1>4. FitIn(idx, 3)
    BY DEF PowersOfTwo, FitIn
  <1>5. PartsOf(H) = {<<base, 56>>, <<mul, 52>>, <<sel, 48>>}
    BY DEF PartsOf
  <1>6. PartPerPixel(idx, s) = {<<idx[k], 45 - 3 * k>> : k \in 0..15}
    <2> HIDE DEF s
    <2> QED BY <1>2 DEF PartPerPixel
  <1>7. w = Or64(PartsOf(H) \union PartPerPixel(idx, s))
    BY <1>5, <1>6 DEF EacParts
  <1>8. <<base, 56, 8>> \in H /\ <<mul, 52, 4>> \in H /\ <<sel, 48, 4>> \in H
    OBVIOUS
  <1> HIDE DEF H, s
  <1>9. /\ w \in Word64
        /\ \A x \in H : Field(w, x[2], x[3]) = x[1]
        /\ \A k \in 0..15 : Field(w, s[k], 3) = idx[k]
    <2>1. PixelWordHolds(w, H, idx, s, 3)
      BY <1>1, <1>3, <1>4, <1>7, PixelWord
    <2>2. QED
      BY <2>1 DEF PixelWordHolds
  <1>10. /\ Field(w, 56, 8) = base /\ Field(w, 52, 4) = mul /\ Field(w, 48, 4) = sel
         /\ \A k \in 0..15 : Field(w, 45 - 3 * k, 3) = idx[k]
    BY <1>2, <1>8, <1>9
  <1>11. Bswap64(Bswap64(w)) = w
    BY <1>9, Bswap64Twice
  <1>12. QED
    BY <1>10, <1>11 DEF DecodeAlpha, EacAlphas

LEMMA SolidAlphaRead ==
    ASSUME NEW v \in 0..255
    PROVE  DecodeAlpha(SolidAlphaWord(v)) = [k \in 0..15 |-> v]
  <1> DEFINE L == {<<v, 0, 8>>}
             word == OrN(64, PartsOf(L))
             w == Bswap64(word)
  <1>1. Layout(64, L)
    BY DEF Layout, PowersOfTwo
  <1>2. SolidAlphaWord(v) = word
    BY DEF SolidAlphaWord, Or64, PartsOf
  <1>3. \A j \in 0..7 : word[j] = BitOf(v, j)
    <2>1. <<v, 0, 8>> \in L
      OBVIOUS
    <2> HIDE DEF L
    <2>2. \A x \in L : \A j \in 0..(x[3] - 1) : word[x[2] + j] = BitOf(x[1], j)
      BY <1>1, BitsOfField
    <2> HIDE DEF word
    <2>3. QED
      BY <2>1, <2>2
  <1>4. \A i \in 8..63 : word[i] = 0
    <2>1. \A i \in 8..63 : i \in 0..(64 - 1) /\ \A x \in L : i < x[2] \/ x[2] + x[3] <= i
      OBVIOUS
    <2> HIDE DEF L
    <2>2. QED
      BY <1>1, <2>1, ZeroOutside
  <1> HIDE DEF L, word
  <1>5. \A i \in 0..55 : w[i] = 0
    <2>1. \A i \in 0..55 : i \in 0..63 /\ 8 * (7 - i \div 8) + (i % 8) \in 8..63
      OBVIOUS
    <2>2. QED
      BY <1>4, <2>1 DEF Bswap64
  <1>6. \A j \in 0..7 : w[56 + j] = BitOf(v, j)
    <2>1. \A j \in 0..7 : 56 + j \in 0..63 /\ 8 * (7 - (56 + j) \div 8) + ((56 + j) % 8) = j
      OBVIOUS
    <2>2. QED
      BY <1>3, <2>1 DEF Bswap64
  <1> HIDE DEF w
  <1>7. Field(w, 56, 8) = v
    <2>1. v < PowersOfTwo[8] /\ 8 \in 1..8 /\ 56 \in Nat /\ v \in Nat
      BY DEF PowersOfTwo
    <2>2. \A j \in 0..(8 - 1) : w[56 + j] = BitOf(v, j)
      BY <1>6
    <2>3. QED
      BY <2>1, <2>2, FieldOfBits, Zenon
  <1>8. Field(w, 52, 4) = 0
    <2>1. w[52 + 0] = 0 /\ w[52 + 1] = 0 /\ w[52 + 2] = 0 /\ w[52 + 3] = 0
      BY <1>5
    <2>2. QED
      BY <2>1 DEF Field
  <1>9. Field(w, 48, 4) = 0
    <2>1. w[48 + 0] = 0 /\ w[48 + 1] = 0 /\ w[48 + 2] = 0 /\ w[48 + 3] = 0
      BY <1>5
    <2>2. QED
      BY <2>1 DEF Field
  <1>10. \A k \in 0..15 : Field(w, 45 - 3 * k, 3) \in 0..7
    <2> TAKE k \in 0..15
    <2>1. w[(45 - 3 * k) + 0] = 0 /\ w[(45 - 3 * k) + 1] = 0 /\ w[(45 - 3 * k) + 2] = 0
      BY <1>5
    <2>2. QED
      BY <2>1 DEF Field
  <1>11. \A j \in 0..7 : Alpha(v, 0, 0, j) = v
    <2>1. \A j \in 0..7 : g_alpha[0 + 1][j + 1] \in Int
      BY DEF g_alpha
    <2>2. QED
      BY <2>1 DEF Alpha, Clamp
  <1>12. DecodeAlpha(SolidAlphaWord(v)) = [k \in 0..15 |-> Alpha(Field(w, 56, 8), Field(w, 52, 4), Field(w, 48, 4), Field(w, 45 - 3 * k, 3))]
    BY <1>2 DEF DecodeAlpha, w
  <1>13. QED
    BY <1>7, <1>8, <1>9, <1>10, <1>11, <1>12

LEMMA AlphaRead ==
    ASSUME EncodeAlpha
    PROVE  SameBlock(made', Meaning(file'))
  <1>1. PICK a \in AlphaBlocks, sel \in 0..15 :
            IF RangeOf(a) = 0
              THEN /\ made' = [mode |-> "any", pixels |-> a]
                   /\ file' = [kind |-> "alpha of Etc2_RGBA", word |-> SolidAlphaWord(a[0])]
              ELSE /\ made' = [mode |-> "any", pixels |-> SearchedAlpha(a, sel)]
                   /\ file' = [kind |-> "alpha of Etc2_RGBA", word |-> ProcessAlpha_ETC2(a, sel)]
    BY DEF EncodeAlpha
  <1>2. a \in [0..15 -> 0..255]
    BY InputsAssumption, Zenon
  <1>3. /\ Smallest(a) \in 0..255 /\ Largest(a) \in 0..255
        /\ \A k \in 0..15 : Smallest(a) <= a[k] /\ a[k] <= Largest(a)
        /\ RangeOf(a) \in 0..255 /\ Mid(a) \in 0..255
    BY <1>2, Extremes
  <1>4. \A x : Meaning([kind |-> "alpha of Etc2_RGBA", word |-> x]) = [mode |-> "any", pixels |-> DecodeAlpha(x)]
    BY DEF Meaning
  <1>5. CASE RangeOf(a) = 0
    <2>1. \A k \in 0..15 : a[k] = a[0]
      <3> TAKE k \in 0..15
      <3>1. PICK l, h, u, v : l = Smallest(a) /\ h = Largest(a) /\ u = a[k] /\ v = a[0]
        OBVIOUS
      <3>2. l \in 0..255 /\ h \in 0..255 /\ u \in 0..255 /\ v \in 0..255
        BY <1>2, <1>3, <3>1
      <3>3. l <= u /\ u <= h /\ l <= v /\ v <= h /\ h - l = 0
        BY <1>3, <1>5, <3>1 DEF RangeOf
      <3>4. QED
        BY <3>1, <3>2, <3>3
    <2>2. a = [k \in 0..15 |-> a[0]]
      BY <1>2, <2>1
    <2>3. DecodeAlpha(SolidAlphaWord(a[0])) = [k \in 0..15 |-> a[0]]
      <3>1. a[0] \in 0..255
        BY <1>2
      <3>2. QED
        BY <3>1, SolidAlphaRead
    <2>0. /\ made' = [mode |-> "any", pixels |-> a]
          /\ file' = [kind |-> "alpha of Etc2_RGBA", word |-> SolidAlphaWord(a[0])]
      BY <1>1, <1>5, Zenon
    <2>4. made'.pixels = DecodeAlpha(SolidAlphaWord(a[0])) /\ made'.mode = "any"
      BY <2>0, <2>2, <2>3
    <2>5. Meaning(file') = [mode |-> "any", pixels |-> DecodeAlpha(SolidAlphaWord(a[0]))]
      BY <1>4, <2>0, Zenon
    <2>6. QED
      BY <2>4, <2>5 DEF SameBlock
  <1>6. CASE RangeOf(a) # 0
    <2> DEFINE mul == Multiplier(RangeOf(a), sel)
               idx == [k \in 0..15 |-> NearestModifier(a[k], Mid(a), mul, sel)]
               w == Or64(EacParts(Mid(a), mul, sel, idx))
    <2>1. mul = Multiplier(RangeOf(a), g_alphaRange_SIMD[GetMulSel(sel)]) /\ mul \in 1..15
      BY <1>3, SameMultiplier
    <2>2. ProcessAlpha_ETC2(a, sel) = Bswap64(w)
      BY <2>1 DEF ProcessAlpha_ETC2, EacParts
    <2>3. idx \in [0..15 -> 0..7]
      <3>1. \A k \in 0..15 : a[k] \in 0..255
        BY <1>2
      <3>2. mul \in 0..15
        BY <2>1
      <3> HIDE DEF mul
      <3>3. \A k \in 0..15 : NearestModifier(a[k], Mid(a), mul, sel) \in 0..7
        BY <1>3, <3>1, <3>2, NearestIs
      <3>4. QED
        BY <3>3
    <2>4. SearchedAlpha(a, sel) = [k \in 0..15 |-> Alpha(Mid(a), mul, sel, idx[k])]
      BY DEF SearchedAlpha
    <2>5. DecodeAlpha(Bswap64(w)) = [k \in 0..15 |-> Alpha(Mid(a), mul, sel, idx[k])]
      <3>1. mul \in 0..15
        BY <2>1
      <3> HIDE DEF mul, idx
      <3>2. PICK x : x = w
        OBVIOUS
      <3>3. x = Or64(EacParts(Mid(a), mul, sel, idx))
        BY <3>2
      <3> HIDE DEF w
      <3>4. PICK base \in 0..255 : base = Mid(a)
        BY <1>3
      <3>5. x = Or64(EacParts(base, mul, sel, idx))
        BY <3>3, <3>4
      <3>6. DecodeAlpha(Bswap64(x)) = EacAlphas(base, mul, sel, idx)
        BY <2>3, <3>1, <3>5, EacRead, ZenonT(60)
      <3>7. QED
        BY <3>2, <3>4, <3>6 DEF EacAlphas
    <2> HIDE DEF mul, idx, w
    <2>0. /\ made' = [mode |-> "any", pixels |-> SearchedAlpha(a, sel)]
          /\ file' = [kind |-> "alpha of Etc2_RGBA", word |-> ProcessAlpha_ETC2(a, sel)]
      BY <1>1, <1>6, Zenon
    <2>6. made'.pixels = DecodeAlpha(Bswap64(w)) /\ made'.mode = "any"
      BY <2>0, <2>4, <2>5
    <2>7. Meaning(file') = [mode |-> "any", pixels |-> DecodeAlpha(Bswap64(w))]
      BY <1>4, <2>0, <2>2, Zenon
    <2>8. QED
      BY <2>6, <2>7 DEF SameBlock
  <1>7. QED
    BY <1>5, <1>6
-----------------------------------------------------------------------------
(* DXT words                                                               *)

LEMMA LowHigh ==
    ASSUME NEW X, X \subseteq 0..255, X # {}
    PROVE  /\ Low(X) \in X /\ Low(X) \in 0..255 /\ \A u \in X : Low(X) <= u
           /\ High(X) \in X /\ High(X) \in 0..255 /\ \A u \in X : u <= High(X)
  <1>1. (\E m \in X : \A u \in X : m <= u) /\ (\E m \in X : \A u \in X : m >= u)
    BY LeastOfBytes
  <1>2. Low(X) \in X /\ \A u \in X : Low(X) <= u
    BY <1>1 DEF Low
  <1>3. High(X) \in X /\ \A u \in X : High(X) >= u
    BY <1>1 DEF High
  <1>4. \A u \in X : u \in 0..255
    OBVIOUS
  <1>5. QED
    BY <1>2, <1>3, <1>4

LEMMA DivisionBounds ==
    ASSUME NEW m \in Nat, NEW k \in Nat, k > 0, m > k
    PROVE  m \div k \in Nat /\ (m \div k) * k <= m /\ m \div k >= 1
  BY SMTT(60)

LEMMA Scaled ==
    ASSUME NEW N \in Nat, NEW k \in Nat, k > 0, N > k, NEW t \in Nat, t < k,
           NEW q \in Nat, q <= N \div k
    PROVE  t * q \in Nat /\ t * q < N
  <1>1. N \div k \in Nat /\ (N \div k) * k <= N /\ N \div k >= 1
    BY DivisionBounds, Zenon
  <1>2. PICK e \in Nat : e = N \div k
    BY <1>1, Zenon
  <1>3. e * k <= N /\ e >= 1 /\ q <= e
    BY <1>1, <1>2, Zenon
  <1>4. PICK r \in Nat : k = r + 1
    <2>1. k - 1 \in Nat /\ k = (k - 1) + 1
      OBVIOUS
    <2>2. QED
      BY <2>1
  <1>5. t <= r
    BY <1>4
  <1>6. t * q <= r * q /\ r * q <= r * e /\ t * q \in Nat /\ r * q \in Nat /\ r * e \in Nat
    BY <1>3, <1>5, SMTT(60)
  <1>7. r * e + e <= N
    BY <1>3, <1>4, SMTT(60)
  <1>8. PICK y \in Nat, z \in Nat : y = t * q /\ z = r * e
    BY <1>6, Zenon
  <1>9. y <= z /\ z + e <= N
    BY <1>6, <1>7, <1>8, SMT
  <1>10. y < N
    BY <1>3, <1>9, SMT
  <1>11. QED
    BY <1>6, <1>8, <1>10, Zenon

\* The factor that stands for a division by r + 1, of n bits after the point.
LEMMA Divided ==
    ASSUME NEW n \in {4, 8}, NEW r \in Nat, r <= 765, NEW t \in Nat, t <= r, NEW q \in Nat,
           q <= (65536 * n) \div (r + 1)
    PROVE  (t * q) \div 65536 \in 0..(n - 1)
  <1>1. PICK N \in Nat, k \in Nat : N = 65536 * n /\ k = r + 1
    BY SMT
  <1>2. k > 0 /\ N > k /\ t < k
    BY <1>1, SMT
  <1>3. q <= N \div k
    BY <1>1, SMT
  <1>4. t * q \in Nat /\ t * q < N
    BY <1>2, <1>3, Scaled, SMT
  <1>5. PICK y \in Nat : y = t * q
    BY <1>4, SMT
  <1>6. y < 65536 * n
    BY <1>1, <1>4, <1>5, SMT
  <1>7. y \div 65536 \in 0..(n - 1)
    BY <1>6, SMT
  <1>8. QED
    BY <1>5, <1>7, SMT

\* The inset neither reverses two ends nor makes them equal, when cut to 565.
InsetKeeps(lo, hi, D, s) ==
    /\ s \in 0..15 /\ hi - s \in 0..255 /\ lo + s \in 0..255
    /\ (lo + s) \div D <= (hi - s) \div D
    /\ (lo \div D < hi \div D) => ((lo + s) \div D < (hi - s) \div D)
    /\ (lo \div D = hi \div D) => s = 0

LEMMA InsetKeepsOrder ==
    ASSUME NEW lo \in 0..255, NEW hi \in 0..255, lo <= hi, NEW D \in Int, D = 4 \/ D = 8,
           NEW s \in Int, s = (hi - lo) \div 16
    PROVE  InsetKeeps(lo, hi, D, s)
  <1>1. s \in 0..15 /\ 16 * s <= hi - lo /\ hi - lo < 16 * s + 16
    OBVIOUS
  <1>2. CASE D = 4
    BY <1>1, <1>2 DEF InsetKeeps
  <1>3. CASE D = 8
    BY <1>1, <1>3 DEF InsetKeeps
  <1>4. QED
    BY <1>2, <1>3

CutTo == <<8, 4, 8>>
Is565(q) == q[1] \in 0..31 /\ q[2] \in 0..63 /\ q[3] \in 0..31

LEMMA OrderTold ==
    ASSUME NEW q, Is565(q), NEW r, Is565(r), r[1] <= q[1], r[2] <= q[2], r[3] <= q[3],
           r[1] < q[1] \/ r[2] < q[2] \/ r[3] < q[3]
    PROVE  Number565(q) > Number565(r)
  <1>1. PICK a \in 0..31, b \in 0..63, c \in 0..31 : a = q[1] /\ b = q[2] /\ c = q[3]
    BY DEF Is565
  <1>2. PICK x \in 0..31, y \in 0..63, z \in 0..31 : x = r[1] /\ y = r[2] /\ z = r[3]
    BY DEF Is565
  <1>3. x <= a /\ y <= b /\ z <= c /\ (x < a \/ y < b \/ z < c)
    BY <1>1, <1>2, Zenon
  <1>4. 2048 * a + 32 * b + c > 2048 * x + 32 * y + z
    BY <1>3, SMT
  <1>5. QED
    BY <1>1, <1>2, <1>4, SMT DEF Number565

Pixels == [0..15 -> [1..4 -> 0..255]]

LEMMA BlockEnds ==
    ASSUME NEW p \in Pixels, NEW i \in 1..4
    PROVE  /\ Rmin(p)[i] \in 0..255 /\ Rmax(p)[i] \in 0..255
           /\ \A k \in 0..15 : p[k][i] \in 0..255 /\ Rmin(p)[i] <= p[k][i] /\ p[k][i] <= Rmax(p)[i]
           /\ \E k \in 0..15 : Rmin(p)[i] = p[k][i]
           /\ \E k \in 0..15 : Rmax(p)[i] = p[k][i]
  <1> DEFINE X == Values(p, i)
  <1>1. \A k \in 0..15 : p[k][i] \in 0..255
    BY DEF Pixels
  <1>2. X \subseteq 0..255 /\ \A k \in 0..15 : p[k][i] \in X
    BY <1>1 DEF Values
  <1>3. \A x \in X : \E k \in 0..15 : x = p[k][i]
    BY DEF Values
  <1>4. Rmin(p)[i] = Low(X) /\ Rmax(p)[i] = High(X)
    BY DEF Rmin, Rmax
  <1> HIDE DEF X
  <1>5. X # {}
    BY <1>2
  <1>6. /\ Low(X) \in X /\ Low(X) \in 0..255 /\ \A u \in X : Low(X) <= u
        /\ High(X) \in X /\ High(X) \in 0..255 /\ \A u \in X : u <= High(X)
    BY <1>2, <1>5, LowHigh
  <1>7. /\ Low(X) \in 0..255 /\ High(X) \in 0..255
        /\ \A k \in 0..15 : p[k][i] \in 0..255 /\ Low(X) <= p[k][i] /\ p[k][i] <= High(X)
        /\ \E k \in 0..15 : Low(X) = p[k][i]
        /\ \E k \in 0..15 : High(X) = p[k][i]
    BY <1>1, <1>2, <1>3, <1>6, Zenon
  <1>8. QED
    BY <1>4, <1>7, ZenonT(60)

LEMMA RankIs ==
    ASSUME NEW p \in Pixels, NEW k \in 0..15
    PROVE  Rank(p, k) \in 0..3
  <1>1. PICK lo, hi, c : lo = Rmin(p) /\ hi = Rmax(p) /\ c = p[k]
    OBVIOUS
  <1>2. \A i \in 1..4 : /\ lo[i] \in 0..255 /\ hi[i] \in 0..255 /\ c[i] \in 0..255
                        /\ lo[i] <= c[i] /\ c[i] <= hi[i]
    BY <1>1, BlockEnds, ZenonT(60)
  <1>3. PICK l1 \in 0..255, h1 \in 0..255, c1 \in 0..255 :
            l1 = lo[1] /\ h1 = hi[1] /\ c1 = c[1] /\ l1 <= c1 /\ c1 <= h1
    BY <1>2, 1 \in 1..4, Zenon
  <1>4. PICK l2 \in 0..255, h2 \in 0..255, c2 \in 0..255 :
            l2 = lo[2] /\ h2 = hi[2] /\ c2 = c[2] /\ l2 <= c2 /\ c2 <= h2
    BY <1>2, 2 \in 1..4, Zenon
  <1>5. PICK l3 \in 0..255, h3 \in 0..255, c3 \in 0..255 :
            l3 = lo[3] /\ h3 = hi[3] /\ c3 = c[3] /\ l3 <= c3 /\ c3 <= h3
    BY <1>2, 3 \in 1..4, ZenonT(60)
  <1>alpha. PICK l4 \in 0..255, h4 \in 0..255, c4 \in 0..255 :
            l4 = lo[4] /\ h4 = hi[4] /\ c4 = c[4] /\ l4 <= c4 /\ c4 <= h4
    BY <1>2, 4 \in 1..4, ZenonT(60)
  <1>6. PICK t \in Nat, r \in Nat : t = Total(c) - Total(lo) /\ r = Total(hi) - Total(lo) /\ t <= r /\ r <= 1020
    <2>1. PICK t \in Int, r \in Int : t = (c1 + c2 + c3 + c4) - (l1 + l2 + l3 + l4) /\ r = (h1 + h2 + h3 + h4) - (l1 + l2 + l3 + l4)
      BY SMT
    <2>2. t \in Nat /\ r \in Nat /\ t <= r /\ r <= 1020
      <3>1. l1 <= c1 /\ c1 <= h1 /\ l2 <= c2 /\ c2 <= h2 /\ l3 <= c3 /\ c3 <= h3 /\ l4 <= c4 /\ c4 <= h4
        BY <1>3, <1>4, <1>5, <1>alpha, Zenon
      <3>2. QED
        BY <2>1, <3>1, SMTT(30)
    <2>3. t = Total(c) - Total(lo) /\ r = Total(hi) - Total(lo)
      BY <1>3, <1>4, <1>5, <1>alpha, <2>1, Zenon DEF Total
    <2>4. QED
      BY <2>2, <2>3, ZenonT(60)
  <1>7. DivTable(r) \in Nat /\ DivTable(r) <= (65536 * 4) \div (r + 1)
    BY <1>6, SMT DEF DivTable
  <1>8. PICK q \in Nat : q = DivTable(r)
    BY <1>7, SMT
  <1>9. q <= (65536 * 4) \div (r + 1)
    BY <1>7, <1>8, SMT
  <1>10. (t * q) \div 65536 \in 0..(4 - 1)
    BY <1>6, <1>9, Divided, SMT
  <1>11. Rank(p, k) = (t * q) \div 65536
    BY <1>1, <1>6, <1>8, SMT DEF Rank, VRange
  <1>12. QED
    BY <1>10, <1>11, SMT

DxtPlaces(first, m) == [k \in 0..15 |-> first + m * RowMajor(k)]

PlacesApart(s, first, m) ==
    /\ \A k \in 0..15 : s[k] = first + m * RowMajor(k) /\ s[k] \in Nat /\ s[k] >= first /\ s[k] + m <= 64
    /\ \A i, j \in 0..15 : i = j \/ s[i] + m <= s[j] \/ s[j] + m <= s[i]

LEMMA DxtPlacesApart ==
    ASSUME NEW m \in {2, 3}, NEW first \in {16, 32}, first + 16 * m <= 64, NEW s, s = DxtPlaces(first, m)
    PROVE  PlacesApart(s, first, m)
  <1>1. \A k \in 0..15 : RowMajor(k) \in 0..15
    BY DEF RowMajor
  <1>2. \A i, j \in 0..15 : RowMajor(i) = RowMajor(j) => i = j
    BY DEF RowMajor
  <1>3. \A k \in 0..15 : s[k] = first + m * RowMajor(k)
    BY DEF DxtPlaces
  <1>4. \A k \in 0..15 : s[k] \in Nat /\ s[k] >= first /\ s[k] + m <= 64
    <2> TAKE k \in 0..15
    <2>1. PICK x \in 0..15 : x = RowMajor(k)
      BY <1>1
    <2>2. first + m * x \in Nat /\ first + m * x >= first /\ (first + m * x) + m <= 64
      BY SMT
    <2>3. QED
      BY <1>3, <2>1, <2>2
  <1>5. \A i, j \in 0..15 : i = j \/ s[i] + m <= s[j] \/ s[j] + m <= s[i]
    <2> TAKE i, j \in 0..15
    <2>1. PICK x \in 0..15, y \in 0..15 : x = RowMajor(i) /\ y = RowMajor(j)
      BY <1>1
    <2>2. x = y \/ (first + m * x) + m <= first + m * y \/ (first + m * y) + m <= first + m * x
      BY SMT
    <2>3. x = y => i = j
      BY <1>2, <2>1
    <2>4. QED
      BY <1>3, <2>1, <2>2, <2>3
  <1>6. QED
    BY <1>3, <1>4, <1>5 DEF PlacesApart

ColourWordHolds(w, q, r, idx) ==
    /\ Field(w, 0, 5) = q[3] /\ Field(w, 5, 6) = q[2] /\ Field(w, 11, 5) = q[1]
    /\ Field(w, 16, 5) = r[3] /\ Field(w, 21, 6) = r[2] /\ Field(w, 27, 5) = r[1]
    /\ \A k \in 0..15 : Field(w, 32 + 2 * RowMajor(k), 2) = idx[k]

LEMMA ColourWordRead ==
    ASSUME NEW q, Is565(q), NEW r, Is565(r), NEW idx \in [0..15 -> 0..3]
    PROVE  ColourWordHolds(ColourWord(q, r, idx), q, r, idx)
  <1>1. PICK q1 \in 0..31, q2 \in 0..63, q3 \in 0..31 : q1 = q[1] /\ q2 = q[2] /\ q3 = q[3]
    BY DEF Is565
  <1>2. PICK r1 \in 0..31, r2 \in 0..63, r3 \in 0..31 : r1 = r[1] /\ r2 = r[2] /\ r3 = r[3]
    BY DEF Is565
  <1> DEFINE H == {<<q3, 0, 5>>, <<q2, 5, 6>>, <<q1, 11, 5>>, <<r3, 16, 5>>, <<r2, 21, 6>>, <<r1, 27, 5>>}
  <1>3. Layout(64, H)
    <2>1. \A x \in H : /\ x[1] \in Nat /\ x[2] \in Nat /\ x[3] \in 1..8
                       /\ x[1] < PowersOfTwo[x[3]] /\ x[2] + x[3] <= 64
      BY DEF PowersOfTwo
    <2>2. \A x, y \in H : x = y \/ x[2] + x[3] <= y[2] \/ y[2] + y[3] <= x[2]
      OBVIOUS
    <2>3. QED
      BY <2>1, <2>2 DEF Layout
  <1>4. PICK s : s = DxtPlaces(32, 2)
    OBVIOUS
  <1>5. /\ \A k \in 0..15 : s[k] = 32 + 2 * RowMajor(k) /\ s[k] \in Nat /\ s[k] >= 32 /\ s[k] + 2 <= 64
        /\ \A i, j \in 0..15 : i = j \/ s[i] + 2 <= s[j] \/ s[j] + 2 <= s[i]
    <2>1. PlacesApart(s, 32, 2)
      BY <1>4, DxtPlacesApart
    <2>2. QED
      BY <2>1, Zenon DEF PlacesApart
  <1>6. PixelPlaces(s, 2, H)
    <2>1. \A x \in H : x[2] + x[3] <= 32
      OBVIOUS
    <2>2. \A x \in H : x[2] \in Nat /\ x[3] \in Nat
      OBVIOUS
    <2> HIDE DEF H
    <2>3. \A k \in 0..15 : s[k] \in Nat /\ s[k] + 2 <= 64 /\ 32 <= s[k]
      BY <1>5, SMT
    <2>4. \A x \in H : \A k \in 0..15 : x[2] + x[3] <= s[k]
      BY <2>1, <2>2, <2>3, SMT
    <2>5. QED
      BY <1>5, <2>3, <2>4, 2 \in 1..8, ZenonT(30) DEF PixelPlaces
  <1>7. FitIn(idx, 2)
    BY DEF PowersOfTwo, FitIn
  <1>8. PartsOf(H) = {<<q3, 0>>, <<q2, 5>>, <<q1, 11>>, <<r3, 16>>, <<r2, 21>>, <<r1, 27>>}
    BY DEF PartsOf
  <1>9. PartPerPixel(idx, s) = {<<idx[k], 32 + 2 * RowMajor(k)>> : k \in 0..15}
    BY <1>5 DEF PartPerPixel
  <1>10. PICK w : w = ColourWord(q, r, idx)
    OBVIOUS
  <1>11. w = Or64(PartsOf(H) \union PartPerPixel(idx, s))
    BY <1>1, <1>2, <1>8, <1>9, <1>10 DEF ColourWord
  <1>12. /\ <<q3, 0, 5>> \in H /\ <<q2, 5, 6>> \in H /\ <<q1, 11, 5>> \in H
         /\ <<r3, 16, 5>> \in H /\ <<r2, 21, 6>> \in H /\ <<r1, 27, 5>> \in H
    OBVIOUS
  <1> HIDE DEF H
  <1>13. /\ \A x \in H : Field(w, x[2], x[3]) = x[1]
         /\ \A k \in 0..15 : Field(w, s[k], 2) = idx[k]
    <2>1. PixelWordHolds(w, H, idx, s, 2)
      BY <1>3, <1>6, <1>7, <1>11, PixelWord
    <2>2. QED
      BY <2>1 DEF PixelWordHolds
  <1>14. /\ Field(w, 0, 5) = q3 /\ Field(w, 5, 6) = q2 /\ Field(w, 11, 5) = q1
         /\ Field(w, 16, 5) = r3 /\ Field(w, 21, 6) = r2 /\ Field(w, 27, 5) = r1
         /\ \A k \in 0..15 : Field(w, 32 + 2 * RowMajor(k), 2) = idx[k]
    BY <1>5, <1>12, <1>13
  <1>15. QED
    BY <1>1, <1>2, <1>10, <1>14, Zenon DEF ColourWordHolds

LEMMA Expanded565 ==
    ASSUME NEW q, Is565(q)
    PROVE  /\ From565(q)[1] \in 0..255 /\ From565(q)[2] \in 0..255 /\ From565(q)[3] \in 0..255
           /\ From565(q) = <<From565(q)[1], From565(q)[2], From565(q)[3]>>
  <1>1. PICK q1 \in 0..31, q2 \in 0..63, q3 \in 0..31 : q1 = q[1] /\ q2 = q[2] /\ q3 = q[3]
    BY DEF Is565
  <1>2. 8 * q1 + q1 \div 4 \in 0..255 /\ 4 * q2 + q2 \div 16 \in 0..255 /\ 8 * q3 + q3 \div 4 \in 0..255
    BY SMT
  <1>3. From565(q) = <<8 * q1 + q1 \div 4, 4 * q2 + q2 \div 16, 8 * q3 + q3 \div 4>>
    BY <1>1 DEF From565
  <1>4. QED
    BY <1>2, <1>3

LEMMA BetweenEnds ==
    ASSUME NEW q, Is565(q), NEW r, Is565(r)
    PROVE  /\ Between(From565(q), From565(r), 0) = From565(r)
           /\ Between(From565(q), From565(r), 3) = From565(q)
  <1>1. PICK c, d : c = From565(q) /\ d = From565(r)
    OBVIOUS
  <1>2. /\ c[1] \in 0..255 /\ c[2] \in 0..255 /\ c[3] \in 0..255 /\ c = <<c[1], c[2], c[3]>>
        /\ d[1] \in 0..255 /\ d[2] \in 0..255 /\ d[3] \in 0..255 /\ d = <<d[1], d[2], d[3]>>
    BY <1>1, Expanded565, ZenonT(60)
  <1>3. \A x \in 0..255, y \in 0..255 : (0 * x + (3 - 0) * y) \div 3 = y /\ (3 * x + (3 - 3) * y) \div 3 = x
    BY SMT
  <1>4. Between(c, d, 0) = d
    BY <1>2, <1>3 DEF Between, Map3
  <1>5. Between(c, d, 3) = c
    BY <1>2, <1>3 DEF Between, Map3
  <1>6. QED
    BY <1>1, <1>4, <1>5

\* What the decoder finds in a colour word.
DecodedWith(w, q, r, idx, dict) ==
    /\ dict[1] = From565(q) /\ dict[2] = From565(r)
    /\ Number565(q) > Number565(r) =>
         /\ dict[3] = Between(From565(q), From565(r), 2)
         /\ dict[4] = Between(From565(q), From565(r), 1)
         /\ DecodeDxt1Part(w).mode = "four colours"
    /\ DecodeDxt1Part(w).pixels = [k \in 0..15 |-> dict[idx[k] + 1]]

LEMMA DxtDecoded ==
    ASSUME NEW w, NEW q, Is565(q), NEW r, Is565(r), NEW idx \in [0..15 -> 0..3], ColourWordHolds(w, q, r, idx)
    PROVE  \E dict : DecodedWith(w, q, r, idx, dict)
  <1> DEFINE c == From565(q)
             d == From565(r)
  <1> DEFINE f0 == <<Field(w, 11, 5), Field(w, 5, 6), Field(w, 0, 5)>>
             f1 == <<Field(w, 27, 5), Field(w, 21, 6), Field(w, 16, 5)>>
             e0 == From565(f0)
             e1 == From565(f1)
             four == Number565(f0) > Number565(f1)
             dict == IF four THEN << e0, e1, Between(e0, e1, 2), Between(e0, e1, 1) >>
                             ELSE << e0, e1, Map3(LAMBDA i : (e0[i] + e1[i]) \div 2), <<0, 0, 0>> >>
  <1>1. e0 = c /\ e1 = d /\ Number565(f0) = Number565(q) /\ Number565(f1) = Number565(r)
    BY DEF ColourWordHolds, From565, Number565
  <1>2. DecodeDxt1Part(w) = [ mode   |-> IF four THEN "four colours" ELSE "three colours",
                              pixels |-> [k \in 0..15 |-> dict[Field(w, 32 + 2 * RowMajor(k), 2) + 1]] ]
    BY Zenon DEF DecodeDxt1Part
  <1>3. dict[1] = e0 /\ dict[2] = e1 /\ (four => dict[3] = Between(e0, e1, 2) /\ dict[4] = Between(e0, e1, 1))
    BY DEF Map3
  <1> HIDE DEF dict, f0, f1, e0, e1
  <1>4. [k \in 0..15 |-> dict[Field(w, 32 + 2 * RowMajor(k), 2) + 1]] = [k \in 0..15 |-> dict[idx[k] + 1]]
    BY DEF ColourWordHolds
  <1>5. four <=> Number565(q) > Number565(r)
    BY <1>1
  <1> HIDE DEF four
  <1>6. PICK m, f : /\ m = IF four THEN "four colours" ELSE "three colours"
                    /\ f = [k \in 0..15 |-> dict[Field(w, 32 + 2 * RowMajor(k), 2) + 1]]
    OBVIOUS
  <1>7. DecodeDxt1Part(w) = [mode |-> m, pixels |-> f]
    BY <1>2, <1>6, Zenon
  <1>8. DecodeDxt1Part(w).mode = m /\ DecodeDxt1Part(w).pixels = f
    BY <1>7
  <1>9. m = IF Number565(q) > Number565(r) THEN "four colours" ELSE "three colours"
    BY <1>5, <1>6, Zenon
  <1>10. f = [k \in 0..15 |-> dict[idx[k] + 1]]
    BY <1>4, <1>6, Zenon
  <1>11. dict[1] = c /\ dict[2] = d
    BY <1>1, <1>3, Zenon
  <1>12. Number565(q) > Number565(r) => dict[3] = Between(c, d, 2) /\ dict[4] = Between(c, d, 1)
    BY <1>1, <1>3, <1>5, Zenon
  <1>13. QED
    BY <1>8, <1>9, <1>10, <1>11, <1>12, ZenonT(60) DEF DecodedWith

Cut(v, i) == v \div CutTo[i]
HighEnd(p, i) == Cut(Rmax(p)[i] - Inset(p)[i], i)
LowEnd(p, i)  == Cut(Rmin(p)[i] + Inset(p)[i], i)

LEMMA ChannelEnds ==
    ASSUME NEW p \in Pixels, NEW i \in 1..3
    PROVE  /\ HighEnd(p, i) \in 0..63 /\ LowEnd(p, i) \in 0..63
           /\ i # 2 => HighEnd(p, i) \in 0..31 /\ LowEnd(p, i) \in 0..31
           /\ LowEnd(p, i) <= HighEnd(p, i)
           /\ (\E k \in 0..15 : Cut(p[k][i], i) # Cut(p[0][i], i)) => LowEnd(p, i) < HighEnd(p, i)
           /\ (\A k \in 0..15 : Cut(p[k][i], i) = Cut(p[0][i], i)) => LowEnd(p, i) = Cut(p[0][i], i)
  <1>0. i \in 1..4
    OBVIOUS
  <1>1. PICK lo \in 0..255, hi \in 0..255 : lo = Rmin(p)[i] /\ hi = Rmax(p)[i]
    BY <1>0, BlockEnds
  <1>2. \A k \in 0..15 : p[k][i] \in 0..255 /\ lo <= p[k][i] /\ p[k][i] <= hi
    BY <1>0, <1>1, BlockEnds
  <1>3. (\E k \in 0..15 : lo = p[k][i]) /\ (\E k \in 0..15 : hi = p[k][i])
    BY <1>0, <1>1, BlockEnds, ZenonT(60)
  <1>4. PICK D \in {4, 8} : D = CutTo[i] /\ (i # 2 => D = 8)
    BY DEF CutTo
  <1>5. PICK s \in Int : s = (hi - lo) \div 16
    OBVIOUS
  <1>6. lo <= hi
    <2>1. PICK v \in 0..255 : v = p[0][i] /\ lo <= v /\ v <= hi
      BY <1>2, 0 \in 0..15, Zenon
    <2>2. QED
      BY <2>1, SMT
  <1>7. /\ s \in 0..15 /\ hi - s \in 0..255 /\ lo + s \in 0..255
        /\ (lo + s) \div D <= (hi - s) \div D
        /\ (lo \div D < hi \div D) => ((lo + s) \div D < (hi - s) \div D)
        /\ (lo \div D = hi \div D) => s = 0
    <2>1. D \in Int /\ (D = 4 \/ D = 8)
      OBVIOUS
    <2>2. InsetKeeps(lo, hi, D, s)
      BY <1>5, <1>6, <2>1, InsetKeepsOrder
    <2>3. QED
      BY <2>2, Zenon DEF InsetKeeps
  <1>8. Inset(p)[i] = s
    <2>1. CASE i = 1
      BY <1>1, <1>5, <2>1 DEF Inset, Map3
    <2>2. CASE i = 2
      BY <1>1, <1>5, <2>2 DEF Inset, Map3
    <2>3. CASE i = 3
      BY <1>1, <1>5, <2>3 DEF Inset, Map3
    <2>4. QED
      BY <2>1, <2>2, <2>3
  <1>9. HighEnd(p, i) = (hi - s) \div D /\ LowEnd(p, i) = (lo + s) \div D
    BY <1>1, <1>4, <1>8 DEF HighEnd, LowEnd, Cut
  <1>10. \A k \in 0..15 : Cut(p[k][i], i) = p[k][i] \div D
    BY <1>4 DEF Cut
  <1>11. \A v \in 0..255 : v \div D \in 0..63 /\ (i # 2 => v \div D \in 0..31)
    <2>1. CASE D = 4
      BY <1>4, <2>1, SMT
    <2>2. CASE D = 8
      BY <1>4, <2>2, SMT
    <2>3. QED
      BY <2>1, <2>2
  <1>12. ASSUME NEW k \in 0..15, p[k][i] \div D # p[0][i] \div D
         PROVE  lo \div D < hi \div D
    <2>1. PICK x \in 0..255, y \in 0..255 : x = p[k][i] /\ y = p[0][i]
      BY <1>2, 0 \in 0..15
    <2>2. lo <= x /\ x <= hi /\ lo <= y /\ y <= hi /\ x \div D # y \div D
      BY <1>2, <1>12, <2>1, 0 \in 0..15
    <2>3. QED
      BY <2>2
  <1>13. ASSUME \A k \in 0..15 : p[k][i] \div D = p[0][i] \div D
         PROVE  (lo + s) \div D = p[0][i] \div D
    <2>1. lo \div D = p[0][i] \div D /\ hi \div D = p[0][i] \div D
      BY <1>3, <1>13
    <2>2. s = 0
      BY <1>7, <2>1
    <2>3. QED
      BY <2>1, <2>2
  <1>14. /\ HighEnd(p, i) \in 0..63 /\ LowEnd(p, i) \in 0..63
         /\ i # 2 => HighEnd(p, i) \in 0..31 /\ LowEnd(p, i) \in 0..31
         /\ LowEnd(p, i) <= HighEnd(p, i)
    <2>1. PICK x \in 0..255, y \in 0..255 : x = hi - s /\ y = lo + s /\ y \div D <= x \div D
      BY <1>7, Zenon
    <2>2. /\ x \div D \in 0..63 /\ y \div D \in 0..63
          /\ i # 2 => x \div D \in 0..31 /\ y \div D \in 0..31
      BY <1>11, Zenon
    <2>3. HighEnd(p, i) = x \div D /\ LowEnd(p, i) = y \div D
      BY <1>9, <2>1, Zenon
    <2>4. QED
      BY <2>1, <2>2, <2>3, Zenon
  <1>15. ASSUME NEW k \in 0..15, Cut(p[k][i], i) # Cut(p[0][i], i)
         PROVE  LowEnd(p, i) < HighEnd(p, i)
    <2>1. p[k][i] \div D # p[0][i] \div D
      BY <1>10, <1>15, 0 \in 0..15, Zenon
    <2>2. QED
      BY <1>7, <1>9, <1>12, <2>1, Zenon
  <1>16. ASSUME \A k \in 0..15 : Cut(p[k][i], i) = Cut(p[0][i], i)
         PROVE  LowEnd(p, i) = Cut(p[0][i], i)
    <2>1. \A k \in 0..15 : p[k][i] \div D = p[0][i] \div D
      BY <1>10, <1>16, 0 \in 0..15, Zenon
    <2>2. QED
      BY <1>9, <1>10, <1>13, <2>1, 0 \in 0..15, Zenon
  <1>17. QED
    BY <1>14, <1>15, <1>16, Zenon

LEMMA EndsAreOrdered ==
    ASSUME NEW p \in Pixels, NEW q, q = EndColours(p).c0, NEW r, r = EndColours(p).c1
    PROVE  /\ Is565(q) /\ Is565(r)
           /\ ~IsSolid(p) => Number565(q) > Number565(r)
           /\ IsSolid(p) => r = to565(p[0])
  <1>1. q = <<HighEnd(p, 1), HighEnd(p, 2), HighEnd(p, 3)>> /\ r = <<LowEnd(p, 1), LowEnd(p, 2), LowEnd(p, 3)>>
    BY DEF EndColours, to565, Map3, HighEnd, LowEnd, Cut, CutTo
  <1>2. \A c : to565(c) = <<Cut(c[1], 1), Cut(c[2], 2), Cut(c[3], 3)>>
    BY DEF to565, Cut, CutTo
  <1>3. \A i \in 1..3 :
           /\ HighEnd(p, i) \in 0..63 /\ LowEnd(p, i) \in 0..63
           /\ i # 2 => HighEnd(p, i) \in 0..31 /\ LowEnd(p, i) \in 0..31
           /\ LowEnd(p, i) <= HighEnd(p, i)
           /\ (\E k \in 0..15 : Cut(p[k][i], i) # Cut(p[0][i], i)) => LowEnd(p, i) < HighEnd(p, i)
           /\ (\A k \in 0..15 : Cut(p[k][i], i) = Cut(p[0][i], i)) => LowEnd(p, i) = Cut(p[0][i], i)
    BY ChannelEnds
  <1>4. Is565(q) /\ Is565(r) /\ r[1] <= q[1] /\ r[2] <= q[2] /\ r[3] <= q[3]
    BY <1>1, <1>3 DEF Is565
  <1>5. ASSUME ~IsSolid(p)
        PROVE  Number565(q) > Number565(r)
    <2>1. PICK k \in 0..15 : to565(p[k]) # to565(p[0])
      BY <1>5 DEF IsSolid
    <2>2. Cut(p[k][1], 1) # Cut(p[0][1], 1) \/ Cut(p[k][2], 2) # Cut(p[0][2], 2) \/ Cut(p[k][3], 3) # Cut(p[0][3], 3)
      BY <1>2, <2>1
    <2>3. LowEnd(p, 1) < HighEnd(p, 1) \/ LowEnd(p, 2) < HighEnd(p, 2) \/ LowEnd(p, 3) < HighEnd(p, 3)
      BY <1>3, <2>2
    <2>4. r[1] < q[1] \/ r[2] < q[2] \/ r[3] < q[3]
      BY <1>1, <2>3
    <2>5. QED
      BY <1>4, <2>4, OrderTold
  <1>6. ASSUME IsSolid(p)
        PROVE  r = to565(p[0])
    <2>1. \A k \in 0..15 : to565(p[k]) = to565(p[0])
      BY <1>6 DEF IsSolid
    <2>2. \A k \in 0..15 : /\ Cut(p[k][1], 1) = Cut(p[0][1], 1) /\ Cut(p[k][2], 2) = Cut(p[0][2], 2)
                           /\ Cut(p[k][3], 3) = Cut(p[0][3], 3)
      BY <1>2, <2>1
    <2>3. LowEnd(p, 1) = Cut(p[0][1], 1) /\ LowEnd(p, 2) = Cut(p[0][2], 2) /\ LowEnd(p, 3) = Cut(p[0][3], 3)
      BY <1>3, <2>2
    <2>4. QED
      BY <1>1, <1>2, <2>3
  <1>7. QED
    BY <1>4, <1>5, <1>6

LEMMA DxtMeaning ==
    ASSUME NEW x
    PROVE  Meaning([kind |-> "Dxt1", word |-> x]) = DecodeDxt1Part(x)
  BY DEF Meaning

LEMMA Cut565 ==
    ASSUME NEW c \in [1..4 -> 0..255]
    PROVE  Is565(to565(c))
  <1>1. c[1] \in 0..255 /\ c[2] \in 0..255 /\ c[3] \in 0..255
    OBVIOUS
  <1>2. \A v \in 0..255 : v \div 8 \in 0..31 /\ v \div 4 \in 0..63
    OBVIOUS
  <1>3. QED
    BY <1>1, <1>2 DEF Is565, to565

\* A block of one colour: all pixels have index n, that of the colour.
AllPixels(x) == [k \in 0..15 |-> x]

LEMMA SolidDecoded ==
    ASSUME NEW q, Is565(q), NEW r, Is565(r), NEW n \in 0..1, NEW c, n = 0 => c = q, n = 1 => c = r,
           NEW idx, idx = AllPixels(n)
    PROVE  DecodeDxt1Part(ColourWord(q, r, idx)).pixels = AllPixels(From565(c))
  <1> USE DEF AllPixels
  <1>1. idx \in [0..15 -> 0..3]
    OBVIOUS
  <1>2. PICK w : w = ColourWord(q, r, idx)
    OBVIOUS
  <1>3. ColourWordHolds(w, q, r, idx)
    BY <1>1, <1>2, ColourWordRead
  <1>4. PICK dict : DecodedWith(w, q, r, idx, dict)
    BY <1>1, <1>3, DxtDecoded
  <1>5. /\ dict[1] = From565(q) /\ dict[2] = From565(r)
        /\ DecodeDxt1Part(w).pixels = [k \in 0..15 |-> dict[idx[k] + 1]]
    BY <1>4, Zenon DEF DecodedWith
  <1>6. \A k \in 0..15 : idx[k] = n
    OBVIOUS
  <1>7. dict[n + 1] = From565(c)
    BY <1>5
  <1>8. [k \in 0..15 |-> dict[idx[k] + 1]] = [k \in 0..15 |-> From565(c)]
    BY <1>6, <1>7
  <1>9. QED
    BY <1>2, <1>5, <1>8

\* Of more colours: the index of a pixel stands for its rank.
RankIndices(rank) == [k \in 0..15 |-> DxtcIndexTable[rank[k] + 1]]
RankColours(q, r, rank) == [k \in 0..15 |-> Between(From565(q), From565(r), rank[k])]

LEMMA RanksDecoded ==
    ASSUME NEW q, Is565(q), NEW r, Is565(r), Number565(q) > Number565(r), NEW rank \in [0..15 -> 0..3],
           NEW idx, idx = RankIndices(rank), NEW w, w = ColourWord(q, r, idx)
    PROVE  DecodeDxt1Part(w).mode = "four colours" /\ DecodeDxt1Part(w).pixels = RankColours(q, r, rank)
  <1> USE DEF RankIndices, RankColours
  <1>1. idx \in [0..15 -> 0..3]
    BY DEF DxtcIndexTable
  <1>2. ColourWordHolds(w, q, r, idx)
    BY <1>1, ColourWordRead
  <1>3. PICK dict : DecodedWith(w, q, r, idx, dict)
    BY <1>1, <1>2, DxtDecoded
  <1>4. /\ dict[1] = From565(q) /\ dict[2] = From565(r)
        /\ dict[3] = Between(From565(q), From565(r), 2)
        /\ dict[4] = Between(From565(q), From565(r), 1)
        /\ DecodeDxt1Part(w).mode = "four colours"
        /\ DecodeDxt1Part(w).pixels = [k \in 0..15 |-> dict[idx[k] + 1]]
    BY <1>3, Zenon DEF DecodedWith
  <1>5. /\ Between(From565(q), From565(r), 0) = From565(r)
        /\ Between(From565(q), From565(r), 3) = From565(q)
    BY BetweenEnds
  <1>6. \A n \in 0..3 : dict[DxtcIndexTable[n + 1] + 1] = Between(From565(q), From565(r), n)
    <2> TAKE n \in 0..3
    <2>1. /\ DxtcIndexTable[0 + 1] + 1 = 2 /\ DxtcIndexTable[1 + 1] + 1 = 4
          /\ DxtcIndexTable[2 + 1] + 1 = 3 /\ DxtcIndexTable[3 + 1] + 1 = 1
      BY DEF DxtcIndexTable
    <2>2. n = 0 \/ n = 1 \/ n = 2 \/ n = 3
      OBVIOUS
    <2>3. QED
      BY <1>4, <1>5, <2>1, <2>2, Zenon
  <1>7. \A k \in 0..15 : dict[idx[k] + 1] = Between(From565(q), From565(r), rank[k])
    BY <1>6
  <1>8. QED
    BY <1>4, <1>7

LEMMA DxtColourRead ==
    ASSUME EncodeDxtColour
    PROVE  SameBlock(made', Meaning(file'))
  <1>1. PICK p \in DxtBlocks, way \in SolidWays :
           LET e == EndColours(p)
           IN  IF IsSolid(p)
                 THEN /\ made' = [mode |-> "any", pixels |-> [k \in 0..15 |-> From565(to565(p[k]))]]
                      /\ file' = [kind |-> "Dxt1", word |-> SolidWord(p, way)]
                 ELSE /\ made' = [ mode   |-> "four colours",
                                   pixels |-> [k \in 0..15 |-> Between(From565(e.c0), From565(e.c1), Rank(p, k))] ]
                      /\ file' = [kind |-> "Dxt1", word |-> ProcessRGB(p)]
    BY DEF EncodeDxtColour
  <1>2. p \in Pixels
    BY InputsAssumption, Zenon DEF Pixels
  <1>3. PICK q, r : q = EndColours(p).c0 /\ r = EndColours(p).c1
    OBVIOUS
  <1>4. /\ Is565(q) /\ Is565(r)
        /\ ~IsSolid(p) => Number565(q) > Number565(r)
        /\ IsSolid(p) => r = to565(p[0])
    BY <1>2, <1>3, EndsAreOrdered
  <1>5. CASE IsSolid(p)
    <2>1. PICK c : c = to565(p[0])
      OBVIOUS
    <2>2. Is565(c) /\ Is565(Black565)
      <3>1. p[0] \in [1..4 -> 0..255]
        BY <1>2 DEF Pixels
      <3>2. Is565(to565(p[0]))
        BY <3>1, Cut565
      <3>3. Is565(Black565)
        BY DEF Is565, Black565
      <3>4. QED
        BY <2>1, <3>2, <3>3, Zenon
    <2>3. DecodeDxt1Part(SolidWord(p, way)).pixels = AllPixels(From565(c))
      <3>1. PICK zeros, ones : zeros = AllPixels(0) /\ ones = AllPixels(1)
        OBVIOUS
      <3>2. DxtcIndexTable[1] = 1
        BY DEF DxtcIndexTable
      <3>3. /\ way = "single" => SolidWord(p, way) = ColourWord(Black565, c, ones)
            /\ way = "both" => SolidWord(p, way) = ColourWord(c, Black565, zeros)
            /\ way = "one" => SolidWord(p, way) = ColourWord(Black565, c, ones)
        BY <1>3, <1>4, <1>5, <2>1, <3>1, <3>2 DEF SolidWord, AllPixels
      <3>4. DecodeDxt1Part(ColourWord(Black565, c, ones)).pixels = AllPixels(From565(c))
        BY <2>2, <3>1, 0 \in 0..1, 1 \in 0..1, 0 # 1, SolidDecoded
      <3>5. DecodeDxt1Part(ColourWord(c, Black565, zeros)).pixels = AllPixels(From565(c))
        BY <2>2, <3>1, 0 \in 0..1, 1 \in 0..1, 0 # 1, SolidDecoded
      <3>6. QED
        BY <3>3, <3>4, <3>5 DEF SolidWays
    <2>4. [k \in 0..15 |-> From565(to565(p[k]))] = AllPixels(From565(c))
      BY <1>5, <2>1 DEF IsSolid, AllPixels
    <2>5. /\ made' = [mode |-> "any", pixels |-> [k \in 0..15 |-> From565(to565(p[k]))]]
          /\ file' = [kind |-> "Dxt1", word |-> SolidWord(p, way)]
      BY <1>1, <1>5, Zenon
    <2>6. Meaning(file') = DecodeDxt1Part(SolidWord(p, way))
      BY <2>5, DxtMeaning, Zenon
    <2>7. made'.mode = "any" /\ made'.pixels = [k \in 0..15 |-> From565(to565(p[k]))]
      BY <2>5
    <2>8. QED
      BY <2>3, <2>4, <2>6, <2>7, Zenon DEF SameBlock
  <1>6. CASE ~IsSolid(p)
    <2>1. PICK rank : rank = [k \in 0..15 |-> Rank(p, k)]
      OBVIOUS
    <2>2. \A k \in 0..15 : Rank(p, k) \in 0..3
      BY <1>2, RankIs
    <2>3. rank \in [0..15 -> 0..3] /\ \A k \in 0..15 : rank[k] = Rank(p, k)
      BY <2>1, <2>2
    <2>4. PICK idx : idx = RankIndices(rank)
      OBVIOUS
    <2>5. PICK w : w = ColourWord(q, r, idx)
      OBVIOUS
    <2>6. ProcessRGB(p) = w
      BY <1>3, <2>3, <2>4, <2>5 DEF ProcessRGB, RankIndices
    <2>7. DecodeDxt1Part(w).mode = "four colours" /\ DecodeDxt1Part(w).pixels = RankColours(q, r, rank)
      BY <1>4, <1>6, <2>3, <2>4, <2>5, RanksDecoded
    <2>8. /\ made' = [ mode   |-> "four colours",
                       pixels |-> [k \in 0..15 |-> Between(From565(q), From565(r), Rank(p, k))] ]
          /\ file' = [kind |-> "Dxt1", word |-> w]
      BY <1>1, <1>3, <1>6, <2>6, Zenon
    <2>9. [k \in 0..15 |-> Between(From565(q), From565(r), Rank(p, k))] = RankColours(q, r, rank)
      BY <2>3 DEF RankColours
    <2>10. Meaning(file') = DecodeDxt1Part(w)
      BY <2>8, DxtMeaning, Zenon
    <2>11. /\ made'.mode = "four colours"
           /\ made'.pixels = [k \in 0..15 |-> Between(From565(q), From565(r), Rank(p, k))]
      BY <2>8
    <2>12. QED
      BY <2>7, <2>9, <2>10, <2>11, Zenon DEF SameBlock
  <1>7. QED
    BY <1>5, <1>6
-----------------------------------------------------------------------------
(* Alpha words of DXT                                                      *)

AlphaWordHolds(w, a0, a1, idx) ==
    /\ Field(w, 0, 8) = a0 /\ Field(w, 8, 8) = a1
    /\ \A k \in 0..15 : Field(w, 16 + 3 * RowMajor(k), 3) = idx[k]

LEMMA AlphaWordRead ==
    ASSUME NEW a0 \in 0..255, NEW a1 \in 0..255, NEW idx \in [0..15 -> 0..7]
    PROVE  AlphaWordHolds(AlphaWord(a0, a1, idx), a0, a1, idx)
  <1> DEFINE H == {<<a0, 0, 8>>, <<a1, 8, 8>>}
  <1>1. Layout(64, H)
    <2>1. \A x \in H : /\ x[1] \in Nat /\ x[2] \in Nat /\ x[3] \in 1..8
                       /\ x[1] < PowersOfTwo[x[3]] /\ x[2] + x[3] <= 64
      BY DEF PowersOfTwo
    <2>2. \A x, y \in H : x = y \/ x[2] + x[3] <= y[2] \/ y[2] + y[3] <= x[2]
      OBVIOUS
    <2>3. QED
      BY <2>1, <2>2 DEF Layout
  <1>2. PICK s : s = DxtPlaces(16, 3)
    OBVIOUS
  <1>3. /\ \A k \in 0..15 : s[k] = 16 + 3 * RowMajor(k) /\ s[k] \in Nat /\ s[k] >= 16 /\ s[k] + 3 <= 64
        /\ \A i, j \in 0..15 : i = j \/ s[i] + 3 <= s[j] \/ s[j] + 3 <= s[i]
    <2>1. PlacesApart(s, 16, 3)
      BY <1>2, DxtPlacesApart
    <2>2. QED
      BY <2>1, Zenon DEF PlacesApart
  <1>4. PixelPlaces(s, 3, H)
    <2>1. \A x \in H : x[2] + x[3] <= 16 /\ x[2] \in Nat /\ x[3] \in Nat
      OBVIOUS
    <2> HIDE DEF H
    <2>2. \A k \in 0..15 : s[k] \in Nat /\ s[k] + 3 <= 64 /\ 16 <= s[k]
      BY <1>3, SMT
    <2>3. \A x \in H : \A k \in 0..15 : x[2] + x[3] <= s[k]
      BY <2>1, <2>2, SMT
    <2>4. QED
      BY <1>3, <2>2, <2>3, 3 \in 1..8, ZenonT(30) DEF PixelPlaces
  <1>5. FitIn(idx, 3)
    BY DEF PowersOfTwo, FitIn
  <1>6. PartsOf(H) = {<<a0, 0>>, <<a1, 8>>}
    BY DEF PartsOf
  <1>7. PartPerPixel(idx, s) = {<<idx[k], 16 + 3 * RowMajor(k)>> : k \in 0..15}
    BY <1>3 DEF PartPerPixel
  <1>8. PICK w : w = AlphaWord(a0, a1, idx)
    OBVIOUS
  <1>9. w = Or64(PartsOf(H) \union PartPerPixel(idx, s))
    BY <1>6, <1>7, <1>8 DEF AlphaWord
  <1>10. <<a0, 0, 8>> \in H /\ <<a1, 8, 8>> \in H
    OBVIOUS
  <1> HIDE DEF H
  <1>11. /\ \A x \in H : Field(w, x[2], x[3]) = x[1]
         /\ \A k \in 0..15 : Field(w, s[k], 3) = idx[k]
    <2>1. PixelWordHolds(w, H, idx, s, 3)
      BY <1>1, <1>4, <1>5, <1>9, PixelWord
    <2>2. QED
      BY <2>1 DEF PixelWordHolds
  <1>12. /\ Field(w, 0, 8) = a0 /\ Field(w, 8, 8) = a1
         /\ \A k \in 0..15 : Field(w, 16 + 3 * RowMajor(k), 3) = idx[k]
    BY <1>3, <1>10, <1>11
  <1>13. QED
    BY <1>8, <1>12, Zenon DEF AlphaWordHolds

\* Of a block's alphas, smallest and largest are the same in both models.
AlphasOf(a) == {a[k] : k \in 0..15}

LEMMA AlphaEnds ==
    ASSUME NEW a \in [0..15 -> 0..255]
    PROVE  Low(AlphasOf(a)) = Smallest(a) /\ High(AlphasOf(a)) = Largest(a)
  <1>1. PICK X : X = AlphasOf(a)
    OBVIOUS
  <1>2. X \subseteq 0..255 /\ (\A k \in 0..15 : a[k] \in X) /\ \A x \in X : \E k \in 0..15 : x = a[k]
    <2>1. (\A k \in 0..15 : a[k] \in X) /\ \A x \in X : \E k \in 0..15 : x = a[k]
      BY <1>1, Zenon DEF AlphasOf
    <2>2. \A k \in 0..15 : a[k] \in 0..255
      OBVIOUS
    <2>3. \A x \in X : x \in 0..255
      BY <2>1, <2>2
    <2>4. QED
      BY <2>1, <2>3
  <1>3. X # {}
    BY <1>2
  <1>4. /\ Low(X) \in X /\ Low(X) \in 0..255 /\ \A u \in X : Low(X) <= u
        /\ High(X) \in X /\ High(X) \in 0..255 /\ \A u \in X : u <= High(X)
    BY <1>2, <1>3, LowHigh
  <1>5. Smallest(a) \in X /\ \A k \in 0..15 : Smallest(a) <= a[k]
    <2>1. Smallest(a) = CHOOSE v \in X : \A k \in 0..15 : v <= a[k]
      BY <1>1 DEF Smallest, AlphasOf
    <2>2. \E v \in X : \A k \in 0..15 : v <= a[k]
      BY <1>2, <1>4, Zenon
    <2>3. QED
      BY <2>1, <2>2
  <1>6. Largest(a) \in X /\ \A k \in 0..15 : Largest(a) >= a[k]
    <2>1. Largest(a) = CHOOSE v \in X : \A k \in 0..15 : v >= a[k]
      BY <1>1 DEF Largest, AlphasOf
    <2>2. \E v \in X : \A k \in 0..15 : v >= a[k]
      <3>1. \A k \in 0..15 : High(X) >= a[k]
        BY <1>2, <1>4
      <3>2. QED
        BY <1>4, <3>1, Zenon
    <2>3. QED
      BY <2>1, <2>2
  <1>7. Low(X) = Smallest(a)
    <2>1. Low(X) <= Smallest(a) /\ Smallest(a) <= Low(X)
      BY <1>2, <1>4, <1>5
    <2>2. PICK x \in 0..255, y \in 0..255 : x = Low(X) /\ y = Smallest(a)
      BY <1>2, <1>4, <1>5
    <2>3. QED
      BY <2>1, <2>2
  <1>8. High(X) = Largest(a)
    <2>1. High(X) >= Largest(a) /\ Largest(a) >= High(X)
      BY <1>2, <1>4, <1>6
    <2>2. PICK x \in 0..255, y \in 0..255 : x = High(X) /\ y = Largest(a)
      BY <1>2, <1>4, <1>6
    <2>3. QED
      BY <2>1, <2>2
  <1>9. QED
    BY <1>1, <1>7, <1>8

LEMMA AlphaRankIs ==
    ASSUME NEW a \in [0..15 -> 0..255], NEW k \in 0..15
    PROVE  AlphaRank(a, k) \in 0..7
  <1>1. PICK lo \in 0..255, hi \in 0..255, v \in 0..255 : lo = Smallest(a) /\ hi = Largest(a) /\ v = a[k]
    BY Extremes
  <1>2. lo <= v /\ v <= hi
    BY <1>1, Extremes
  <1>3. AlphaRank(a, k) = ((v - lo) * DivTableAlpha(hi - lo)) \div 65536
    BY <1>1, AlphaEnds, SMT DEF AlphaRank, AlphasOf
  <1>4. PICK t \in Nat, r \in Nat : t = v - lo /\ r = hi - lo
    BY <1>2, SMT
  <1>5. t <= r /\ r <= 765
    BY <1>2, <1>4, SMT
  <1>6. DivTableAlpha(r) \in Nat /\ DivTableAlpha(r) <= (65536 * 8) \div (r + 1)
    BY <1>5, SMT DEF DivTableAlpha
  <1>7. PICK q \in Nat : q = DivTableAlpha(r)
    BY <1>6, SMT
  <1>8. q <= (65536 * 8) \div (r + 1)
    BY <1>6, <1>7, SMT
  <1>9. (t * q) \div 65536 \in 0..(8 - 1)
    BY <1>5, <1>8, Divided, SMT
  <1>10. QED
    BY <1>3, <1>4, <1>7, <1>9, SMT

\* The index of a pixel stands for its rank, where the ends differ.
RankAlpha(a0, a1, n) == (n * a0 + (7 - n) * a1) \div 7

AlphaDict(a0, a1, n) ==
    CASE n = 0 -> a0 [] n = 1 -> a1
      [] n > 1 /\ a0 > a1              -> ((8 - n) * a0 + (n - 1) * a1) \div 7
      [] n \in 2..5 /\ a0 <= a1        -> ((6 - n) * a0 + (n - 1) * a1) \div 5
      [] n \in {6, 7} /\ a0 <= a1      -> 255 * (n - 6)

AlphasRead(w, a0, a1) ==
    [ mode   |-> IF a0 > a1 THEN "eight alphas" ELSE "six alphas",
      pixels |-> [k \in 0..15 |-> AlphaDict(a0, a1, Field(w, 16 + 3 * RowMajor(k), 3))] ]

LEMMA AlphaDictIs ==
    ASSUME NEW w, NEW a0, NEW a1, Field(w, 0, 8) = a0, Field(w, 8, 8) = a1
    PROVE  DecodeDxt5Alpha(w) = AlphasRead(w, a0, a1)
  <1>1. DecodeDxt5Alpha(w) = AlphasRead(w, Field(w, 0, 8), Field(w, 8, 8))
    BY DEF DecodeDxt5Alpha, AlphaDict, AlphasRead
  <1>2. QED
    BY <1>1, Zenon

AlphaIndices(rank) == [k \in 0..15 |-> AlphaIndexTable[rank[k] + 1]]
RankAlphas(a0, a1, rank) == [k \in 0..15 |-> RankAlpha(a0, a1, rank[k])]

LEMMA AlphasDecoded ==
    ASSUME NEW a0 \in 0..255, NEW a1 \in 0..255, a0 > a1, NEW rank \in [0..15 -> 0..7],
           NEW idx, idx = AlphaIndices(rank), NEW w, w = AlphaWord(a0, a1, idx)
    PROVE  DecodeDxt5Alpha(w) = [mode |-> "eight alphas", pixels |-> RankAlphas(a0, a1, rank)]
  <1> USE DEF AlphaIndices, RankAlphas
  <1> DEFINE adict(n) == AlphaDict(a0, a1, n)
  <1>1. idx \in [0..15 -> 0..7]
    BY DEF AlphaIndexTable
  <1>2. AlphaWordHolds(w, a0, a1, idx)
    BY <1>1, AlphaWordRead
  <1>3. Field(w, 0, 8) = a0 /\ Field(w, 8, 8) = a1 /\ \A k \in 0..15 : Field(w, 16 + 3 * RowMajor(k), 3) = idx[k]
    BY <1>2 DEF AlphaWordHolds
  <1>4. adict(0) = a0 /\ adict(1) = a1
    BY DEF AlphaDict
  <1>5. \A n \in 2..7 : adict(n) = ((8 - n) * a0 + (n - 1) * a1) \div 7
    <2> TAKE n \in 2..7
    <2>1. n # 0 /\ n # 1 /\ n > 1 /\ ~(a0 <= a1)
      OBVIOUS
    <2>2. QED
      BY <2>1, SMT DEF AlphaDict
  <1>6. DecodeDxt5Alpha(w) = [ mode   |-> IF a0 > a1 THEN "eight alphas" ELSE "six alphas",
                               pixels |-> [k \in 0..15 |-> adict(Field(w, 16 + 3 * RowMajor(k), 3))] ]
    <2>1. DecodeDxt5Alpha(w) = AlphasRead(w, a0, a1)
      BY <1>3, AlphaDictIs, ZenonT(60)
    <2>2. QED
      BY <2>1, Zenon DEF AlphasRead
  <1> HIDE DEF adict
  <1>7. \A n \in 0..7 : adict(AlphaIndexTable[n + 1]) = RankAlpha(a0, a1, n)
    <2> TAKE n \in 0..7
    <2>1. CASE n = 0
      <3>1. AlphaIndexTable[n + 1] = 1
        BY <2>1 DEF AlphaIndexTable
      <3>2. RankAlpha(a0, a1, n) = a1
        BY <2>1 DEF RankAlpha
      <3>3. QED
        BY <1>4, <3>1, <3>2
    <2>2. CASE n = 7
      <3>1. AlphaIndexTable[n + 1] = 0
        BY <2>2 DEF AlphaIndexTable
      <3>2. RankAlpha(a0, a1, n) = a0
        BY <2>2 DEF RankAlpha
      <3>3. QED
        BY <1>4, <3>1, <3>2
    <2>3. CASE n \in 1..6
      <3>1. AlphaIndexTable[n + 1] = 8 - n /\ 8 - n \in 2..7
        BY <2>3 DEF AlphaIndexTable
      <3>2. PICK m \in 2..7 : m = 8 - n
        BY <3>1
      <3>3. adict(m) = ((8 - m) * a0 + (m - 1) * a1) \div 7
        BY <1>5
      <3>4. 8 - m = n /\ m - 1 = 7 - n
        BY <3>2
      <3>5. QED
        BY <3>1, <3>2, <3>3, <3>4, Zenon DEF RankAlpha
    <2>4. QED
      BY <2>1, <2>2, <2>3
  <1>8. \A k \in 0..15 : adict(Field(w, 16 + 3 * RowMajor(k), 3)) = RankAlpha(a0, a1, rank[k])
    BY <1>3, <1>7
  <1>9. [k \in 0..15 |-> adict(Field(w, 16 + 3 * RowMajor(k), 3))] = [k \in 0..15 |-> RankAlpha(a0, a1, rank[k])]
    BY <1>8, Zenon
  <1>10. QED
    BY <1>6, <1>9, Zenon

LEMMA SolidAlphasDecoded ==
    ASSUME NEW v \in 0..255, NEW idx, idx = AllPixels(0), NEW w, w = AlphaWord(v, 0, idx)
    PROVE  DecodeDxt5Alpha(w).pixels = AllPixels(v)
  <1>1. idx \in [0..15 -> 0..7] /\ 0 \in 0..255
    BY DEF AllPixels
  <1>2. AlphaWordHolds(w, v, 0, idx)
    BY <1>1, AlphaWordRead
  <1>3. Field(w, 0, 8) = v /\ Field(w, 8, 8) = 0 /\ \A k \in 0..15 : Field(w, 16 + 3 * RowMajor(k), 3) = idx[k]
    BY <1>2 DEF AlphaWordHolds
  <1>4. DecodeDxt5Alpha(w) = AlphasRead(w, v, 0)
    BY <1>3, AlphaDictIs, Zenon
  <1>5. AlphaDict(v, 0, 0) = v
    BY DEF AlphaDict
  <1>6. \A k \in 0..15 : AlphaDict(v, 0, Field(w, 16 + 3 * RowMajor(k), 3)) = v
    <2>1. \A k \in 0..15 : idx[k] = 0
      BY DEF AllPixels
    <2>2. QED
      BY <1>3, <1>5, <2>1, Zenon
  <1>7. PICK f : f = [k \in 0..15 |-> AlphaDict(v, 0, Field(w, 16 + 3 * RowMajor(k), 3))]
    OBVIOUS
  <1>8. f = AllPixels(v)
    BY <1>6, <1>7 DEF AllPixels
  <1>9. PICK m : m = IF v > 0 THEN "eight alphas" ELSE "six alphas"
    OBVIOUS
  <1>10. DecodeDxt5Alpha(w) = [mode |-> m, pixels |-> f]
    BY <1>4, <1>7, <1>9, Zenon DEF AlphasRead
  <1>11. QED
    BY <1>8, <1>10

LEMMA DxtAlphaRead ==
    ASSUME EncodeDxtAlpha
    PROVE  SameBlock(made', Meaning(file'))
  <1>1. PICK a \in AlphaBlocks :
           LET lo == Smallest(a)
               hi == Largest(a)
           IN  /\ made' = [ mode   |-> IF lo = hi THEN "any" ELSE "eight alphas",
                            pixels |-> [k \in 0..15 |->
                                IF lo = hi THEN lo
                                ELSE (AlphaRank(a, k) * hi + (7 - AlphaRank(a, k)) * lo) \div 7],
                            source |-> a ]
               /\ file' = [kind |-> "alpha of Dxt5", word |-> ProcessAlpha(a)]
    BY DEF EncodeDxtAlpha
  <1>2. a \in [0..15 -> 0..255]
    BY InputsAssumption, Zenon
  <1>3. PICK lo \in 0..255, hi \in 0..255 : lo = Smallest(a) /\ hi = Largest(a)
    BY <1>2, Extremes
  <1>4. \A k \in 0..15 : lo <= a[k] /\ a[k] <= hi /\ a[k] \in 0..255
    BY <1>2, <1>3, Extremes
  <1>5. Low(AlphasOf(a)) = lo /\ High(AlphasOf(a)) = hi
    BY <1>2, <1>3, AlphaEnds
  <1>6. PICK m, f : /\ m = IF lo = hi THEN "any" ELSE "eight alphas"
                    /\ f = [k \in 0..15 |-> IF lo = hi THEN lo
                                            ELSE (AlphaRank(a, k) * hi + (7 - AlphaRank(a, k)) * lo) \div 7]
    OBVIOUS
  <1>7. made' = [mode |-> m, pixels |-> f, source |-> a]
    BY <1>1, <1>3, <1>6, Zenon
  <1>8. made'.mode = m /\ made'.pixels = f
    BY <1>7
  <1>9. Meaning(file') = DecodeDxt5Alpha(ProcessAlpha(a))
    <2>1. file' = [kind |-> "alpha of Dxt5", word |-> ProcessAlpha(a)]
      BY <1>1, Zenon
    <2>2. \A x : Meaning([kind |-> "alpha of Dxt5", word |-> x]) = DecodeDxt5Alpha(x)
      BY DEF Meaning
    <2>3. QED
      BY <2>1, <2>2, Zenon
  <1>10. CASE lo = hi
    <2>1. a[0] = lo
      <3>1. PICK v \in 0..255 : v = a[0] /\ lo <= v /\ v <= hi
        BY <1>4, 0 \in 0..15, Zenon
      <3>2. QED
        BY <1>10, <3>1
    <2>2. PICK idx : idx = AllPixels(0)
      OBVIOUS
    <2>3. ProcessAlpha(a) = AlphaWord(lo, 0, idx)
      BY <1>5, <1>10, <2>1, <2>2, Zenon DEF ProcessAlpha, AlphasOf, AllPixels
    <2>4. DecodeDxt5Alpha(ProcessAlpha(a)).pixels = AllPixels(lo)
      BY <2>2, <2>3, SolidAlphasDecoded
    <2>5. f = AllPixels(lo) /\ m = "any"
      BY <1>6, <1>10, Zenon DEF AllPixels
    <2>6. QED
      BY <1>8, <1>9, <2>4, <2>5, Zenon DEF SameBlock
  <1>11. CASE lo # hi
    <2>1. hi > lo
      <3>1. PICK v \in 0..255 : v = a[0] /\ lo <= v /\ v <= hi
        BY <1>4, 0 \in 0..15, Zenon
      <3>2. QED
        BY <1>11, <3>1
    <2>2. PICK rank : rank = [k \in 0..15 |-> AlphaRank(a, k)]
      OBVIOUS
    <2>3. \A k \in 0..15 : AlphaRank(a, k) \in 0..7
      BY <1>2, AlphaRankIs
    <2>4. rank \in [0..15 -> 0..7] /\ \A k \in 0..15 : rank[k] = AlphaRank(a, k)
      BY <2>2, <2>3
    <2>5. PICK idx : idx = AlphaIndices(rank)
      OBVIOUS
    <2>6. PICK w : w = AlphaWord(hi, lo, idx)
      OBVIOUS
    <2>7. ProcessAlpha(a) = w
      <3>1. ProcessAlpha(a) = AlphaWord(hi, lo, [k \in 0..15 |-> AlphaIndexTable[AlphaRank(a, k) + 1]])
        BY <1>5, <1>11, Zenon DEF ProcessAlpha, AlphasOf
      <3>2. idx = [k \in 0..15 |-> AlphaIndexTable[AlphaRank(a, k) + 1]]
        BY <2>4, <2>5 DEF AlphaIndices
      <3>3. QED
        BY <2>6, <3>1, <3>2, Zenon
    <2>8. DecodeDxt5Alpha(w) = [mode |-> "eight alphas", pixels |-> RankAlphas(hi, lo, rank)]
      BY <2>1, <2>4, <2>5, <2>6, AlphasDecoded, ZenonT(60)
    <2>9. f = RankAlphas(hi, lo, rank) /\ m = "eight alphas"
      <3>1. f = [k \in 0..15 |-> RankAlpha(hi, lo, AlphaRank(a, k))] /\ m = "eight alphas"
        BY <1>6, <1>11, Zenon DEF RankAlpha
      <3>2. QED
        BY <2>4, <3>1 DEF RankAlphas
    <2>10. DecodeDxt5Alpha(w).mode = "eight alphas" /\ DecodeDxt5Alpha(w).pixels = RankAlphas(hi, lo, rank)
      <3>1. PICK e, g : e = "eight alphas" /\ g = RankAlphas(hi, lo, rank)
        OBVIOUS
      <3>2. DecodeDxt5Alpha(w) = [mode |-> e, pixels |-> g]
        BY <2>8, <3>1, Zenon
      <3>3. DecodeDxt5Alpha(w).mode = e /\ DecodeDxt5Alpha(w).pixels = g
        BY <3>2
      <3>4. QED
        BY <3>1, <3>3, Zenon
    <2>11. QED
      BY <1>8, <1>9, <2>7, <2>9, <2>10, Zenon DEF SameBlock
  <1>12. QED
    BY <1>10, <1>11
-----------------------------------------------------------------------------
(* The invariant                                                           *)

\* The word in the file means the block that was made from the moment it is
\* written; what is read is its meaning.
BlockInv ==
    /\ made # Nothing => SameBlock(made, Meaning(file))
    /\ read # Nothing => made # Nothing /\ read = Meaning(file)

LEMMA DecodeReads ==
    ASSUME Decode
    PROVE  read' = Meaning(file)
  BY Zenon DEF Decode, Meaning

LEMMA InvInit ==
    ASSUME Init
    PROVE  BlockInv
  BY Zenon DEF Init, BlockInv

LEMMA InvNext ==
    ASSUME BlockInv, [Next]_vars
    PROVE  BlockInv'
  <1>1. ASSUME made = Nothing, UNCHANGED read, SameBlock(made', Meaning(file'))
        PROVE  BlockInv'
    BY <1>1, Zenon DEF BlockInv
  <1>2. CASE EncodeTH
    BY <1>1, <1>2, THRead, Zenon DEF EncodeTH
  <1>3. CASE EncodePlanar
    BY <1>1, <1>3, PlanarRead, Zenon DEF EncodePlanar
  <1>4. CASE EncodeEtc1
    BY <1>1, <1>4, Etc1Read, Zenon DEF EncodeEtc1
  <1>5. CASE CheckSolid
    BY <1>1, <1>5, SolidRead, Zenon DEF CheckSolid
  <1>6. CASE EncodeAlpha
    BY <1>1, <1>6, AlphaRead, Zenon DEF EncodeAlpha
  <1>7. CASE EncodeDxtColour
    BY <1>1, <1>7, DxtColourRead, Zenon DEF EncodeDxtColour
  <1>8. CASE EncodeDxtAlpha
    BY <1>1, <1>8, DxtAlphaRead, Zenon DEF EncodeDxtAlpha
  <1>9. CASE Decode
    <2>1. made # Nothing /\ UNCHANGED <<made, file>>
      BY <1>9 DEF Decode
    <2>2. read' = Meaning(file)
      BY <1>9, DecodeReads
    <2>3. made' = made /\ Meaning(file') = Meaning(file)
      BY <2>1, Zenon
    <2>4. QED
      BY <2>1, <2>2, <2>3, Zenon DEF BlockInv
  <1>10. CASE Done \/ UNCHANGED vars
    <2>1. made' = made /\ file' = file /\ read' = read
      BY <1>10 DEF Done, vars
    <2>2. Meaning(file') = Meaning(file)
      BY <2>1, Zenon
    <2>3. QED
      BY <2>1, <2>2, Zenon DEF BlockInv
  <1>11. QED
    BY <1>2, <1>3, <1>4, <1>5, <1>6, <1>7, <1>8, <1>9, <1>10 DEF Next

\* For all colours, indices, tables and corners: the decoder takes the branch of
\* the mode that the encoder chose, although no bit of the word names it.
THEOREM ModeKept == Spec => []ModeRecognised
  <1>1. Init => BlockInv
    BY InvInit
  <1>2. BlockInv /\ [Next]_vars => BlockInv'
    BY InvNext
  <1>3. BlockInv => ModeRecognised
    BY Zenon DEF BlockInv, ModeRecognised, SameBlock
  <1>4. QED
    BY <1>1, <1>2, <1>3, PTL DEF Spec

\* For all blocks: every pixel gets the colour, or the alpha, that the encoder's
\* choice stands for, whichever encoder wrote the word.
THEOREM PixelsKept == Spec => []PixelsAsPainted
  <1>1. Init => BlockInv
    BY InvInit
  <1>2. BlockInv /\ [Next]_vars => BlockInv'
    BY InvNext
  <1>3. BlockInv => PixelsAsPainted
    BY Zenon DEF BlockInv, PixelsAsPainted, SameBlock
  <1>4. QED
    BY <1>1, <1>2, <1>3, PTL DEF Spec
-----------------------------------------------------------------------------
(* How far an alpha of DXT5 is off                                         *)

\* A rank n of t in a range of u - 1, with q for 8 * 65536 / u, is about 8 * t / u.
RankBy(n, t, q, u) == q * u <= 524288 /\ 524288 < q * u + u /\ n * 65536 <= t * q /\ t * q < n * 65536 + 65536
RankAbout(n, t, u) == n * u <= 8 * t /\ 8 * t <= n * u + u

LEMMA RankBounds ==
    ASSUME NEW u \in 9..256, NEW t \in Nat, t < u, NEW q \in Nat, NEW n \in Nat, RankBy(n, t, q, u)
    PROVE  RankAbout(n, t, u)
  <1>1. PICK a \in Nat, b \in Nat, c \in Nat, d \in Nat : a = q * u /\ b = t * q /\ c = n * u /\ d = t * u
    BY SMT
  <1>2. a <= 524288 /\ 524288 < a + u /\ n * 65536 <= b /\ b < n * 65536 + 65536
    BY <1>1, SMT DEF RankBy
  <1>3. d <= 65280
    <2>1. t * u <= 255 * u
      BY SMTT(30)
    <2>2. QED
      BY <1>1, <2>1, SMT
  <1>4. PICK e \in Nat : e = b * u /\ e = t * a
    <2>1. b * u = t * a /\ b * u \in Nat
      BY <1>1, SMTT(30)
    <2>2. QED
      BY <2>1, SMT
  <1>5. c * 65536 <= e
    <2>1. (n * 65536) * u <= b * u
      BY <1>2, SMTT(30)
    <2>2. (n * 65536) * u = c * 65536
      BY <1>1, SMTT(30)
    <2>3. QED
      BY <1>4, <2>1, <2>2, SMT
  <1>6. e <= t * 524288
    BY <1>2, <1>4, SMTT(30)
  <1>7. e + u <= c * 65536 + u * 65536
    <2>1. (b + 1) * u <= (n * 65536 + 65536) * u
      BY <1>2, SMTT(30)
    <2>2. (n * 65536 + 65536) * u = c * 65536 + u * 65536
      BY <1>1, SMTT(30)
    <2>3. (b + 1) * u = e + u
      BY <1>4, SMTT(30)
    <2>4. QED
      BY <2>1, <2>2, <2>3, SMT
  <1>8. t * 524289 <= e + d
    <2>1. t * 524289 <= t * (a + u)
      BY <1>2, SMTT(30)
    <2>2. t * (a + u) = e + d
      BY <1>1, <1>4, SMTT(30)
    <2>3. QED
      BY <2>1, <2>2, SMT
  <1>9. c <= 8 * t
    BY <1>5, <1>6, SMT
  <1>10. 8 * t <= c + u
    BY <1>3, <1>7, <1>8, SMT
  <1>11. QED
    BY <1>1, <1>9, <1>10, SMT DEF RankAbout

LEMMA StepOfLargeRange ==
    ASSUME NEW R \in 8..255, NEW t \in Nat, t <= R, NEW n \in Nat,
           n * (R + 1) <= 8 * t, 8 * t <= n * (R + 1) + (R + 1)
    PROVE  (n * R) \div 7 - t \in (-(R \div 7 + 1))..(R \div 7 + 1)
  <1>1. PICK c \in Nat : c = n * R
    BY SMT
  <1>2. c + n <= 8 * t /\ 8 * t <= c + n + R + 1
    BY <1>1, SMTT(30)
  <1>3. n <= t
    <2>1. 9 * n <= n * (R + 1)
      BY SMTT(30)
    <2>2. QED
      BY <2>1, SMT
  <1>4. PICK m \in Int : m = c \div 7
    BY SMT
  <1>5. 7 * m <= c /\ c < 7 * m + 7
    BY <1>4, SMT
  <1>6. PICK s \in Int : s = R \div 7
    BY SMT
  <1>7. 7 * s <= R /\ R < 7 * s + 7
    BY <1>6, SMT
  <1>8. m - t <= s /\ t - m <= s + 1
    BY <1>2, <1>3, <1>5, <1>7, SMT
  <1>9. m - t \in (-(s + 1))..(s + 1)
    BY <1>7, <1>8, SMT
  <1>10. QED
    BY <1>1, <1>4, <1>6, <1>9, SMT

LEMMA StepOfSmallRange ==
    ASSUME NEW R \in 0..7, NEW t \in Nat, t <= R, NEW n \in Nat, n = (t * 65535) \div 65536
    PROVE  (n * R) \div 7 - t \in -3..3
  <1>1. t = 0 \/ t = 1 \/ t = 2 \/ t = 3 \/ t = 4 \/ t = 5 \/ t = 6 \/ t = 7
    BY SMT
  <1>2. IF t = 0 THEN n = 0 ELSE n = t - 1
    BY <1>1, SMT
  <1>3. PICK c \in Nat : c = n * R
    BY SMT
  <1>4. R = 0 \/ R = 1 \/ R = 2 \/ R = 3 \/ R = 4 \/ R = 5 \/ R = 6 \/ R = 7
    BY SMT
  <1>5. c \div 7 - t \in -3..3
    <2>1. CASE R = 0
      BY <1>2, <1>3, <2>1, SMT
    <2>2. CASE R = 1
      BY <1>2, <1>3, <2>2, SMT
    <2>3. CASE R = 2
      BY <1>2, <1>3, <2>3, SMT
    <2>4. CASE R = 3
      BY <1>2, <1>3, <2>4, SMT
    <2>5. CASE R = 4
      BY <1>2, <1>3, <2>5, SMT
    <2>6. CASE R = 5
      BY <1>2, <1>3, <2>6, SMT
    <2>7. CASE R = 6
      BY <1>2, <1>3, <2>7, SMT
    <2>8. CASE R = 7
      BY <1>2, <1>3, <2>8, SMT
    <2>9. QED
      BY <1>4, <2>1, <2>2, <2>3, <2>4, <2>5, <2>6, <2>7, <2>8, SMT
  <1>6. QED
    BY <1>3, <1>5, SMT

StepOf(range) == IF range < 8 THEN 3 ELSE range \div 7 + 1

RankIn(t, range) == (t * DivTableAlpha(range)) \div 65536
WithinStep(n, t, range) == (n * range) \div 7 - t \in (-StepOf(range))..StepOf(range)

LEMMA StepTaken ==
    ASSUME NEW R \in 0..255, NEW t \in Nat, t <= R, NEW n \in Nat, n = RankIn(t, R)
    PROVE  WithinStep(n, t, R)
  <1>1. CASE R < 8
    <2>1. DivTableAlpha(R) = 65535
      <3>1. R = 0 \/ R = 1 \/ R = 2 \/ R = 3 \/ R = 4 \/ R = 5 \/ R = 6 \/ R = 7
        BY <1>1, SMT
      <3>2. QED
        BY <3>1, SMT DEF DivTableAlpha
    <2>2. n = (t * 65535) \div 65536 /\ R \in 0..7
      BY <1>1, <2>1, SMT DEF RankIn
    <2>3. (n * R) \div 7 - t \in -3..3
      BY <2>2, StepOfSmallRange, SMT
    <2>4. QED
      BY <1>1, <2>3, SMT DEF StepOf, WithinStep
  <1>2. CASE R >= 8
    <2>1. PICK u \in 9..256 : u = R + 1
      BY <1>2, SMT
    <2>2. PICK q \in Nat : q = DivTableAlpha(R) /\ q = 524288 \div u
      <3>1. 524288 \div u \in Nat /\ 524288 \div u <= 65535
        BY SMT
      <3>2. QED
        BY <2>1, <3>1, SMT DEF DivTableAlpha
    <2>3. q * u <= 524288 /\ 524288 < q * u + u
      BY <2>2, SMTT(30)
    <2>4. PICK b \in Nat : b = t * q
      BY SMT
    <2>5. n = b \div 65536
      BY <2>2, <2>4, SMT DEF RankIn
    <2>6. n * 65536 <= b /\ b < n * 65536 + 65536
      BY <2>5, SMT
    <2>7. t < u
      BY <2>1, SMT
    <2>8. n * u <= 8 * t /\ 8 * t <= n * u + u
      <3>1. RankBy(n, t, q, u)
        BY <2>3, <2>4, <2>6, SMT DEF RankBy
      <3>2. RankAbout(n, t, u)
        BY <2>7, <3>1, RankBounds
      <3>3. QED
        BY <3>2 DEF RankAbout
    <2>9. R \in 8..255 /\ n * (R + 1) <= 8 * t /\ 8 * t <= n * (R + 1) + (R + 1)
      BY <1>2, <2>1, <2>8, SMT
    <2>10. (n * R) \div 7 - t \in (-(R \div 7 + 1))..(R \div 7 + 1)
      BY <2>9, StepOfLargeRange, SMT
    <2>11. QED
      BY <1>2, <2>10, SMT DEF StepOf, WithinStep
  <1>3. QED
    BY <1>1, <1>2, SMT

LEMMA AlphaOff ==
    ASSUME NEW a \in [0..15 -> 0..255], NEW k \in 0..15
    PROVE  (AlphaRank(a, k) * Largest(a) + (7 - AlphaRank(a, k)) * Smallest(a)) \div 7 - a[k]
             \in (-StepOf(RangeOf(a)))..StepOf(RangeOf(a))
  <1>1. PICK lo \in 0..255, hi \in 0..255, v \in 0..255 : lo = Smallest(a) /\ hi = Largest(a) /\ v = a[k]
    BY Extremes
  <1>2. lo <= v /\ v <= hi
    BY <1>1, Extremes
  <1>3. PICK R \in 0..255, t \in Nat : R = hi - lo /\ t = v - lo
    BY <1>2, SMT
  <1>4. PICK n \in 0..7 : n = AlphaRank(a, k)
    BY AlphaRankIs
  <1>5. n = RankIn(t, R)
    <2>1. AlphaRank(a, k) = ((v - lo) * DivTableAlpha(hi - lo)) \div 65536
      BY <1>1, AlphaEnds, SMT DEF AlphaRank, AlphasOf
    <2>2. QED
      BY <1>3, <1>4, <2>1, SMT DEF RankIn
  <1>6. t <= R /\ n \in Nat
    BY <1>2, <1>3, SMT
  <1>7. (n * R) \div 7 - t \in (-StepOf(R))..StepOf(R)
    <2>1. WithinStep(n, t, R)
      BY <1>5, <1>6, StepTaken
    <2>2. QED
      BY <2>1 DEF WithinStep
  <1>8. (n * hi + (7 - n) * lo) \div 7 = lo + (n * R) \div 7
    <2>1. PICK c \in Nat : c = n * R
      BY SMT
    <2>2. n * hi + (7 - n) * lo = 7 * lo + c
      BY <1>3, <2>1, SMTT(30)
    <2>3. (7 * lo + c) \div 7 = lo + c \div 7
      BY SMT
    <2>4. QED
      BY <2>1, <2>2, <2>3, SMT
  <1>9. PICK m \in Int : m = (n * R) \div 7
    BY SMT
  <1>10. (lo + m) - v = m - t
    BY <1>3, SMT
  <1>11. (n * hi + (7 - n) * lo) \div 7 - v \in (-StepOf(R))..StepOf(R)
    BY <1>7, <1>8, <1>9, <1>10, SMT
  <1>12. RangeOf(a) = R
    BY <1>1, <1>3 DEF RangeOf
  <1>13. QED
    BY <1>1, <1>4, <1>11, <1>12, SMT

AlphasOff(p, a) == \A k \in 0..15 : p[k] - a[k] \in (-StepOf(RangeOf(a)))..StepOf(RangeOf(a))

LEMMA MadeWithinStep ==
    ASSUME EncodeDxtAlpha
    PROVE  AlphasOff(made'.pixels, made'.source)
  <1>1. PICK a \in AlphaBlocks :
           LET lo == Smallest(a)
               hi == Largest(a)
           IN  made' = [ mode   |-> IF lo = hi THEN "any" ELSE "eight alphas",
                         pixels |-> [k \in 0..15 |->
                             IF lo = hi THEN lo
                             ELSE (AlphaRank(a, k) * hi + (7 - AlphaRank(a, k)) * lo) \div 7],
                         source |-> a ]
    BY DEF EncodeDxtAlpha
  <1>2. a \in [0..15 -> 0..255]
    BY InputsAssumption, Zenon
  <1>3. PICK lo \in 0..255, hi \in 0..255 : lo = Smallest(a) /\ hi = Largest(a)
    BY <1>2, Extremes
  <1>4. \A k \in 0..15 : lo <= a[k] /\ a[k] <= hi /\ a[k] \in 0..255
    BY <1>2, <1>3, Extremes
  <1>5. PICK m, f : /\ m = IF lo = hi THEN "any" ELSE "eight alphas"
                    /\ f = [k \in 0..15 |-> IF lo = hi THEN lo
                                            ELSE (AlphaRank(a, k) * hi + (7 - AlphaRank(a, k)) * lo) \div 7]
    OBVIOUS
  <1>6. made' = [mode |-> m, pixels |-> f, source |-> a]
    BY <1>1, <1>3, <1>5, Zenon
  <1>7. made'.pixels = f /\ made'.source = a
    BY <1>6
  <1>8. PICK R \in 0..255, s \in Nat : R = RangeOf(a) /\ s = StepOf(R)
    <2>1. RangeOf(a) \in 0..255
      BY <1>2, Extremes
    <2>2. \A x \in 0..255 : StepOf(x) \in Nat
      BY DEF StepOf
    <2>3. QED
      BY <2>1, <2>2, Zenon
  <1>9. CASE lo = hi
    <2>1. \A k \in 0..15 : f[k] = lo
      BY <1>5, <1>9
    <2>2. \A k \in 0..15 : lo - a[k] \in (-s)..s
      <3> TAKE k \in 0..15
      <3>1. PICK v \in 0..255 : v = a[k] /\ lo <= v /\ v <= hi
        BY <1>4, Zenon
      <3>2. lo - v = 0 /\ 0 \in (-s)..s
        BY <1>9, <3>1
      <3>3. QED
        BY <3>1, <3>2
    <2>3. QED
      BY <1>7, <1>8, <2>1, <2>2, Zenon DEF AlphasOff
  <1>10. CASE lo # hi
    <2>1. \A k \in 0..15 : f[k] = (AlphaRank(a, k) * Largest(a) + (7 - AlphaRank(a, k)) * Smallest(a)) \div 7
      <3>1. f = [k \in 0..15 |-> (AlphaRank(a, k) * Largest(a) + (7 - AlphaRank(a, k)) * Smallest(a)) \div 7]
        BY <1>3, <1>5, <1>10, Zenon
      <3>2. QED
        BY <3>1, Zenon
    <2>2. \A k \in 0..15 : (AlphaRank(a, k) * Largest(a) + (7 - AlphaRank(a, k)) * Smallest(a)) \div 7 - a[k]
                             \in (-StepOf(RangeOf(a)))..StepOf(RangeOf(a))
      BY <1>2, AlphaOff, Zenon
    <2>3. QED
      BY <1>7, <2>1, <2>2, Zenon DEF AlphasOff
  <1>11. QED
    BY <1>9, <1>10

\* Only ProcessAlpha writes alpha words of DXT5.
LEMMA OtherKinds ==
    ASSUME EncodeTH \/ EncodePlanar \/ EncodeEtc1 \/ CheckSolid \/ EncodeAlpha \/ EncodeDxtColour
    PROVE  file'.kind # "alpha of Dxt5"
  <1>1. CASE EncodeTH \/ EncodePlanar \/ EncodeEtc1 \/ CheckSolid
    <2>1. \E x, y : file' = ColourFile(x, y)
      BY <1>1, Zenon DEF EncodeTH, EncodePlanar, EncodeEtc1, CheckSolid
    <2>2. PICK x : file' = [kind |-> "Etc2_RGB", word |-> x]
      BY <2>1, Zenon DEF ColourFile
    <2>3. QED
      BY <2>2
  <1>2. CASE EncodeAlpha
    <2>1. PICK x : file' = [kind |-> "alpha of Etc2_RGBA", word |-> x]
      BY <1>2, Zenon DEF EncodeAlpha
    <2>2. QED
      BY <2>1
  <1>3. CASE EncodeDxtColour
    <2>1. PICK x : file' = [kind |-> "Dxt1", word |-> x]
      BY <1>3, Zenon DEF EncodeDxtColour
    <2>2. QED
      BY <2>1
  <1>4. QED
    BY <1>1, <1>2, <1>3

StepInv == (made # Nothing /\ file.kind = "alpha of Dxt5") => AlphasOff(made.pixels, made.source)

LEMMA StepNext ==
    ASSUME StepInv, [Next]_vars
    PROVE  StepInv'
  <1>1. CASE EncodeTH \/ EncodePlanar \/ EncodeEtc1 \/ CheckSolid \/ EncodeAlpha \/ EncodeDxtColour
    BY <1>1, OtherKinds, Zenon DEF StepInv
  <1>2. CASE EncodeDxtAlpha
    BY <1>2, MadeWithinStep, Zenon DEF StepInv
  <1>3. CASE Decode \/ Done \/ UNCHANGED vars
    <2>1. made' = made /\ file' = file
      BY <1>3 DEF Decode, Done, vars
    <2>2. QED
      BY <2>1, Zenon DEF StepInv
  <1>4. QED
    BY <1>1, <1>2, <1>3 DEF Next

\* For all alphas of a block: what a DXT5 block gives a pixel is off by at most a
\* step, or by 3 where DivTableAlpha is cut off.
THEOREM AlphaKept == Spec => []AlphaWithinStep
  <1>1. Init => BlockInv /\ StepInv
    BY InvInit, Zenon DEF Init, StepInv
  <1>2. BlockInv /\ StepInv /\ [Next]_vars => (BlockInv /\ StepInv)'
    BY InvNext, StepNext
  <1>3. BlockInv /\ StepInv => AlphaWithinStep
    <2>1. SUFFICES ASSUME BlockInv, StepInv, read # Nothing, file.kind = "alpha of Dxt5"
                   PROVE  LET range == RangeOf(made.source)
                              step  == IF range < 8 THEN 3 ELSE range \div 7 + 1
                          IN  \A k \in 0..15 : read.pixels[k] - made.source[k] \in -step..step
      BY DEF AlphaWithinStep
    <2>2. read.pixels = made.pixels /\ made # Nothing
      BY <2>1, Zenon DEF BlockInv, SameBlock
    <2>3. AlphasOff(made.pixels, made.source)
      BY <2>1, <2>2, Zenon DEF StepInv
    <2>4. QED
      BY <2>2, <2>3, Zenon DEF AlphasOff, StepOf
  <1>4. QED
    BY <1>1, <1>2, <1>3, PTL DEF Spec
=============================================================================
