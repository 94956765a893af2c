----------------------------- MODULE BlockWord -----------------------------
(***************************************************************************)
(* The 64-bit words of one block, from what the encoders' searches have    *)
(* found to the pixels that the decoders paint: the colour word of ETC2,   *)
(* here, its alpha word (EacWord) and the words of DXT (DxtWord).          *)
(*                                                                         *)
(* A colour word is two halves.  The format has no field for the mode: T,  *)
(* H and planar words are those whose "differential" red, green or blue    *)
(* leaves 0..31, so the packing has to choose the unused bits for the      *)
(* decoder to take the intended branch.  In an H word one bit of the       *)
(* distance is told only by the order of the two colours.                  *)
(*                                                                         *)
(* The searches are left out: the distance, the indices, the modifiers,    *)
(* the table and the planar corners are chosen freely.  The two colours of *)
(* a T or H block are computed from its sixteen pixels, as the code does.  *)
(* A colour is a sequence of three bytes, red first; pixel k of a block is *)
(* the one in column k \div 4 and row k % 4.                               *)
(***************************************************************************)
EXTENDS EacWord, DxtWord, FiniteSets

CONSTANTS
    Colours,        \* averages of half blocks, and colours of blocks of one colour
    THBlocks,       \* colours of the pixels of a block that SelectModeETC2 looks at
    IndexSets,      \* the index (0..3) of each pixel, as a search may choose
    Modifiers,      \* modifier tables that the ETC1 search may choose, in 0..7
    Corners,        \* r6g7b6 colours of the planar corners
    AlphaBlocks,    \* alpha of the pixels of a block
    DxtBlocks       \* colours of the pixels of a block, each with the alpha behind

ASSUME InputsAssumption ==
    /\ Colours \subseteq [1..3 -> 0..255]
    /\ THBlocks \subseteq [0..15 -> [1..3 -> 0..255]]
    /\ IndexSets \subseteq [0..15 -> 0..3]
    /\ Modifiers \subseteq 0..7
    /\ \A c \in Corners : c[1] \in 0..63 /\ c[2] \in 0..127 /\ c[3] \in 0..63
    /\ AlphaBlocks \subseteq [0..15 -> 0..255]
    /\ DxtBlocks \subseteq [0..15 -> [1..4 -> 0..255]]

VARIABLES
    made,       \* mode and pixels of the block as the encoder sees them, and its source
    file,       \* the word as it is in the file (of a colour word two halves) and its kind
    read        \* mode and pixels of the block as the decoder sees them

vars == <<made, file, read>>

----------------------------------------------------------------------------
(* T and H blocks: compressBlockTH                                         *)

tableTH == <<3, 6, 11, 16, 23, 32, 41, 64>>

Luma(c) == (38 * c[1] + 76 * c[2] + 14 * c[3]) \div 128

\* insertionSort: the pixels in order of luma, equal ones as they stood.  From
\* here on p is such a sequence, and s the last pixel of its left part.
insertionSort(b) ==
    LET l == [k \in 0..15 |-> Luma(b[k])]
        place == [k \in 0..15 |-> Cardinality({j \in 0..15 : l[j] < l[k] \/ (l[j] = l[k] /\ j < k)})]
    IN  [n \in 0..15 |-> b[CHOOSE k \in 0..15 : place[k] = n]]

\* lumaRange >= ecmd_threshold[2], in steps of 1/255
HighContrast(p) == Luma(p[15]) - Luma(p[0]) >= 97

diffBonus == <<8, 4, 2, 0, 0, 0, 0, 0, 0, 0, 0, 0, 2, 4, 8>>

\* The first cut that leaves the smallest sum of both ranges and bonus.
minSumRangeIdx(p) ==
    LET l == [k \in 0..15 |-> Luma(p[k])]
        sum == [i \in 0..14 |-> (l[15] - l[i + 1]) + (l[i] - l[0]) + diffBonus[i + 1]]
    IN  CHOOSE i \in 0..14 : \A j \in 0..14 : sum[i] < sum[j] \/ (sum[i] = sum[j] /\ i <= j)

lRange(p, s) == Luma(p[s]) - Luma(p[0])
rRange(p, s) == Luma(p[15]) - Luma(p[s + 1])

Swapped(p, s) == lRange(p, s) >= rRange(p, s) /\ lRange(p, s) >= 2 * rRange(p, s)
TMode(p, s)   == Swapped(p, s) \/ (lRange(p, s) < rRange(p, s) /\ 2 * lRange(p, s) <= rRange(p, s))

\* The left part gives the middle of its ends; the right part does so in an H
\* block, and in a T block its mean.
mid_rgb(p, s) ==
    LET left  == Map3(LAMBDA i : (p[0][i] + p[s][i]) \div 2)
        right == Map3(LAMBDA i : (p[s + 1][i] + p[15][i]) \div 2)
        mean  == Map3(LAMBDA i : Sum16(LAMBDA k : IF k > s THEN p[k][i] ELSE 0) \div (15 - s))
    IN  IF Swapped(p, s) THEN <<mean, left>>
        ELSE IF TMode(p, s) THEN <<left, mean>>
        ELSE <<left, right>>

compressColor(mid, tMode) ==
    LET q(v) == (15 * (v + 8)) \div 255
    IN  << Map3(LAMBDA i : IF tMode THEN Clamp(0, q(mid[1][i]), 15) ELSE Clamp(1, q(mid[1][i]), 14)),
           Map3(LAMBDA i : Clamp(1, q(mid[2][i]), 14)) >>

Shifted(c, by) == Map3(LAMBDA i : Clamp(0, 17 * c[i] + by, 255))

calculatePaintColors59T(d, c) ==
    <<Shifted(c[1], 0), Shifted(c[2], tableTH[d + 1]), Shifted(c[2], 0), Shifted(c[2], -tableTH[d + 1])>>

calculatePaintColors58H(d, c) ==
    << Shifted(c[1], tableTH[d + 1]), Shifted(c[1], -tableTH[d + 1]),
       Shifted(c[2], tableTH[d + 1]), Shifted(c[2], -tableTH[d + 1]) >>

\* The order in which the search collects indices: first pixel in the top bits.
SearchIndices(idx) ==
    Or({<<idx[k], 2 * (15 - (4 * (k % 4) + k \div 4))>> : k \in 0..15})

indexConversion(s) ==
    [b \in 0..31 |-> s[2 * (15 - (4 * (b % 4) + (b % 16) \div 4)) + b \div 16]]

PackedColour(c) == 256 * c[1] + 16 * c[2] + c[3]

\* The colours of an H block change places when their order tells the wrong distance.
ColoursSwap(c, d) == (PackedColour(c[1]) >= PackedColour(c[2])) # (d % 2 = 1)

OtherPair_Forgotten(s) == s
OtherPair(s) == [i \in 0..31 |-> IF i % 2 = 1 THEN 1 - s[i] ELSE s[i]]

PackT(c, d) ==
    Or({<<c[1][1], 23>>, <<c[1][2], 19>>, <<c[1][3], 15>>,
        <<c[2][1], 11>>, <<c[2][2], 7>>, <<c[2][3], 3>>, <<d, 0>>})

PackH(c, d) ==
    Or({<<c[1][1], 22>>, <<c[1][2], 18>>, <<c[1][3], 14>>,
        <<c[2][1], 10>>, <<c[2][2], 6>>, <<c[2][3], 2>>, <<d \div 2, 0>>})

\* Which of the unused bits are ones; the other one is then a zero.
PadWithOnes_NoCarry(a, b, c, d) == a = 1 /\ (c = 1 \/ (b = 1 /\ d = 1))
PadWithOnes(a, b, c, d) ==
    \/ a = 1 /\ c = 1
    \/ a = 0 /\ b = 1 /\ c = 1 /\ d = 1
    \/ a = 1 /\ b = 1 /\ c = 0 /\ d = 1

stuff59bits(w) ==
    LET ones == PadWithOnes(w[26], w[25], w[24], w[23])
    IN  [i \in 0..31 |-> CASE i \in 29..31 -> Flag(ones)
                           [] i \in 27..28 -> w[i - 2]
                           [] i = 26       -> Flag(~ones)
                           [] i \in 2..25  -> w[i - 1]
                           [] i = 1        -> 1
                           [] i = 0        -> w[0]]

stuff58bits(w) ==
    LET ones == PadWithOnes(w[18], w[17], w[16], w[15])
    IN  [i \in 0..31 |-> CASE i = 31       -> 1 - w[25]
                           [] i \in 24..30 -> w[i - 5]
                           [] i \in 21..23 -> Flag(ones)
                           [] i \in 19..20 -> w[i - 2]
                           [] i = 18       -> Flag(~ones)
                           [] i \in 2..17  -> w[i - 1]
                           [] i = 1        -> 1
                           [] i = 0        -> w[0]]

compressBlockTH(p, s, d, idx) ==
    LET t  == TMode(p, s)
        c  == compressColor(mid_rgb(p, s), t)
        i  == SearchIndices(idx)
        sw == ~t /\ ColoursSwap(c, d)
        c2 == IF sw THEN <<c[2], c[1]>> ELSE c
    IN  [ paint |-> IF t THEN calculatePaintColors59T(d, c) ELSE calculatePaintColors58H(d, c),
          lo    |-> IF t THEN stuff59bits(PackT(c2, d)) ELSE stuff58bits(PackH(c2, d)),
          hi    |-> indexConversion(IF sw THEN OtherPair(i) ELSE i) ]

----------------------------------------------------------------------------
(* Planar blocks                                                           *)

\* Positions of the ones in entry i of g_flags.
g_flags(i) ==
    {1} \union (IF i < 32 THEN {31} ELSE {})
        \union (IF i % 32 < 16 THEN {23} ELSE {})
        \union (IF i % 16 \in {7, 10, 11, 13, 14, 15} THEN {13, 14, 15} ELSE {10})

FlagIndex(co) ==
    32 * BitOf(co[1], 5) + 16 * BitOf(co[2], 5) + ((co[3] \div 2) % 16)

PlanarLo(co, ch) ==
    LET w == Or({<<ch[1] % 2, 0>>, <<ch[1] \div 2, 2>>, <<co[3] % 8, 7>>,
                 <<(co[3] \div 8) % 4, 11>>, <<co[3] \div 32, 16>>,
                 <<co[2] % 64, 17>>, <<co[2] \div 64, 24>>, <<co[1], 25>>})
    IN  [i \in 0..31 |-> IF i \in g_flags(FlagIndex(co)) THEN 1 ELSE w[i]]

PlanarHi(ch, cv) ==
    Or({<<cv[3], 0>>, <<cv[2], 6>>, <<cv[1], 13>>, <<ch[3], 19>>, <<ch[2], 25>>})

\* expand6 and expand7 of a corner
Expand(c) == <<4 * c[1] + c[1] \div 16, 2 * c[2] + c[2] \div 64, 4 * c[3] + c[3] \div 16>>

\* The plane through three corners, at pixel k.
PlanarPixel(o, h, v, k) ==
    Map3(LAMBDA i : Clamp(0, ((k \div 4) * (h[i] - o[i]) + (k % 4) * (v[i] - o[i])
                               + 4 * o[i] + 2) \div 4, 255))

----------------------------------------------------------------------------
(* ETC1 blocks                                                             *)

g_table == << <<2, 8, -2, -8>>, <<5, 17, -5, -17>>, <<9, 29, -9, -29>>, <<13, 42, -13, -42>>,
              <<18, 60, -18, -60>>, <<24, 80, -24, -80>>, <<33, 106, -33, -106>>, <<47, 183, -47, -183>> >>

Quantise(v, q) == LET t == v * q + 128 IN (t + t \div 256) \div 256

\* The quantised averages of the second and of the first half of a block.
ProcessAverages(avg, diff) ==
    LET q(h) == Map3(LAMBDA i : Quantise(avg[h][i], IF diff = 1 THEN 31 ELSE 15))
        near(i) == q(2)[i] + Clamp(-4, q(1)[i] - q(2)[i], 3)
    IN  <<IF diff = 1 THEN Map3(near) ELSE q(1), q(2)>>

\* diff: 5 bits and a difference of 3; otherwise 4 bits each
EncodeAverages(a, diff, flip) ==
    LET byte(i) == IF diff = 1 THEN 8 * a[2][i] + ((a[1][i] - a[2][i]) % 8)
                               ELSE a[1][i] + 16 * a[2][i]
    IN  {<<byte(1), 0>>, <<byte(2), 8>>, <<byte(3), 16>>, <<2 * diff + flip, 24>>}

\* 0: pixel k is in the first half, 1: in the second
HalfOf(k, flip) == IF flip = 1 THEN (k % 4) \div 2 ELSE k \div 8

BaseColour(c, diff) ==
    Map3(LAMBDA i : IF diff = 1 THEN 8 * c[i] + c[i] \div 4 ELSE 17 * c[i])

Modified(c, m) == Map3(LAMBDA i : Clamp(0, c[i] + m, 255))

EncodeSelectors(averages, tidx, idx) ==
    << Or(averages \union {<<tidx[1], 26>>, <<tidx[2], 29>>}),
       Bswap(Or({<<idx[k] % 2, k>> : k \in 0..15} \union {<<idx[k] \div 2, 16 + k>> : k \in 0..15})) >>

----------------------------------------------------------------------------
(* The decoder                                                             *)

\* Base and difference of channel i, and whether their sum leaves 0..31.
Base(d, i)  == Field(d, 35 - 8 * i, 5)
Delta(d, i) == LET v == Field(d, 32 - 8 * i, 3) IN IF v > 3 THEN v - 8 ELSE v
Leaves(d, i) == Base(d, i) + Delta(d, i) \notin 0..31

ModeOf(d) ==
    IF d[1] = 0 THEN "individual"
    ELSE IF Leaves(d, 1) THEN "T"
    ELSE IF Leaves(d, 2) THEN "H"
    ELSE IF Leaves(d, 3) THEN "planar"
    ELSE "differential"

IndexAt(hi, k) == 2 * hi[16 + k] + hi[k]

DecodeT(d, hi) ==
    LET c == << <<4 * Field(d, 27, 2) + Field(d, 24, 2), Field(d, 20, 4), Field(d, 16, 4)>>,
                <<Field(d, 12, 4), Field(d, 8, 4), Field(d, 4, 4)>> >>
        codeword == 2 * Field(d, 2, 2) + d[0]
    IN  [k \in 0..15 |-> calculatePaintColors59T(codeword, c)[IndexAt(hi, k) + 1]]

DecodeH(d, hi) ==
    LET c == << <<Field(d, 27, 4), d[20] + 2 * Field(d, 24, 3), Field(d, 15, 3) + 8 * d[19]>>,
                <<Field(d, 11, 4), Field(d, 7, 4), Field(d, 3, 4)>> >>
        codeword == 4 * d[2] + 2 * d[0] + Flag(PackedColour(c[1]) >= PackedColour(c[2]))
    IN  [k \in 0..15 |-> calculatePaintColors58H(codeword, c)[IndexAt(hi, k) + 1]]

DecodePlanar(d, hi) ==
    LET v == <<Field(hi, 13, 6), Field(hi, 6, 7), Field(hi, 0, 6)>>
        h == <<d[0] + 2 * Field(d, 2, 5), Field(hi, 25, 7), Field(hi, 19, 6)>>
        o == << Field(d, 25, 6), Field(d, 17, 6) + 64 * d[24],
                Field(d, 7, 3) + 8 * Field(d, 11, 2) + 32 * d[16] >>
    IN  [k \in 0..15 |-> PlanarPixel(Expand(o), Expand(h), Expand(v), k)]

DecodeEtc1(d, hi) ==
    LET diff == d[1]
        c == IF diff = 1
             THEN << Map3(LAMBDA i : Base(d, i)), Map3(LAMBDA i : Base(d, i) + Delta(d, i)) >>
             ELSE << Map3(LAMBDA i : Field(d, 36 - 8 * i, 4)), Map3(LAMBDA i : Field(d, 32 - 8 * i, 4)) >>
        tcw == <<Field(d, 5, 3), Field(d, 2, 3)>>
    IN  [k \in 0..15 |-> LET h == HalfOf(k, d[0]) + 1
                         IN  Modified(BaseColour(c[h], diff), g_table[tcw[h] + 1][IndexAt(hi, k) + 1])]

DecodeRGBPart(lo, hi) ==
    LET d == Bswap(lo)
        i == Bswap(hi)
        m == ModeOf(d)
    IN  [ mode   |-> m,
          pixels |-> CASE m = "T"      -> DecodeT(d, i)
                       [] m = "H"      -> DecodeH(d, i)
                       [] m = "planar" -> DecodePlanar(d, i)
                       [] OTHER        -> DecodeEtc1(d, i) ]

----------------------------------------------------------------------------
(* One block, encoded and decoded                                          *)

Nothing == [mode |-> "none"]

NoWord == [kind |-> "none", word |-> <<>>]
ColourFile(lo, hi) == [kind |-> "Etc2_RGB", word |-> <<lo, hi>>]

Init == made = Nothing /\ file = NoWord /\ read = Nothing

EncodeTH ==
    /\ made = Nothing
    /\ \E p \in {insertionSort(b) : b \in THBlocks} :
         LET s == minSumRangeIdx(p)
         IN  /\ HighContrast(p)
             /\ \E d \in 0..7, idx \in IndexSets :
                  LET w == compressBlockTH(p, s, d, idx)
                  IN  /\ made' = [ mode   |-> IF TMode(p, s) THEN "T" ELSE "H",
                                   pixels |-> [k \in 0..15 |-> w.paint[idx[k] + 1]] ]
                      /\ file' = ColourFile(Bswap(w.lo), Bswap(w.hi))
    /\ UNCHANGED read

EncodePlanar ==
    /\ made = Nothing
    /\ \E o, h, v \in Corners :
         /\ made' = [mode |-> "planar", pixels |-> [k \in 0..15 |-> PlanarPixel(Expand(o), Expand(h), Expand(v), k)]]
         /\ file' = ColourFile(Bswap(PlanarLo(o, h)), Bswap(PlanarHi(h, v)))
    /\ UNCHANGED read

EncodeEtc1 ==
    /\ made = Nothing
    /\ \E avg \in [1..2 -> Colours], diff, flip \in 0..1, tidx \in [1..2 -> Modifiers], idx \in IndexSets :
         LET a == ProcessAverages(avg, diff)
         IN  /\ made' = [ mode   |-> IF diff = 1 THEN "differential" ELSE "individual",
                          pixels |-> [k \in 0..15 |->
                              LET h == 2 - HalfOf(k, flip)
                              IN  Modified(BaseColour(a[h], diff), g_table[tidx[h] + 1][idx[k] + 1])] ]
             /\ LET w == EncodeSelectors(EncodeAverages(a, diff, flip), tidx, idx)
                IN  file' = ColourFile(w[1], w[2])
    /\ UNCHANGED read

CheckSolid ==
    /\ made = Nothing
    /\ \E c \in Colours :
         /\ made' = [ mode   |-> "differential",
                      pixels |-> [k \in 0..15 |-> Modified(BaseColour(Map3(LAMBDA i : c[i] \div 8), 1), 2)] ]
         /\ file' = ColourFile(Or({<<8 * (c[i] \div 8), 8 * (i - 1)>> : i \in 1..3} \union {<<2, 24>>}),
                               Or({}))
    /\ UNCHANGED read

\* The alpha word beside the colour word of an ETC2 RGBA block.
EncodeAlpha ==
    /\ made = Nothing
    /\ \E a \in AlphaBlocks, sel \in 0..15 :
         IF RangeOf(a) = 0
           THEN /\ made' = [mode |-> "any", pixels |-> a]
                /\ file' = [kind |-> "alpha of Etc2_RGBA", word |-> SolidAlphaWord(a[0])]
           ELSE /\ made' = [mode |-> "any", pixels |-> SearchedAlpha(a, sel)]
                /\ file' = [kind |-> "alpha of Etc2_RGBA", word |-> ProcessAlpha_ETC2(a, sel)]
    /\ UNCHANGED read

\* The colour word of DXT1 and DXT5.
EncodeDxtColour ==
    /\ made = Nothing
    /\ \E p \in DxtBlocks, way \in SolidWays :
         LET e == EndColours(p)
         IN  IF IsSolid(p)
               THEN /\ made' = [mode |-> "any", pixels |-> [k \in 0..15 |-> From565(to565(p[k]))]]
                    /\ file' = [kind |-> "Dxt1", word |-> SolidWord(p, way)]
               ELSE /\ VRange(p) <= DivTableLast
                    /\ made' = [ mode   |-> "four colours",
                                 pixels |-> [k \in 0..15 |-> Between(From565(e.c0), From565(e.c1), Rank(p, k))] ]
                    /\ file' = [kind |-> "Dxt1", word |-> ProcessRGB(p)]
    /\ UNCHANGED read

\* The alpha word of DXT5: the ranks stand for eight steps from min to max.
EncodeDxtAlpha ==
    /\ made = Nothing
    /\ \E a \in AlphaBlocks :
         LET lo == Smallest(a)
             hi == Largest(a)
         IN  /\ made' = [ mode   |-> IF lo = hi THEN "any" ELSE "eight alphas",
                          pixels |-> [k \in 0..15 |->
                              IF lo = hi THEN lo
                              ELSE (AlphaRank(a, k) * hi + (7 - AlphaRank(a, k)) * lo) \div 7],
                          source |-> a ]
             /\ file' = [kind |-> "alpha of Dxt5", word |-> ProcessAlpha(a)]
    /\ UNCHANGED read

Decode ==
    /\ made # Nothing /\ read = Nothing
    /\ read' = CASE file.kind = "Etc2_RGB"           -> DecodeRGBPart(file.word[1], file.word[2])
                 [] file.kind = "alpha of Etc2_RGBA" -> [mode |-> "any", pixels |-> DecodeAlpha(file.word)]
                 [] file.kind = "Dxt1"               -> DecodeDxt1Part(file.word)
                 [] file.kind = "alpha of Dxt5"      -> DecodeDxt5Alpha(file.word)
    /\ UNCHANGED <<made, file>>

Done == read # Nothing /\ UNCHANGED vars

Next ==
    \/ EncodeAlpha \/ EncodeDxtColour \/ EncodeDxtAlpha
    \/ EncodeTH \/ CheckSolid \/ EncodeEtc1 \/ EncodePlanar
    \/ Decode \/ Done

Spec == Init /\ [][Next]_vars

----------------------------------------------------------------------------
(* Properties                                                              *)

\* The decoder takes the branch of the mode that the encoder chose, although
\* the word holds no mode (DecodeRGBPart's overflow tests against stuff59bits,
\* stuff58bits, g_flags and the clamped differences of ProcessAverages; and the
\* order of the two colours, or alphas, of a DXT word, which the inset and the
\* cut to 565 must not reverse or make equal).
ModeRecognised == (read # Nothing /\ made.mode # "any") => read.mode = made.mode

\* Every pixel is painted in the colour, or gets the alpha, for which the
\* encoder had counted the error or that its rank stands for: bases, distance,
\* multiplier, index and pixel order survive packing, byte order and unpacking.
\* The multiplier of an EAC word comes from another vector than the search's and
\* has to fit its 4 bits below the base.
PixelsAsPainted == read # Nothing => read.pixels = made.pixels

\* The alpha that a DXT5 block gives to a pixel is off by at most a step, a
\* seventh of the block's range (ProcessAlpha_SSE's division by table, its ranks
\* and indices, and the two dictionaries of DecodeDxt5Part).  Where the table is
\* cut off at 0xffff, in ranges below 8, the ranks are too low, and it may be off
\* by 3: alphas 0 to 3 all become 0.
AlphaWithinStep ==
    (read # Nothing /\ file.kind = "alpha of Dxt5") =>
        LET range == RangeOf(made.source)
            step  == IF range < 8 THEN 3 ELSE range \div 7 + 1
        IN  \A k \in 0..15 : read.pixels[k] - made.source[k] \in -step..step
=============================================================================
