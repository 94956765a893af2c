------------------------------ MODULE DxtWord ------------------------------
(***************************************************************************)
(* The 64-bit words of DXT: a colour word with two 565 colours and 2 bits  *)
(* for each pixel, an alpha word with two bytes and 3 bits for each pixel. *)
(*                                                                         *)
(* The order of the two colours tells the decoder whether index 3 is a     *)
(* third of the way or black.  The encoder ranks the pixels from darkest   *)
(* to brightest and turns ranks into indices through tables; blocks of one *)
(* colour take three different ways, depending on the width of the image   *)
(* and on the block next to it.  Pixels are numbered as in BlockWord.      *)
(***************************************************************************)
EXTENDS BitWords

\* number of pixel k when rows are counted first
RowMajor(k) == 4 * (k % 4) + k \div 4

Low(S)  == CHOOSE v \in S : \A u \in S : v <= u
High(S) == CHOOSE v \in S : \A u \in S : v >= u
Values(p, i) == {p[k][i] : k \in 0..15}

----------------------------------------------------------------------------
(* Colours                                                                 *)

to565(c) == <<c[1] \div 8, c[2] \div 4, c[3] \div 8>>
From565(q) == <<8 * q[1] + q[1] \div 4, 4 * q[2] + q[2] \div 16, 8 * q[3] + q[3] \div 4>>
Number565(q) == 2048 * q[1] + 32 * q[2] + q[3]
Black565 == <<0, 0, 0>>

\* equal under the mask 0xF8FCF8
IsSolid(p) == \A k \in 0..15 : to565(p[k]) = to565(p[0])

DivTable(i) == LET d == 262144 \div (i + 1) IN IF d > 65535 THEN 65535 ELSE d

\* Of all four bytes of the pixels: the alpha takes part, save in CompressDxt5,
\* which clears it.
Rmin(p) == [i \in 1..4 |-> Low(Values(p, i))]
Rmax(p) == [i \in 1..4 |-> High(Values(p, i))]
Inset_Half(p) == Map3(LAMBDA i : (Rmax(p)[i] - Rmin(p)[i]) \div 2)
Inset(p) == Map3(LAMBDA i : (Rmax(p)[i] - Rmin(p)[i]) \div 16)

Total(c) == c[1] + c[2] + c[3] + c[4]

VRange(p) == Total(Rmax(p)) - Total(Rmin(p))

\* DivTable has 255 * 3 + 1 entries.
DivTableLast == 765

\* 0 for the darkest pixels of a block, 3 for the brightest
Rank(p, k) ==
    ((Total(p[k]) - Total(Rmin(p))) * DivTable(VRange(p))) \div 65536

\* DxtcIndexTable has an entry for every four ranks; this is one of the four.
DxtcIndexTable == <<1, 3, 2, 0>>

ColourWord(c0, c1, idx) ==
    Or64({<<c0[3], 0>>, <<c0[2], 5>>, <<c0[1], 11>>, <<c1[3], 16>>, <<c1[2], 21>>, <<c1[1], 27>>}
         \union {<<idx[k], 32 + 2 * RowMajor(k)>> : k \in 0..15})

\* Both ends of a block's colours, and the indices.
EndColours(p) ==
    [ c0 |-> to565(Map3(LAMBDA i : Rmax(p)[i] - Inset(p)[i])),
      c1 |-> to565(Map3(LAMBDA i : Rmin(p)[i] + Inset(p)[i])) ]

\* ProcessRGB and its table, for p of more than one colour
ProcessRGB(p) ==
    ColourWord(EndColours(p).c0, EndColours(p).c1, [k \in 0..15 |-> DxtcIndexTable[Rank(p, k) + 1]])

\* A solid block: "single" is ProcessRGB; ProcessRGB_AVX takes two blocks, of
\* which "both" are solid or only "one" is.  Only in the case of both the zeros
\* do not go through the table.
SolidWays == {"single", "both", "one"}
SolidWord(p, way) ==
    LET all(n) == [k \in 0..15 |-> n]
    IN  CASE way = "single" -> ColourWord(Black565, to565(p[0]), all(DxtcIndexTable[1]))
          [] way = "both"   -> ColourWord(to565(p[0]), Black565, all(0))
          [] way = "one"    -> ColourWord(Black565, EndColours(p).c1, all(DxtcIndexTable[1]))

\* What a rank stands for: c1 up to c0 in three steps.
Between(c0, c1, rank) == Map3(LAMBDA i : (rank * c0[i] + (3 - rank) * c1[i]) \div 3)

DecodeDxt1Part(w) ==
    LET q0 == <<Field(w, 11, 5), Field(w, 5, 6), Field(w, 0, 5)>>
        q1 == <<Field(w, 27, 5), Field(w, 21, 6), Field(w, 16, 5)>>
        c0 == From565(q0)
        c1 == From565(q1)
        four == Number565(q0) > Number565(q1)
        dict == IF four THEN << c0, c1, Between(c0, c1, 2), Between(c0, c1, 1) >>
                        ELSE << c0, c1, Map3(LAMBDA i : (c0[i] + c1[i]) \div 2), <<0, 0, 0>> >>
    IN  [ mode   |-> IF four THEN "four colours" ELSE "three colours",
          pixels |-> [k \in 0..15 |-> dict[Field(w, 32 + 2 * RowMajor(k), 2) + 1]] ]

----------------------------------------------------------------------------
(* Alpha                                                                   *)

DivTableAlpha_Colour(i) == DivTable(i)
DivTableAlpha(i) == LET d == 524288 \div (i + 1) IN IF d > 65535 THEN 65535 ELSE d

AlphaIndexTable == <<1, 7, 6, 5, 4, 3, 2, 0>>

AlphaRank(a, k) ==
    LET S == {a[j] : j \in 0..15}
    IN  ((a[k] - Low(S)) * DivTableAlpha(High(S) - Low(S))) \div 65536

\* a0 = max, a1 = min; a solid block has a1 = 0 and indices 0
AlphaWord(a0, a1, idx) ==
    Or64({<<a0, 0>>, <<a1, 8>>} \union {<<idx[k], 16 + 3 * RowMajor(k)>> : k \in 0..15})

ProcessAlpha(a) ==
    LET S == {a[k] : k \in 0..15}
    IN  IF Low(S) = High(S)
          THEN AlphaWord(a[0], 0, [k \in 0..15 |-> 0])
          ELSE AlphaWord(High(S), Low(S), [k \in 0..15 |-> AlphaIndexTable[AlphaRank(a, k) + 1]])

\* the alpha half of DecodeDxt5Part
DecodeDxt5Alpha(w) ==
    LET a0 == Field(w, 0, 8)
        a1 == Field(w, 8, 8)
        adict(n) == CASE n = 0 -> a0 [] n = 1 -> a1
                      [] n > 1 /\ a0 > a1              -> ((8 - n) * a0 + (n - 1) * a1) \div 7
                      [] n \in 2..5 /\ a0 <= a1        -> ((6 - n) * a0 + (n - 1) * a1) \div 5
                      [] n \in {6, 7} /\ a0 <= a1      -> 255 * (n - 6)
    IN  [ mode   |-> IF a0 > a1 THEN "eight alphas" ELSE "six alphas",
          pixels |-> [k \in 0..15 |-> adict(Field(w, 16 + 3 * RowMajor(k), 3))] ]
=============================================================================
