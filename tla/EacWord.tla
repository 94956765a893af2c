------------------------------ MODULE EacWord ------------------------------
(***************************************************************************)
(* The 64-bit alpha word of an ETC2 RGBA block (ProcessAlpha_ETC2 and its  *)
(* decoder): a base, a multiplier of 4 bits, one of 16 tables of           *)
(* modifiers, and 3 bits for each pixel.                                   *)
(*                                                                         *)
(* The table is chosen by a search that has a multiplier for each of the   *)
(* 16 tables; the word is written from a vector of six.                    *)
(***************************************************************************)
EXTENDS BitWords

g_alpha ==
    << << -3, -6,  -9, -15, 2, 5, 8, 14 >>, << -3, -7, -10, -13, 2, 6, 9, 12 >>,
       << -2, -5,  -8, -13, 1, 4, 7, 12 >>, << -2, -4,  -6, -13, 1, 3, 5, 12 >>,
       << -3, -6,  -8, -12, 2, 5, 7, 11 >>, << -3, -7,  -9, -11, 2, 6, 8, 10 >>,
       << -4, -7,  -8, -11, 3, 6, 7, 10 >>, << -3, -5,  -8, -11, 2, 4, 7, 10 >>,
       << -2, -6,  -8, -10, 1, 5, 7,  9 >>, << -2, -5,  -8, -10, 1, 4, 7,  9 >>,
       << -2, -4,  -8, -10, 1, 3, 7,  9 >>, << -2, -5,  -7, -10, 1, 4, 6,  9 >>,
       << -3, -4,  -7, -10, 2, 3, 6,  9 >>, << -1, -2,  -3, -10, 0, 1, 2,  9 >>,
       << -4, -6,  -8,  -9, 3, 5, 7,  8 >>, << -3, -5,  -7,  -9, 2, 4, 6,  8 >> >>

\* 0x100FF / ( 1 + largest - smallest modifier )
g_alphaRange(sel) == 65791 \div (1 + g_alpha[sel + 1][8] - g_alpha[sel + 1][4])

\* The tables whose multipliers are in the vector, and the lane for a table.
g_alphaRange_SIMD == <<0, 1, 4, 5, 8, 14>>
GetMulSel_OneOff(sel) ==
    CASE sel = 0 -> 1 [] sel \in 1..3 -> 2 [] sel \in 4..5 -> 3 [] sel \in 6..7 -> 4
      [] sel \in 8..13 -> 5 [] sel \in 14..15 -> 6
GetMulSel(sel) ==
    CASE sel = 0 -> 1 [] sel \in 1..3 -> 2 [] sel = 4 -> 3 [] sel \in 5..7 -> 4
      [] sel \in 8..13 -> 5 [] sel \in 14..15 -> 6

\* mulhi( srcRange, alphaRange ) + 1
Multiplier(range, sel) == (range * g_alphaRange(sel)) \div 65536 + 1

Smallest(a) == CHOOSE v \in {a[k] : k \in 0..15} : \A k \in 0..15 : v <= a[k]
Largest(a)  == CHOOSE v \in {a[k] : k \in 0..15} : \A k \in 0..15 : v >= a[k]
RangeOf(a) == Largest(a) - Smallest(a)
Mid(a) == Smallest(a) + RangeOf(a) \div 2

\* the alpha that modifier j of table sel stands for
Alpha(base, mul, sel, j) == Clamp(0, base + mul * g_alpha[sel + 1][j + 1], 255)

\* minpos: the first of the modifiers with the smallest squared error
Distance(v, u) == (v - u) * (v - u)
NearestModifier(v, base, mul, sel) ==
    CHOOSE j \in 0..7 : \A i \in 0..7 :
        LET dj == Distance(v, Alpha(base, mul, sel, j))
            di == Distance(v, Alpha(base, mul, sel, i))
        IN  dj < di \/ (dj = di /\ j <= i)

\* Table sel for the alpha values a of a block: what the search has counted.
SearchedAlpha(a, sel) ==
    LET mul == Multiplier(RangeOf(a), sel)
    IN  [k \in 0..15 |-> Alpha(Mid(a), mul, sel, NearestModifier(a[k], Mid(a), mul, sel))]

\* The word: sm << 56 | rm << 52 | sel << 48 | indices, and _bswap64.
ProcessAlpha_ETC2(a, sel) ==
    LET mul == Multiplier(RangeOf(a), g_alphaRange_SIMD[GetMulSel(sel)])
    IN  Bswap64(Or64({<<Mid(a), 56>>, <<mul, 52>>, <<sel, 48>>} \union
            {<<NearestModifier(a[k], Mid(a), mul, sel), 45 - 3 * k>> : k \in 0..15}))

\* a block of one alpha: base in the first byte, multiplier 0
SolidAlphaWord(v) == Or64({<<v, 0>>})

\* the alpha half of DecodeRGBAPart
DecodeAlpha(word) ==
    LET w == Bswap64(word)
    IN  [k \in 0..15 |-> Alpha(Field(w, 56, 8), Field(w, 52, 4), Field(w, 48, 4), Field(w, 45 - 3 * k, 3))]
=============================================================================
