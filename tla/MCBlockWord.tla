---------------------------- MODULE MCBlockWord ----------------------------
EXTENDS BlockWord

MCColours ==
    { <<0, 0, 0>>, <<255, 255, 255>>, <<190, 40, 12>>, <<230, 12, 170>>, <<110, 25, 255>>,
      <<75, 12, 210>>, <<0, 230, 230>>, <<150, 60, 120>>, <<190, 240, 170>>, <<60, 60, 75>>,
      <<40, 0, 75>>, <<130, 130, 170>>, <<12, 40, 40>> }

\* Four colours, the first black or the last white, each on four pixels; black,
\* white and two others on one, two, five and eight; one pixel among fifteen
\* others; and pixels that rise in steps of which one is a little higher, so that
\* the parts of an H block nearly touch.  Together they give a T block every value
\* of its first red, the H blocks 15 of the 16 patterns that decide their padding,
\* and cuts at both ends and in the middle.
MCTHBlocks ==
    LET rising == {q \in [1..4 -> MCColours] : \A i \in 1..3 : Luma(q[i]) < Luma(q[i + 1])}
        low  == {q \in rising : q[1] = <<0, 0, 0>>}
        high == {q \in rising : q[4] = <<255, 255, 255>>}
        uneven(k) == CASE k = 5 -> 1 [] k \in {2, 9} -> 2 [] k \in {0, 3, 6, 12, 15} -> 3 [] OTHER -> 4
        v(lo, range, c, k) == LET j == (7 * k) % 16 IN lo + (j * range) \div 15 + (IF j > c THEN 2 ELSE 0)
        ramp(Colour(_)) ==
            { [k \in 0..15 |-> Colour(v(lo, range, c, k))] : lo \in {0, 60}, range \in {97, 130, 165}, c \in {3, 7, 10} }
    IN  { [k \in 0..15 |-> q[1 + (k % 4)]] : q \in low \cup high } \cup
        { [k \in 0..15 |-> q[uneven(k)]] : q \in low \cap high } \cup
        { [k \in 0..15 |-> q[5 - uneven(k)]] : q \in low \cap high } \cup
        { [k \in 0..15 |-> IF k = 5 THEN d ELSE c] : c, d \in MCColours } \cup
        ramp(LAMBDA n : <<n, n, n>>) \cup ramp(LAMBDA n : <<n, n, 255 - n>>) \cup ramp(LAMBDA n : <<90, n, 90>>)

MCIndexSets == { [k \in 0..15 |-> k % 4], [k \in 0..15 |-> (k \div 4 + 2 * (k % 2)) % 4] }

MCModifiers == {0, 5, 7}

\* Every combination of the bits of blue that g_flags looks at, and both values
\* of the ones of red and green.
MCCorners ==
    { <<29, 96, 2 * k + 32 * (k % 2)>> : k \in 0..15 } \cup
    { <<r, g, 15>> : r \in {0, 34, 63}, g \in {31, 96} }

\* One alpha, two, few near each other, and the whole range; around the values
\* where a multiplier changes and where the tables of divisors are cut off.
MCAlphaBlocks ==
    { [k \in 0..15 |-> v] : v \in {0, 128, 255} } \cup
    { [k \in 0..15 |-> lo + (k * range) \div 15] : lo \in {0, 100}, range \in {1, 3, 7, 8, 18, 19, 100, 155} } \cup
    { [k \in 0..15 |-> ((15 - k) * range) \div 15] : range \in {253, 254, 255} } \cup
    { [k \in 0..15 |-> IF k % 3 = 0 THEN 255 ELSE 0] }

\* Blocks of one colour, of colours that are equal after the cut to 565, of two
\* colours that are just not, and of colours from all over; opaque, or with an
\* alpha that differs as well.
MCDxtColours == { <<7, 3, 7>>, <<8, 3, 7>>, <<7, 4, 7>>, <<7, 3, 8>>, <<15, 18, 23>>, <<16, 18, 23>>, <<23, 18, 40>> }
MCDxtBlocks ==
    { [k \in 0..15 |-> Append(IF k = 5 THEN d ELSE c, 255)] : c, d \in MCDxtColours \cup MCColours } \cup
    { [k \in 0..15 |-> Append(IF k = 5 THEN d ELSE c, 17 * k)] : c, d \in MCDxtColours } \cup
    { [k \in 0..15 |-> CASE k % 4 = 0 -> <<0, 0, 0, 9>> [] k % 4 = 1 -> <<60, 60, 75, 0>>
                         [] k % 4 = 2 -> <<190, 240, 170, 40>> [] k % 4 = 3 -> Append(c, 30)] : c \in MCColours }
=============================================================================
