------------------------------ MODULE BitWords ------------------------------
(***************************************************************************)
(* Machine words as functions from bit positions to bits.                  *)
(***************************************************************************)
EXTENDS Integers, Sequences

BitOf(v, k) == (v \div 2^k) % 2

\* v1 << s1 | v2 << s2 | ... in n bits, for pairs <<v, s>> of a byte and a shift
OrN(n, parts) ==
    [i \in 0..(n - 1) |->
        IF \E p \in parts : i \in p[2]..(p[2] + 7) /\ BitOf(p[1], i - p[2]) = 1 THEN 1 ELSE 0]
Or(parts)   == OrN(32, parts)
Or64(parts) == OrN(64, parts)

\* ( w >> lo ) & ( 2^n - 1 ), for n up to 8
Field(w, lo, n) ==
    LET b(i) == IF i < n THEN w[lo + i] ELSE 0
    IN  b(0) + 2 * b(1) + 4 * b(2) + 8 * b(3) + 16 * b(4) + 32 * b(5) + 64 * b(6) + 128 * b(7)

Bswap(w) == [i \in 0..31 |-> w[8 * (3 - i \div 8) + (i % 8)]]
Bswap64(w) == [i \in 0..63 |-> w[8 * (7 - i \div 8) + (i % 8)]]

Clamp(lo, v, hi) == IF v < lo THEN lo ELSE IF v > hi THEN hi ELSE v

Flag(cond) == IF cond THEN 1 ELSE 0

Map3(f(_)) == <<f(1), f(2), f(3)>>

Sum16(f(_)) ==
    f(0) + f(1) + f(2) + f(3) + f(4) + f(5) + f(6) + f(7)
         + f(8) + f(9) + f(10) + f(11) + f(12) + f(13) + f(14) + f(15)
=============================================================================
