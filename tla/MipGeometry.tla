---------------------------- MODULE MipGeometry -----------------------------
(***************************************************************************)
(* The arithmetic that DataProvider, Bitmap, BitmapDownsampled, MipMap and *)
(* BlockData share: how large a mip level is, how many 4-row lines it has, *)
(* in how many parts it is handed out, how many bytes the output file      *)
(* reserves.  Sizes are in pixels, lines are rows of 4x4 blocks.           *)
(***************************************************************************)
EXTENDS Integers

\* std::max( 1, n / 2 ): one dimension of the next mip level.
Half_NoFloor(n) == n \div 2
Half(n) == IF n \div 2 > 1 THEN n \div 2 ELSE 1

\* std::max( 4, n ): a level is stored in whole blocks.
AtLeast4(n) == IF n > 4 THEN n ELSE 4

\* ( n + m - 1 ) / m
CeilDiv(n, m) == (n + m - 1) \div m

\* The 4-row lines of a level.
LinesOf(y) == AtLeast4(y) \div 4

\* (int)floor( log2( n ) )
FloorLog2(n) == CHOOSE k \in 0..n : 2^k <= n /\ n < 2^(k + 1)

NumberOfMipLevels(x, y) == FloorLog2(IF x > y THEN x ELSE y) + 1

\* current in the loops of NumberOfParts and AdjustSizeForMipmaps: the size
\* of every level, obtained by halving again and again.
LevelSizes(x, y) ==
    LET size[i \in 0..(NumberOfMipLevels(x, y) - 1)] ==
          IF i = 0 THEN [x |-> x, y |-> y]
          ELSE [x |-> Half(size[i - 1].x), y |-> Half(size[i - 1].y)]
    IN  size

\* The m_lines that level i is read with: it doubles from level to level.
LinesAtLevel_NotDoubled(lines, i) == lines
LinesAtLevel(lines, i) == lines * 2^i

\* DataProvider::NumberOfParts: the parts of all levels up to each one.
PartsUpTo(x, y, lines) ==
    LET size == LevelSizes(x, y)
        parts[i \in DOMAIN size] ==
          IF i = 0 THEN CeilDiv(y \div 4, lines)
          ELSE parts[i - 1] + CeilDiv(LinesOf(size[i].y), LinesAtLevel(lines, i))
    IN  parts
NumberOfParts(x, y, lines, mipmap) ==
    PartsUpTo(x, y, lines)[IF mipmap THEN NumberOfMipLevels(x, y) - 1 ELSE 0]

\* AdjustSizeForMipmaps: the bytes of the levels after the first.
AdjustSizeForMipmaps_Unpadded(x, y) ==
    LET size == LevelSizes(x, y)
        len[i \in DOMAIN size] ==
          IF i = 0 THEN 0 ELSE len[i - 1] + (size[i].x * size[i].y) \div 2
    IN  len[NumberOfMipLevels(x, y) - 1]
BytesUpTo(x, y) ==
    LET size == LevelSizes(x, y)
        len[i \in DOMAIN size] ==
          IF i = 0 THEN 0
          ELSE len[i - 1] + (AtLeast4(size[i].x) * AtLeast4(size[i].y)) \div 2
    IN  len
AdjustSizeForMipmaps(x, y) == BytesUpTo(x, y)[NumberOfMipLevels(x, y) - 1]

\* m_maplen - m_dataOffset of a BlockData that holds one 64-bit word a block.
DataBytes(x, y, mipmap) ==
    (x * y) \div 2 + (IF mipmap THEN AdjustSizeForMipmaps(x, y) ELSE 0)

\* How often the constructor of BitmapDownsampled unlocks the semaphore of a
\* level that is narrower or lower than a block: its loop counts rows, not
\* lines, and compares with > where the loaders compare with >=.
SmallLevelPermits_NoTail(h, lines) == ((h \div 4) * 4) \div (lines + 1)
SmallLevelPermits(h, lines) ==
    LET rows == (h \div 4) * 4
    IN  rows \div (lines + 1) + (IF rows % (lines + 1) # 0 THEN 1 ELSE 0)
=============================================================================
