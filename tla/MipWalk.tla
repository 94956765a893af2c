------------------------------ MODULE MipWalk ------------------------------
(***************************************************************************)
(* The levels of -m and the pixels that the loops over them touch.  The    *)
(* loop of NumberOfParts halves the size until a count taken from log2 is  *)
(* reached; the downsampling loader walks over pairs of rows of the level  *)
(* above, the encoder tasks walk over a level's blocks.  Both walks add up *)
(* offsets to a running pointer; here a pointer is a position in m_data.   *)
(* A level narrower or lower than a block is cleared instead of loaded.    *)
(***************************************************************************)
EXTENDS MipGeometry

CONSTANTS Sizes,        \* widths and heights of images
          WalkSizes,    \* those of the images whose pixels are walked over
          LineCounts    \* DataProvider's first m_lines, 32 in the code

ASSUME MipWalkAssumption ==
    /\ \A k \in Sizes : k \in Nat \ {0} /\ k % 4 = 0
    /\ WalkSizes \subseteq Sizes
    /\ LineCounts \subseteq Nat \ {0}

VARIABLES
    size,       \* m_bmp[0]->Size()
    i,          \* number of the level
    x, y,       \* the level
    sx, sy,     \* the level above
    m_lines,    \* DataProvider::m_lines
    phase,      \* "load", "encode", or "skip" in an image that is not walked over
    row,        \* load: rows done;  encode: lines handed out in parts
    src,        \* src1 of the loader, src of the encoder
    w, blocks,  \* encoder: blocks done in this row, blocks left in this part
    n,          \* encoder: blocks of the level done
    reads       \* <<position read, position meant>> of the last step

walkVars == <<size, i, x, y, sx, sy, m_lines, phase, row, src, w, blocks, n, reads>>
level == <<size, i, x, y, sx, sy, m_lines>>

levels == NumberOfMipLevels(size.x, size.y)
walked == size.x \in WalkSizes /\ size.y \in WalkSizes
cleared == x < 4 \/ y < 4

width == AtLeast4(x)
perRow == width \div 4

\* CompressEtc*'s blocks for a part: part.width / 4 * part.lines
PartLines(from) == IF m_lines < LinesOf(y) - from THEN m_lines ELSE LinesOf(y) - from

WalkInit ==
    /\ size \in [x : Sizes, y : Sizes] /\ i = 0
    /\ x = size.x /\ y = size.y /\ sx = 0 /\ sy = 0
    /\ m_lines \in LineCounts /\ phase = IF walked THEN "encode" ELSE "skip"
    /\ row = 0 /\ src = 0 /\ w = 0 /\ blocks = 0 /\ n = 0
    /\ reads = {}

\* NextPart: the next part begins where m_block is.
TakePart ==
    /\ phase = "encode" /\ blocks = 0 /\ row < LinesOf(y)
    /\ src' = x * 4 * row
    /\ blocks' = perRow * PartLines(row)
    /\ row' = row + PartLines(row)
    /\ w' = 0
    /\ UNCHANGED <<level, phase, n, reads>>

\* src += 4, and after the last block of a row src += width * 3
NextSrc_NoSkip(s, k) == s + 4
NextSrc_FourRows(s, k) == s + 4 + (IF k + 1 = perRow THEN 4 * width ELSE 0)
NextSrc(s, k) == s + 4 + (IF k + 1 = perRow THEN 3 * width ELSE 0)

EncodeBlock ==
    /\ phase = "encode" /\ blocks > 0
    /\ reads' = { <<src + width * r + c, (4 * (n \div perRow) + r) * x + 4 * (n % perRow) + c>> :
                    r \in 0..3, c \in 0..3 }
    /\ src' = NextSrc(src, w)
    /\ w' = (w + 1) % perRow
    /\ blocks' = blocks - 1 /\ n' = n + 1
    /\ UNCHANGED <<level, phase, row>>

LevelDone == phase = "skip" \/ (phase = "encode" /\ blocks = 0 /\ row = LinesOf(y))

\* One turn of for( int i=1; i<levels; i++ ), and the level that it stands for.
NextMipLevel ==
    /\ LevelDone /\ i + 1 < levels
    /\ i' = i + 1
    /\ sx' = x /\ sy' = y /\ x' = Half(x) /\ y' = Half(y)
    /\ m_lines' = 2 * m_lines
    /\ phase' = CASE ~walked -> "skip" [] walked /\ cleared' -> "encode" [] OTHER -> "load"
    /\ row' = 0 /\ src' = 0 /\ w' = 0 /\ n' = 0 /\ reads' = {}
    /\ UNCHANGED <<size, blocks>>

\* src1 += m_size.x * 2 after the 2 * m_size.x pixels of the row
Skip_OneMore == 4 * x + 2
Skip == 4 * x

\* A row of the level; src2 is one row of the source after src1.
LoadRow ==
    /\ phase = "load" /\ row < 4 * (y \div 4)
    /\ reads' = { <<src + 2 * c + d + e * sx, (2 * row + e) * sx + 2 * c + d>> :
                    c \in 0..(x - 1), d \in 0..1, e \in 0..1 }
    /\ src' = src + Skip
    /\ row' = row + 1
    /\ UNCHANGED <<level, phase, w, blocks, n>>

Loaded ==
    /\ phase = "load" /\ row = 4 * (y \div 4)
    /\ phase' = "encode" /\ row' = 0 /\ src' = 0 /\ reads' = {}
    /\ UNCHANGED <<level, w, blocks, n>>

WalkDone == LevelDone /\ i + 1 >= levels /\ UNCHANGED walkVars

WalkNext == TakePart \/ EncodeBlock \/ NextMipLevel \/ LoadRow \/ Loaded \/ WalkDone

WalkSpec == WalkInit /\ [][WalkNext]_walkVars
-----------------------------------------------------------------------------
(* Properties                                                              *)

\* assert( current.x != 1 || current.y != 1 ) at the head of the loop's body and
\* assert( current.x == 1 && current.y == 1 ) after it: the level count taken
\* from log2 ends the halving at 1x1, not before and not after.
ChainEndsAtOne == (x = 1 /\ y = 1) <=> i + 1 >= levels

\* A cleared level gets, once and for all, at least as many permits as NextBlock
\* takes from it: otherwise NextPart would sleep in Semaphore::lock with nobody
\* left to unlock it.
PermitsSuffice ==
    i > 0 /\ cleared => SmallLevelPermits(AtLeast4(y), m_lines) >= CeilDiv(LinesOf(y), m_lines)

\* Whatever the size, both walks stay inside the pixels that are there when they
\* come by.  The loader's stays in the rows that the level above has got, h / 4 * 4
\* of its h rows; the encoder's in the lines that have been handed out, for which
\* NextPart has waited, though the loader may still be busy with the next ones.
WalksInBounds ==
    \A p \in reads :
        p[1] \in 0..((IF phase = "load" THEN sx * 4 * LinesOf(sy) ELSE width * 4 * row) - 1)

\* In a level whose width is a multiple of 4 every block is the one at its
\* place, from part to part; and when the width of the level above is even, a
\* pixel is made from the four above it.  (At other widths it is not so: the
\* walks fall behind from row to row.)
RegularLevelsRight ==
    (IF phase = "load" THEN sx % 2 = 0 ELSE x % 4 = 0) => \A p \in reads : p[1] = p[2]
=============================================================================
