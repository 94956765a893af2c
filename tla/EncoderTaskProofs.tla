------------------------- MODULE EncoderTaskProofs -------------------------
(***************************************************************************)
(* What an encoder task does with the parts it is given: for images of any *)
(* size it reads pixels that are there and, where the walk is regular, the *)
(* right ones (MipWalk); for all errors, thresholds and luma ranges it     *)
(* chooses the right word for a block (BlockChoice).  The arithmetic of    *)
(* the levels is that of DataProviderProofs.                               *)
(***************************************************************************)
EXTENDS DataProviderProofs, MipWalk, BlockChoice
-----------------------------------------------------------------------------
(* The walk over the levels                                                *)

\* The level is what i halvings leave of the image.
HalvedInv ==
    /\ size \in [x : Sizes, y : Sizes]
    /\ i \in 0..(levels - 1)
    /\ x = Halved(size.x, i) /\ y = Halved(size.y, i)
    /\ m_lines \in Nat \ {0}
    /\ phase \in {"load", "encode", "skip"}
    /\ phase # "encode" => w = 0 /\ blocks = 0 /\ n = 0
    /\ phase = "skip" => reads = {}

\* The loader is at the row of the level above that the rows done come from,
\* or before it: an odd width is one more than what it takes off.
LoaderInv ==
    phase = "load" =>
        /\ ~cleared /\ sx \in Nat /\ sy \in Nat /\ x = sx \div 2 /\ y = sy \div 2
        /\ row \in 0..(4 * (y \div 4)) /\ src = 4 * x * row

\* The encoder is at the place of the next block, or before it: a row of
\* blocks takes off 4 * perRow + 3 * width, which can be less than 4 * width.
place == 4 * width * (n \div perRow) + 4 * w
EncoderInv ==
    phase = "encode" =>
        /\ row \in 0..LinesOf(y) /\ blocks \in Nat /\ n \in Nat /\ src \in Nat
        /\ w = n % perRow /\ n + blocks = perRow * row
        /\ src <= place
        /\ x % 4 = 0 => src = place

WalkInv == HalvedInv /\ LoaderInv /\ EncoderInv /\ WalksInBounds /\ RegularLevelsRight

LEMMA SizeNumbers ==
    ASSUME size \in [x : Sizes, y : Sizes]
    PROVE  size.x \in Nat \ {0} /\ size.y \in Nat \ {0} /\ levels \in Nat \ {0}
  <1>1. size.x \in Nat \ {0} /\ size.y \in Nat \ {0}
    BY MipWalkAssumption
  <1>2. QED
    BY <1>1, LevelsExist DEF levels

LEMMA LevelNumber ==
    ASSUME HalvedInv
    PROVE  /\ size.x \in Nat \ {0} /\ size.y \in Nat \ {0} /\ levels \in Nat \ {0}
           /\ i \in Nat /\ i < levels /\ x \in Nat \ {0} /\ y \in Nat \ {0}
  <1>1. size.x \in Nat \ {0} /\ size.y \in Nat \ {0} /\ levels \in Nat \ {0}
    BY SizeNumbers DEF HalvedInv
  <1>2. i \in Nat /\ i < levels
    BY <1>1 DEF HalvedInv
  <1>3. x \in Nat \ {0} /\ y \in Nat \ {0}
    BY <1>1, <1>2, HalvedAgain DEF HalvedInv
  <1>4. QED
    BY <1>1, <1>2, <1>3

\* The blocks of a row, in a level that is stored at least 4 pixels wide.
LEMMA RowOfBlocks ==
    ASSUME HalvedInv
    PROVE  /\ width \in Nat /\ width >= 4 /\ width >= x /\ perRow \in Nat \ {0} /\ 4 * perRow <= width
           /\ x % 4 = 0 => width = x /\ width = 4 * perRow
           /\ LinesOf(y) \in Nat \ {0}
  <1>1. x \in Nat \ {0} /\ y \in Nat \ {0}
    BY LevelNumber
  <1>2. width = AtLeast4(x) /\ perRow = AtLeast4(x) \div 4
    BY DEF width, perRow
  <1>3. width \in Nat /\ width >= 4 /\ width >= x
    BY <1>1, <1>2 DEF AtLeast4
  <1>4. perRow = width \div 4
    BY DEF perRow
  <1>5. perRow \in Nat \ {0} /\ 4 * perRow <= width
    BY <1>3, <1>4
  <1>6. x % 4 = 0 => width = x /\ width = 4 * perRow
    BY <1>1, <1>2, <1>4 DEF AtLeast4
  <1>7. LinesOf(y) \in Nat \ {0}
    BY <1>1, LinesOfIs
  <1>8. QED
    BY <1>3, <1>5, <1>6, <1>7

\* Where the k-th block and the one after it are, with p blocks in a row.
LEMMA DivisionIs ==
    ASSUME NEW k \in Nat, NEW p \in Nat \ {0}
    PROVE  k \div p \in Nat /\ k % p \in 0..(p - 1) /\ k = p * (k \div p) + (k % p)
  <1>1. k \div p \in Nat /\ k % p \in 0..(p - 1)
    OBVIOUS
  <1>2. k % p = k - p * (k \div p)
    BY SMTT(60)
  <1> DEFINE q == k \div p
             r == k % p
  <1>3. q \in Nat /\ r \in 0..(p - 1) /\ r = k - p * q
    BY <1>1, <1>2
  <1> HIDE DEF q, r
  <1>4. p * q \in Nat /\ k = p * q + r
    BY <1>3
  <1>5. QED
    BY <1>3, <1>4 DEF q, r

LEMMA RemainderIs ==
    ASSUME NEW k \in Nat, NEW p \in Nat \ {0}, NEW q \in Nat, NEW r \in 0..(p - 1), k = p * q + r
    PROVE  k \div p = q /\ k % p = r
  <1>1. p * q \in Nat
    OBVIOUS
  <1>2. p * q <= k /\ k < p * q + p
    BY <1>1
  <1>3. k \div p = q
    BY <1>2, QuotientIs
  <1>4. QED
    BY <1>1, <1>3, DivisionIs

LEMMA NextBlockPlace ==
    ASSUME NEW k \in Nat, NEW p \in Nat \ {0}
    PROVE  /\ (k % p) + 1 # p => (k + 1) \div p = k \div p /\ (k + 1) % p = (k % p) + 1
           /\ (k % p) + 1 = p => (k + 1) \div p = k \div p + 1 /\ (k + 1) % p = 0
  <1> DEFINE q == k \div p
             r == k % p
  <1>1. q \in Nat /\ r \in 0..(p - 1) /\ k = p * q + r
    BY DivisionIs
  <1> HIDE DEF q, r
  <1>2. p * q \in Nat
    BY <1>1
  <1>3. CASE r + 1 # p
    <2>1. r + 1 \in 0..(p - 1) /\ k + 1 = p * q + (r + 1) /\ k + 1 \in Nat
      BY <1>1, <1>2, <1>3
    <2>2. (k + 1) \div p = q /\ (k + 1) % p = r + 1
      BY <1>1, <2>1, RemainderIs
    <2>3. QED
      BY <1>3, <2>2 DEF q, r
  <1>4. CASE r + 1 = p
    <2>1. p * (q + 1) = p * q + p
      BY <1>1
    <2>2. 0 \in 0..(p - 1) /\ k + 1 = p * (q + 1) + 0 /\ k + 1 \in Nat /\ q + 1 \in Nat
      BY <1>1, <1>2, <1>4, <2>1
    <2>3. (k + 1) \div p = q + 1 /\ (k + 1) % p = 0
      BY <2>2, RemainderIs
    <2>4. QED
      BY <1>4, <2>3 DEF q, r
  <1>5. QED
    BY <1>3, <1>4 DEF q, r

\* The encoder starts at the first block of a level.
LEMMA EncoderStarts ==
    ASSUME HalvedInv, row = 0, src = 0, w = 0, blocks = 0, n = 0
    PROVE  EncoderInv
  <1>1. width \in Nat /\ perRow \in Nat \ {0} /\ LinesOf(y) \in Nat \ {0}
    BY RowOfBlocks
  <1>2. 0 \in 0..(perRow - 1) /\ 0 = perRow * 0 + 0
    BY <1>1
  <1>3. 0 \div perRow = 0 /\ 0 % perRow = 0
    BY <1>1, <1>2, RemainderIs
  <1>4. 4 * width * 0 = 0
    BY <1>1
  <1>5. place = 0
    BY <1>3, <1>4 DEF place
  <1>6. QED
    BY <1>1, <1>2, <1>3, <1>5 DEF EncoderInv

LEMMA WalkStart == WalkInit => WalkInv
  <1> SUFFICES ASSUME WalkInit PROVE WalkInv
    OBVIOUS
  <1>1. size.x \in Nat \ {0} /\ size.y \in Nat \ {0} /\ levels \in Nat \ {0}
    BY SizeNumbers DEF WalkInit
  <1>2. x = Halved(size.x, 0) /\ y = Halved(size.y, 0)
    BY <1>1, HalvedAgain DEF WalkInit
  <1>3. HalvedInv
    BY <1>1, <1>2, MipWalkAssumption DEF WalkInit, HalvedInv
  <1>4. EncoderInv /\ LoaderInv
    BY <1>3, EncoderStarts DEF WalkInit, LoaderInv
  <1>5. QED
    BY <1>3, <1>4 DEF WalkInit, WalkInv, WalksInBounds, RegularLevelsRight

\* The sixteen pixels of block b of line r, read from s on or before the place
\* of the block, in t lines of the width u.
LEMMA BlockInBounds ==
    ASSUME NEW u \in Nat, NEW p \in Nat, 4 * p <= u, NEW t \in Nat,
           NEW r \in Nat, r < t, NEW b \in Nat, b < p,
           NEW s \in Nat, s <= 4 * u * r + 4 * b, NEW e \in 0..3, NEW c \in 0..3
    PROVE  s + u * e + c \in 0..(u * 4 * t - 1)
  <1>1. PICK g \in Nat : g = u * r
    OBVIOUS
  <1>2. PICK h \in Nat : h = u * t
    OBVIOUS
  <1>3. PICK k \in Nat : k = u * e
    OBVIOUS
  <1>4. g + u <= h
    <2>1. r + 1 <= t /\ u * (r + 1) = g + u
      BY <1>1
    <2>2. u * (r + 1) <= u * t
      BY <2>1, SMTT(30)
    <2>3. QED
      BY <1>2, <2>1, <2>2
  <1>5. k <= 3 * u
    BY <1>3
  <1>6. 4 * u * r = 4 * g /\ u * 4 * t = 4 * h
    BY <1>1, <1>2
  <1>7. s <= 4 * g + 4 * b
    BY <1>6
  <1>8. s + k + c <= 4 * h - 1
    BY <1>4, <1>5, <1>7
  <1>9. QED
    BY <1>3, <1>6, <1>8

\* A block that is still to be done is in a line that has been handed out.
LEMMA LineHandedOut ==
    ASSUME NEW p \in Nat \ {0}, NEW k \in Nat, NEW l \in Nat, NEW b \in Nat \ {0}, k + b = p * l
    PROVE  k \div p < l
  <1> DEFINE q == k \div p
  <1>1. q \in Nat /\ p * q <= k
    BY Quotient
  <1> HIDE DEF q
  <1>2. ASSUME l <= q PROVE FALSE
    <2>1. p * l <= p * q /\ p * l \in Nat /\ p * q \in Nat
      BY <1>1, <1>2, SMTT(30)
    <2>2. QED
      BY <1>1, <2>1
  <1>3. q < l
    BY <1>1, <1>2
  <1>4. QED
    BY <1>3 DEF q

LEMMA BlockPlaces ==
    ASSUME WalkInv, EncodeBlock
    PROVE  /\ n \div perRow \in Nat /\ row \in Nat /\ n \div perRow < row
           /\ w \in Nat /\ w < perRow /\ w = n % perRow
           /\ src \in Nat /\ src <= place /\ (x % 4 = 0 => src = place)
  <1>1. perRow \in Nat \ {0} /\ LinesOf(y) \in Nat \ {0}
    BY RowOfBlocks DEF WalkInv
  <1>2. /\ row \in 0..LinesOf(y) /\ blocks \in Nat \ {0} /\ n \in Nat /\ src \in Nat
        /\ w = n % perRow /\ n + blocks = perRow * row
        /\ src <= place /\ (x % 4 = 0 => src = place)
    BY DEF WalkInv, EncoderInv, EncodeBlock
  <1>3. n \div perRow \in Nat /\ n % perRow \in 0..(perRow - 1)
    BY <1>1, <1>2, DivisionIs
  <1>4. row \in Nat
    BY <1>1, <1>2
  <1>5. n \div perRow < row
    BY <1>1, <1>2, <1>4, LineHandedOut
  <1>6. w \in Nat /\ w < perRow
    BY <1>1, <1>2, <1>3
  <1>7. QED
    BY <1>2, <1>3, <1>4, <1>5, <1>6

LEMMA BlockReads == WalkInv /\ EncodeBlock => WalksInBounds' /\ RegularLevelsRight'
  <1> SUFFICES ASSUME WalkInv, EncodeBlock PROVE WalksInBounds' /\ RegularLevelsRight'
    OBVIOUS
  <1>1. /\ width \in Nat /\ width >= x /\ perRow \in Nat \ {0} /\ 4 * perRow <= width
        /\ x % 4 = 0 => width = x /\ width = 4 * perRow
        /\ x \in Nat \ {0}
    BY RowOfBlocks, LevelNumber DEF WalkInv
  <1> DEFINE R == n \div perRow
             V == width
             Q == perRow
             read == { <<src + V * r + c, (4 * R + r) * x + 4 * (n % Q) + c>> : r \in 0..3, c \in 0..3 }
  <1>2. reads' = read /\ phase' = "encode" /\ x' = x /\ row' = row
    BY DEF EncodeBlock, level
  <1>3. /\ R \in Nat /\ row \in Nat /\ R < row /\ w \in Nat /\ w < Q /\ w = n % Q
        /\ src \in Nat /\ src <= 4 * V * R + 4 * w
        /\ (x % 4 = 0 => src = 4 * V * R + 4 * w)
    BY BlockPlaces DEF place
  <1>4. V \in Nat /\ Q \in Nat /\ 4 * Q <= V /\ width' = V /\ (x % 4 = 0 => V = x)
    BY <1>1, <1>2 DEF width
  <1> HIDE DEF R, V, Q
  <1>5. ASSUME NEW r \in 0..3, NEW c \in 0..3
        PROVE  src + V * r + c \in 0..(V * 4 * row - 1)
    BY <1>3, <1>4, BlockInBounds
  <1>6. ASSUME NEW r \in 0..3, NEW c \in 0..3, x % 4 = 0
        PROVE  src + V * r + c = (4 * R + r) * x + 4 * (n % Q) + c
    <2>1. V = x /\ src = 4 * V * R + 4 * w /\ w = n % Q
      BY <1>3, <1>4, <1>6
    <2>2. (4 * R + r) * V = 4 * V * R + V * r
      BY <1>3, <1>4
    <2>3. 4 * V * R \in Nat /\ V * r \in Nat
      BY <1>3, <1>4
    <2>4. QED
      BY <1>3, <2>1, <2>2, <2>3
  <1>7. \A p \in read : p[1] \in 0..(V * 4 * row - 1) /\ (x % 4 = 0 => p[1] = p[2])
    BY <1>5, <1>6
  <1>8. WalksInBounds'
    BY <1>2, <1>4, <1>7 DEF WalksInBounds
  <1>9. RegularLevelsRight'
    BY <1>2, <1>7 DEF RegularLevelsRight
  <1>10. QED
    BY <1>8, <1>9

\* The pointer of the encoder after a block: the place of the next block or
\* before it, and at it in a level of regular width.
LEMMA NextSrcIs ==
    ASSUME WalkInv, EncodeBlock
    PROVE  LET next == 4 * width * ((n + 1) \div perRow) + 4 * ((n + 1) % perRow)
           IN  /\ NextSrc(src, w) \in Nat /\ NextSrc(src, w) <= next
               /\ x % 4 = 0 => NextSrc(src, w) = next
               /\ (w + 1) % perRow = (n + 1) % perRow
  <1> DEFINE R == n \div perRow
             V == width
             Q == perRow
             s == NextSrc(src, w)
  <1>1. V \in Nat /\ Q \in Nat \ {0} /\ 4 * Q <= V /\ (x % 4 = 0 => V = 4 * Q)
    BY RowOfBlocks DEF WalkInv
  <1>2. /\ R \in Nat /\ w \in Nat /\ w < Q /\ w = n % Q
        /\ src \in Nat /\ src <= 4 * V * R + 4 * w
        /\ (x % 4 = 0 => src = 4 * V * R + 4 * w)
    BY BlockPlaces DEF place
  <1>3. s = src + 4 + (IF w + 1 = Q THEN 3 * V ELSE 0)
    BY DEF NextSrc
  <1>4. n \in Nat
    BY DEF WalkInv, EncoderInv, EncodeBlock
  <1>5. /\ w + 1 # Q => (n + 1) \div Q = R /\ (n + 1) % Q = w + 1
        /\ w + 1 = Q => (n + 1) \div Q = R + 1 /\ (n + 1) % Q = 0
    BY <1>1, <1>2, <1>4, NextBlockPlace
  <1>6. /\ w + 1 # Q => (w + 1) % Q = w + 1
        /\ w + 1 = Q => (w + 1) % Q = 0
    <2>1. w \div Q = 0 /\ w % Q = w
      <3>1. w \in 0..(Q - 1) /\ w = Q * 0 + w
        BY <1>1, <1>2
      <3>2. QED
        BY <1>1, <1>2, <3>1, RemainderIs
    <2>2. /\ (w % Q) + 1 # Q => (w + 1) % Q = (w % Q) + 1
          /\ (w % Q) + 1 = Q => (w + 1) % Q = 0
      BY <1>1, <1>2, NextBlockPlace
    <2>3. QED
      BY <2>1, <2>2, Zenon
  <1> DEFINE D == (n + 1) \div Q
             M == (n + 1) % Q
  <1> HIDE DEF R, V, Q, s, D, M
  <1>7. PICK g \in Nat : g = V * R
    BY <1>1, <1>2
  <1>8. 4 * V * R = 4 * g /\ 4 * V * (R + 1) = 4 * g + 4 * V
    BY <1>1, <1>2, <1>7
  <1> DEFINE next == 4 * V * D + 4 * M
             regular == x % 4 = 0
  <1>9. src \in Nat /\ src <= 4 * g + 4 * w /\ (regular => src = 4 * g + 4 * w /\ V = 4 * Q)
    BY <1>1, <1>2, <1>8
  <1> HIDE DEF regular
  <1>10. CASE w + 1 # Q
    <2>1. D = R /\ M = w + 1 /\ (w + 1) % Q = M
      BY <1>5, <1>6, <1>10 DEF D, M
    <2>2. next = 4 * g + 4 * (w + 1) /\ s = src + 4
      BY <1>3, <1>8, <1>9, <1>10, <2>1
    <2>3. s \in Nat /\ s <= next /\ (regular => s = next)
      BY <1>2, <1>9, <2>2
    <2>4. QED
      BY <2>1, <2>3 DEF V, Q, s, D, M, regular
  <1>11. CASE w + 1 = Q
    <2>1. D = R + 1 /\ M = 0 /\ (w + 1) % Q = M
      BY <1>5, <1>6, <1>11 DEF D, M
    <2>2. next = 4 * g + 4 * V /\ s = src + 4 + 3 * V
      BY <1>1, <1>3, <1>8, <1>11, <2>1
    <2>3. s \in Nat /\ s <= next /\ (regular => s = next)
      BY <1>1, <1>2, <1>9, <1>11, <2>2
    <2>4. QED
      BY <2>1, <2>3 DEF V, Q, s, D, M, regular
  <1>12. QED
    BY <1>10, <1>11

LEMMA BlockDone == WalkInv /\ EncodeBlock => WalkInv'
  <1> SUFFICES ASSUME WalkInv, EncodeBlock PROVE WalkInv'
    OBVIOUS
  <1>1. /\ phase = "encode" /\ phase' = phase /\ row' = row
        /\ size' = size /\ i' = i /\ x' = x /\ y' = y /\ m_lines' = m_lines
        /\ blocks > 0 /\ blocks' = blocks - 1 /\ n' = n + 1
        /\ src' = NextSrc(src, w) /\ w' = (w + 1) % perRow
    BY DEF EncodeBlock, level
  <1>2. width' = width /\ perRow' = perRow /\ levels' = levels
    BY <1>1 DEF width, perRow, levels
  <1>3. HalvedInv'
    BY <1>1, <1>2 DEF WalkInv, HalvedInv
  <1>4. LoaderInv'
    BY <1>1 DEF LoaderInv
  <1>5. EncoderInv'
    <2>1. /\ row \in 0..LinesOf(y) /\ blocks \in Nat /\ n \in Nat /\ n + blocks = perRow * row
      BY <1>1 DEF WalkInv, EncoderInv
    <2>2. perRow \in Nat /\ row \in Nat
      BY <2>1, RowOfBlocks DEF WalkInv
    <2>3. place' = 4 * width * ((n + 1) \div perRow) + 4 * ((w + 1) % perRow)
      BY <1>1, <1>2 DEF place
    <2>4. src' \in Nat /\ src' <= place' /\ (x % 4 = 0 => src' = place') /\ w' = n' % perRow
      BY <1>1, <2>3, NextSrcIs
    <2>5. n' \in Nat /\ blocks' \in Nat /\ n' + blocks' = perRow * row
      BY <1>1, <2>1, <2>2
    <2>6. QED
      BY <1>1, <1>2, <2>1, <2>4, <2>5 DEF EncoderInv
  <1>6. QED
    BY <1>3, <1>4, <1>5, BlockReads DEF WalkInv

LEMMA PartTakenOver == WalkInv /\ TakePart => WalkInv'
  <1> SUFFICES ASSUME WalkInv, TakePart PROVE WalkInv'
    OBVIOUS
  <1>1. /\ phase = "encode" /\ phase' = phase /\ n' = n /\ reads' = reads
        /\ size' = size /\ i' = i /\ x' = x /\ y' = y /\ m_lines' = m_lines
        /\ blocks = 0 /\ row < LinesOf(y)
        /\ src' = x * 4 * row /\ w' = 0
        /\ blocks' = perRow * PartLines(row) /\ row' = row + PartLines(row)
    BY DEF TakePart, level
  <1>2. width' = width /\ perRow' = perRow /\ levels' = levels /\ AtLeast4(x)' = AtLeast4(x) /\ LinesOf(y)' = LinesOf(y)
    BY <1>1 DEF width, perRow, levels
  <1>3. HalvedInv'
    BY <1>1, <1>2 DEF WalkInv, HalvedInv
  <1>4. LoaderInv'
    BY <1>1 DEF LoaderInv
  <1>5. /\ width \in Nat /\ width >= x /\ perRow \in Nat \ {0} /\ (x % 4 = 0 => width = x)
        /\ LinesOf(y) \in Nat \ {0} /\ x \in Nat
    BY RowOfBlocks, LevelNumber DEF WalkInv
  <1>6. row \in 0..LinesOf(y) /\ n \in Nat /\ n + blocks = perRow * row
    BY <1>1 DEF WalkInv, EncoderInv
  <1>7. row \in Nat /\ n = perRow * row + 0 /\ 0 \in 0..(perRow - 1)
    BY <1>1, <1>5, <1>6
  <1>8. n \div perRow = row /\ n % perRow = 0
    BY <1>5, <1>6, <1>7, RemainderIs
  <1>9. PartLines(row) \in Nat /\ row + PartLines(row) \in 0..LinesOf(y)
    BY <1>1, <1>5, <1>7 DEF PartLines, WalkInv, HalvedInv
  <1>10. place' = 4 * width * row
    <2>1. place' = 4 * width * row + 4 * 0
      BY <1>1, <1>2, <1>8 DEF place
    <2>2. 4 * width * row \in Nat
      BY <1>5, <1>7
    <2>3. QED
      BY <2>1, <2>2
  <1>11. src' \in Nat /\ src' <= place' /\ (x % 4 = 0 => src' = place')
    <2>1. x * row \in Nat /\ width * row \in Nat /\ x * row <= width * row
      BY <1>5, <1>7, SMTT(30)
    <2>2. src' = 4 * (x * row) /\ place' = 4 * (width * row)
      BY <1>1, <1>5, <1>7, <1>10
    <2>3. QED
      BY <1>5, <2>1, <2>2
  <1>12. n + blocks' = perRow * row' /\ blocks' \in Nat
    <2>1. perRow * (row + PartLines(row)) = perRow * row + perRow * PartLines(row)
      BY <1>5, <1>7, <1>9
    <2>2. QED
      BY <1>1, <1>5, <1>6, <1>7, <1>9, <2>1
  <1>13. EncoderInv'
    BY <1>1, <1>2, <1>6, <1>8, <1>9, <1>11, <1>12 DEF EncoderInv
  <1>14. WalksInBounds'
    <2> DEFINE b == width * 4 * row
               c == width * 4 * row'
    <2>1. b \in Nat /\ c \in Nat /\ b <= c
      <3>1. PICK r \in Nat : r = PartLines(row)
        BY <1>9
      <3>2. c = width * 4 * row + width * 4 * r /\ width * 4 * r \in Nat /\ b \in Nat
        BY <1>1, <1>5, <1>7, <3>1
      <3>3. QED
        BY <3>2
    <2>2. \A p \in reads : p[1] \in 0..(b - 1)
      BY <1>1 DEF WalkInv, WalksInBounds
    <2>3. WalksInBounds' <=> \A p \in reads : p[1] \in 0..(c - 1)
      BY <1>1, <1>2 DEF WalksInBounds
    <2> HIDE DEF b, c
    <2>4. QED
      BY <2>1, <2>2, <2>3
  <1>15. RegularLevelsRight'
    BY <1>1 DEF WalkInv, RegularLevelsRight
  <1>16. QED
    BY <1>3, <1>4, <1>13, <1>14, <1>15 DEF WalkInv

\* The pixels of row r of a level of the width a, read from a pair of rows of the
\* level above, of the width u and with v rows loaded: 4 * a pixels a row have
\* been passed.
LEMMA PairOfRowsInBounds ==
    ASSUME NEW u \in Nat, NEW v \in Nat, NEW a \in Nat, 2 * a <= u,
           NEW r \in Nat, 2 * r + 2 <= v, NEW c \in 0..(a - 1), NEW d \in 0..1, NEW e \in 0..1
    PROVE  4 * a * r + 2 * c + d + e * u \in 0..(u * v - 1)
  <1>1. PICK g \in Nat : g = a * r
    OBVIOUS
  <1>2. PICK h \in Nat : h = u * r
    OBVIOUS
  <1>3. 2 * g <= h
    <2>1. (2 * a) * r <= u * r
      BY SMTT(30)
    <2>2. QED
      BY <1>1, <1>2, <2>1
  <1>4. 2 * h + 2 * u <= u * v
    <2>1. u * (2 * r + 2) <= u * v
      BY SMTT(30)
    <2>2. u * (2 * r + 2) = 2 * h + 2 * u
      BY <1>2
    <2>3. QED
      BY <2>1, <2>2
  <1>5. PICK k \in Nat : k = e * u /\ k <= u
    OBVIOUS
  <1>6. PICK m \in Nat : m = u * v
    OBVIOUS
  <1>7. 4 * a * r = 4 * g
    BY <1>1
  <1>8. 4 * g + 2 * c + d + k \in 0..(m - 1)
    BY <1>3, <1>4, <1>5, <1>6
  <1>9. QED
    BY <1>5, <1>6, <1>7, <1>8

LEMMA RowReads == WalkInv /\ LoadRow => WalksInBounds' /\ RegularLevelsRight'
  <1> SUFFICES ASSUME WalkInv, LoadRow PROVE WalksInBounds' /\ RegularLevelsRight'
    OBVIOUS
  <1> DEFINE read == { <<src + 2 * c + d + e * sx, (2 * row + e) * sx + 2 * c + d>> :
                         c \in 0..(x - 1), d \in 0..1, e \in 0..1 }
  <1>1. reads' = read /\ phase' = "load" /\ x' = x /\ y' = y /\ sx' = sx /\ sy' = sy
    BY DEF LoadRow, level
  <1>2. /\ sx \in Nat /\ sy \in Nat /\ x = sx \div 2 /\ y = sy \div 2
        /\ row \in 0..(4 * (y \div 4)) /\ row < 4 * (y \div 4) /\ src = 4 * x * row
    BY DEF WalkInv, LoaderInv, LoadRow
  <1>3. x \in Nat /\ y \in Nat
    BY LevelNumber DEF WalkInv
  <1>4. 2 * x <= sx /\ (sx % 2 = 0 => sx = 2 * x) /\ row \in Nat
    BY <1>2, <1>3
  <1> DEFINE v == 4 * LinesOf(sy)
  <1>5. v \in Nat /\ 2 * row + 2 <= v /\ sx * 4 * LinesOf(sy) = sx * v
    <2>1. y >= 4 /\ LinesOf(sy) = sy \div 4
      BY <1>2, <1>3 DEF WalkInv, LoaderInv, LoadRow, cleared, LinesOf, AtLeast4
    <2>2. row + 1 <= 4 * (y \div 4) /\ 8 * (y \div 4) <= 4 * (sy \div 4)
      BY <1>2, <1>3, <1>4
    <2>3. PICK q \in Nat : q = sy \div 4
      BY <1>2
    <2>4. 2 * row + 2 <= 4 * q
      BY <1>3, <1>4, <2>2, <2>3
    <2>5. sx * 4 * q = sx * (4 * q)
      BY <1>2
    <2>6. QED
      BY <2>1, <2>3, <2>4, <2>5
  <1> HIDE DEF v
  <1>6. ASSUME NEW c \in 0..(x - 1), NEW d \in 0..1, NEW e \in 0..1
        PROVE  src + 2 * c + d + e * sx \in 0..(sx * v - 1)
    <2>1. 4 * x * row + 2 * c + d + e * sx \in 0..(sx * v - 1)
      BY <1>2, <1>3, <1>4, <1>5, PairOfRowsInBounds
    <2>2. QED
      BY <1>2, <2>1
  <1>7. ASSUME NEW c \in 0..(x - 1), NEW d \in 0..1, NEW e \in 0..1, sx % 2 = 0
        PROVE  src + 2 * c + d + e * sx = (2 * row + e) * sx + 2 * c + d
    <2>1. PICK g \in Nat : g = x * row
      BY <1>3, <1>4
    <2>2. PICK k \in Nat : k = e * sx
      BY <1>2
    <2>3. (2 * row + e) * sx = 2 * (row * sx) + k /\ row * sx = 2 * g
      BY <1>2, <1>3, <1>4, <1>7, <2>1, <2>2, SMTT(30)
    <2>4. src = 4 * g
      BY <1>2, <1>3, <1>4, <2>1
    <2>5. QED
      BY <2>2, <2>3, <2>4
  <1>8. \A p \in read : p[1] \in 0..(sx * v - 1) /\ (sx % 2 = 0 => p[1] = p[2])
    BY <1>6, <1>7
  <1>9. WalksInBounds'
    BY <1>1, <1>5, <1>8 DEF WalksInBounds
  <1>10. RegularLevelsRight'
    BY <1>1, <1>8 DEF RegularLevelsRight
  <1>11. QED
    BY <1>9, <1>10

LEMMA RowLoaded == WalkInv /\ LoadRow => WalkInv'
  <1> SUFFICES ASSUME WalkInv, LoadRow PROVE WalkInv'
    OBVIOUS
  <1>1. /\ phase = "load" /\ phase' = phase /\ row' = row + 1 /\ src' = src + 4 * x
        /\ row < 4 * (y \div 4)
        /\ size' = size /\ i' = i /\ x' = x /\ y' = y /\ sx' = sx /\ sy' = sy /\ m_lines' = m_lines
        /\ w' = w /\ blocks' = blocks /\ n' = n
    BY DEF LoadRow, Skip, level
  <1>2. HalvedInv' /\ EncoderInv'
    BY <1>1 DEF WalkInv, HalvedInv, EncoderInv, levels
  <1>3. /\ ~cleared /\ sx \in Nat /\ sy \in Nat /\ x = sx \div 2 /\ y = sy \div 2
        /\ row \in 0..(4 * (y \div 4)) /\ src = 4 * x * row
    BY <1>1 DEF WalkInv, LoaderInv
  <1>4. x \in Nat /\ y \in Nat /\ row \in Nat
    BY <1>3, LevelNumber DEF WalkInv
  <1>5. row + 1 \in 0..(4 * (y \div 4))
    BY <1>1, <1>4
  <1>6. 4 * x * (row + 1) = 4 * x * row + 4 * x
    BY <1>4
  <1>7. LoaderInv'
    BY <1>1, <1>3, <1>5, <1>6 DEF LoaderInv, cleared
  <1>8. QED
    BY <1>2, <1>7, RowReads DEF WalkInv

LEMMA LevelLoaded == WalkInv /\ Loaded => WalkInv'
  <1> SUFFICES ASSUME WalkInv, Loaded PROVE WalkInv'
    OBVIOUS
  <1>1. /\ phase = "load" /\ phase' = "encode" /\ row' = 0 /\ src' = 0 /\ reads' = {}
        /\ size' = size /\ i' = i /\ x' = x /\ y' = y /\ m_lines' = m_lines
        /\ w' = w /\ blocks' = blocks /\ n' = n
    BY DEF Loaded, level
  <1>2. w = 0 /\ blocks = 0 /\ n = 0
    BY <1>1 DEF WalkInv, HalvedInv
  <1>3. HalvedInv'
    BY <1>1 DEF WalkInv, HalvedInv, levels
  <1>4. (row = 0 /\ src = 0 /\ w = 0 /\ blocks = 0 /\ n = 0)'
    BY <1>1, <1>2
  <1>5. (HalvedInv /\ row = 0 /\ src = 0 /\ w = 0 /\ blocks = 0 /\ n = 0 => EncoderInv)'
    BY EncoderStarts, PTL
  <1>6. EncoderInv'
    BY <1>3, <1>4, <1>5
  <1>7. LoaderInv' /\ WalksInBounds' /\ RegularLevelsRight'
    BY <1>1 DEF LoaderInv, WalksInBounds, RegularLevelsRight
  <1>8. QED
    BY <1>3, <1>6, <1>7 DEF WalkInv

LEMMA LevelBegins == WalkInv /\ NextMipLevel => WalkInv'
  <1> SUFFICES ASSUME WalkInv, NextMipLevel PROVE WalkInv'
    OBVIOUS
  <1>1. /\ i + 1 < levels /\ i' = i + 1 /\ size' = size /\ levels' = levels
        /\ sx' = x /\ sy' = y /\ x' = Half(x) /\ y' = Half(y) /\ m_lines' = 2 * m_lines
        /\ row' = 0 /\ src' = 0 /\ w' = 0 /\ n' = 0 /\ blocks' = blocks /\ reads' = {}
    BY DEF NextMipLevel, levels
  <1>2. blocks = 0
    BY DEF NextMipLevel, LevelDone, WalkInv, HalvedInv
  <1>3. /\ phase' \in {"load", "encode", "skip"}
        /\ phase' = "load" => ~cleared'
    BY DEF NextMipLevel, cleared, walked
  <1>4. /\ size.x \in Nat \ {0} /\ size.y \in Nat \ {0} /\ levels \in Nat \ {0}
        /\ i \in Nat /\ x \in Nat \ {0} /\ y \in Nat \ {0}
    BY LevelNumber DEF WalkInv
  <1>5. x' = Halved(size.x, i + 1) /\ y' = Halved(size.y, i + 1)
    <2>1. x = Halved(size.x, i) /\ y = Halved(size.y, i)
      BY DEF WalkInv, HalvedInv
    <2>2. /\ Half(Halved(size.x, i)) = Halved(size.x, i + 1)
          /\ Half(Halved(size.y, i)) = Halved(size.y, i + 1)
      BY <1>4, HalvedAgain
    <2>3. QED
      BY <1>1, <2>1, <2>2
  <1>6. HalvedInv'
    BY <1>1, <1>2, <1>3, <1>4, <1>5 DEF WalkInv, HalvedInv
  <1>7. (row = 0 /\ src = 0 /\ w = 0 /\ blocks = 0 /\ n = 0)'
    BY <1>1, <1>2
  <1>8. (HalvedInv /\ row = 0 /\ src = 0 /\ w = 0 /\ blocks = 0 /\ n = 0 => EncoderInv)'
    BY EncoderStarts, PTL
  <1>9. EncoderInv'
    BY <1>6, <1>7, <1>8
  <1>10. LoaderInv'
    <2> SUFFICES ASSUME phase' = "load" PROVE LoaderInv'
      BY DEF LoaderInv
    <2>1. x' >= 4 /\ y' >= 4 /\ x' \in Nat /\ y' \in Nat
      BY <1>1, <1>3, <1>4 DEF cleared, Half
    <2>2. x' = sx' \div 2 /\ y' = sy' \div 2
      BY <1>1, <1>4, <2>1 DEF Half
    <2>3. 0 \in 0..(4 * (y' \div 4)) /\ 4 * x' * 0 = 0
      <3>1. PICK a \in Nat, b \in Nat : a = x' /\ b = y'
        BY <2>1
      <3>2. 0 \in 0..(4 * (b \div 4)) /\ 4 * a * 0 = 0
        OBVIOUS
      <3>3. QED
        BY <3>1, <3>2
    <2>4. QED
      BY <1>1, <1>3, <1>4, <2>2, <2>3 DEF LoaderInv
  <1>11. WalksInBounds' /\ RegularLevelsRight'
    BY <1>1 DEF WalksInBounds, RegularLevelsRight
  <1>12. QED
    BY <1>6, <1>9, <1>10, <1>11 DEF WalkInv

LEMMA WalkStep == WalkInv /\ [WalkNext]_walkVars => WalkInv'
  <1> SUFFICES ASSUME WalkInv, [WalkNext]_walkVars PROVE WalkInv'
    OBVIOUS
  <1>1. CASE TakePart
    BY <1>1, PartTakenOver
  <1>2. CASE EncodeBlock
    BY <1>2, BlockDone
  <1>3. CASE NextMipLevel
    BY <1>3, LevelBegins
  <1>4. CASE LoadRow
    BY <1>4, RowLoaded
  <1>5. CASE Loaded
    BY <1>5, LevelLoaded
  <1>6. CASE WalkDone \/ UNCHANGED walkVars
    <2>1. UNCHANGED walkVars
      BY <1>6 DEF WalkDone
    <2>2. UNCHANGED <<width, perRow, levels, cleared>>
      BY <2>1 DEF walkVars, width, perRow, levels, cleared
    <2>3. QED
      BY <2>1, <2>2 DEF walkVars, WalkInv, HalvedInv, LoaderInv, EncoderInv, place,
                        WalksInBounds, RegularLevelsRight
  <1>7. QED
    BY <1>1, <1>2, <1>3, <1>4, <1>5, <1>6 DEF WalkNext

LEMMA WalkInvariance == WalkSpec => []WalkInv
  BY WalkStart, WalkStep, PTL DEF WalkSpec

(* The loop of NumberOfParts runs as often as its two assertions ask: for    *)
(* every size the count taken from log2 is reached with the 1x1 level, not   *)
(* before and not after.                                                     *)
THEOREM ChainEnds == WalkSpec => []ChainEndsAtOne
  <1>1. ASSUME WalkInv PROVE ChainEndsAtOne
    <2>1. /\ size.x \in Nat \ {0} /\ size.y \in Nat \ {0} /\ levels \in Nat \ {0}
          /\ i \in Nat /\ i < levels
      BY <1>1, LevelNumber DEF WalkInv
    <2>2. i \in 0..(NumberOfMipLevels(size.x, size.y) - 1)
      BY <1>1 DEF WalkInv, HalvedInv, levels
    <2>3. Halved(size.x, i) = 1 /\ Halved(size.y, i) = 1 <=> i = NumberOfMipLevels(size.x, size.y) - 1
      BY <2>1, <2>2, LastLevel
    <2>4. x = 1 /\ y = 1 <=> i = levels - 1
      BY <1>1, <2>3 DEF WalkInv, HalvedInv, levels
    <2>5. QED
      BY <2>1, <2>4 DEF ChainEndsAtOne
  <1>2. QED
    BY <1>1, WalkInvariance, PTL

(* For every size and every number of lines a part, the constructor of a     *)
(* cleared level unlocks its semaphore at least as often as NextPart locks   *)
(* it: the main thread does not sleep there for ever.                        *)
THEOREM PermitsAreEnough == WalkSpec => []PermitsSuffice
  <1>1. ASSUME WalkInv PROVE PermitsSuffice
    <2> DEFINE N == LinesOf(y)
               P == SmallLevelPermits(AtLeast4(y), m_lines)
               C == CeilDiv(N, m_lines)
    <2>1. y \in Nat /\ m_lines \in Nat \ {0}
      BY <1>1, LevelNumber DEF WalkInv, HalvedInv
    <2>2. N \in Nat \ {0} /\ AtLeast4(y) \in Nat /\ AtLeast4(y) \div 4 = N
      BY <2>1, LinesOfIs DEF LinesOf
    <2>3. P \in Nat /\ N <= P * m_lines
      BY <2>1, <2>2, SmallLevelSuffices
    <2>4. C \in Nat /\ C * m_lines < N + m_lines
      BY <2>1, <2>2, CeilDivIs
    <2> HIDE DEF N, P, C
    <2>5. ASSUME P + 1 <= C PROVE FALSE
      <3>1. (P + 1) * m_lines <= C * m_lines
        BY <2>1, <2>3, <2>4, <2>5, SMTT(30)
      <3>2. (P + 1) * m_lines = P * m_lines + m_lines
        BY <2>1, <2>3
      <3>3. P * m_lines \in Nat /\ C * m_lines \in Nat
        BY <2>1, <2>3, <2>4
      <3>4. QED
        BY <2>1, <2>2, <2>3, <2>4, <3>1, <3>2, <3>3
    <2>6. P >= C
      BY <2>3, <2>4, <2>5
    <2>7. QED
      BY <2>6 DEF PermitsSuffice, P, C, N
  <1>2. QED
    BY <1>1, WalkInvariance, PTL

(* Whatever the size of the image: the loader reads rows that the level      *)
(* above has got, the encoder lines that have been handed out, although both *)
(* pointers fall behind at odd widths and at widths that 4 does not divide.  *)
THEOREM WalksStayInBounds == WalkSpec => []WalksInBounds
  <1>1. WalkInv => WalksInBounds
    BY DEF WalkInv
  <1>2. QED
    BY <1>1, WalkInvariance, PTL

(* Where the widths are regular both walks are exact: a block consists of    *)
(* the pixels at its place, a pixel is made from the four above it.          *)
THEOREM RegularWalksExact == WalkSpec => []RegularLevelsRight
  <1>1. WalkInv => RegularLevelsRight
    BY DEF WalkInv
  <1>2. QED
    BY <1>1, WalkInvariance, PTL

(* The level at which the walk is, halved once a turn of the loop, is the    *)
(* one for which NumberOfParts has counted parts and AdjustSizeForMipmaps    *)
(* has reserved bytes.                                                       *)
LevelAsReserved ==
    /\ i \in DOMAIN LevelSizes(size.x, size.y)
    /\ LevelSizes(size.x, size.y)[i].x = x /\ LevelSizes(size.x, size.y)[i].y = y
THEOREM LevelsAgree == WalkSpec => []LevelAsReserved
  <1>1. ASSUME WalkInv PROVE LevelAsReserved
    <2>1. size.x \in Nat \ {0} /\ size.y \in Nat \ {0}
      BY <1>1, LevelNumber DEF WalkInv
    <2>2. /\ i \in 0..(NumberOfMipLevels(size.x, size.y) - 1)
          /\ x = Halved(size.x, i) /\ y = Halved(size.y, i)
      BY <1>1 DEF WalkInv, HalvedInv, levels
    <2>3. QED
      BY <2>1, <2>2, LevelSizesAre, Zenon DEF LevelAsReserved
  <1>2. QED
    BY <1>1, WalkInvariance, PTL

(* However a level is cut into parts, the tasks together do each of its      *)
(* blocks: when its last part is done, perRow blocks of every line are.      *)
LevelIsEncoded == phase = "encode" /\ LevelDone => n = perRow * LinesOf(y)
THEOREM WholeLevelEncoded == WalkSpec => []LevelIsEncoded
  <1>1. ASSUME WalkInv PROVE LevelIsEncoded
    <2> SUFFICES ASSUME phase = "encode", LevelDone PROVE n = perRow * LinesOf(y)
      BY DEF LevelIsEncoded
    <2>1. blocks = 0 /\ row = LinesOf(y) /\ n \in Nat /\ n + blocks = perRow * row
      BY <1>1 DEF LevelDone, WalkInv, EncoderInv
    <2>2. QED
      BY <2>1
  <1>2. QED
    BY <1>1, WalkInvariance, PTL
-----------------------------------------------------------------------------
(* The choice of a word                                                    *)

Steps == {"CheckSolid", "SelectMode", "Planar", "TryTH", "EncodeSelectors", "done"}

ChoiceType ==
    /\ hybrid \in BOOLEAN /\ useHeuristics \in BOOLEAN
    /\ block.cmp \in [Candidates -> CmpErrors \union {MaxError}]
    /\ block.own \in [Candidates -> OwnErrors]
    /\ block.cmp["ETC1"] # MaxError /\ block.cmp["planar"] # MaxError
    /\ pc \in Steps /\ mode \in {"Undecided", "Planar", "TH"}
    /\ isHighError \in BOOLEAN

\* The second candidate that EncodeSelectors compares with ETC1: what the last
\* search has left in plane.
PlanarPlane == [plane |-> "planar", error |-> PlanarError]
NoPlane     == [plane |-> "zero", error |-> MaxError]
PlaneInv ==
    /\ pc = "TryTH" => IF useHeuristics THEN mode # "Planar" ELSE plane = PlanarPlane
    /\ pc = "EncodeSelectors" =>
         IF useHeuristics THEN plane = THPlane \/ plane = NoPlane ELSE plane = PlanarPlane

\* A candidate that is still to be compared has been reported if it is bad.
OfferReported ==
    /\ (pc = "TryTH" /\ hybrid /\ ~useHeuristics /\ block.own["planar"] > errorThreshold) => isHighError
    /\ (pc = "EncodeSelectors" /\ hybrid) =>
          \A c \in Candidates :
              plane.plane = c /\ block.own[c] > errorThreshold => isHighError

ReportedIsOwn ==
    isHighError => errorValue >= errorThreshold /\ \E c \in Candidates : errorValue = block.own[c]

ChoiceInv ==
    /\ ChoiceType /\ PlaneInv /\ OfferReported /\ ReportedIsOwn
    /\ ReturnsACandidate /\ NoBadBlockMissed /\ BestWithoutHeuristics
-----------------------------------------------------------------------------
LEMMA ChoiceStart == ChoiceInit => ChoiceInv
  <1> SUFFICES ASSUME ChoiceInit PROVE ChoiceInv
    OBVIOUS
  <1>1. block.cmp \in [Candidates -> CmpErrors \union {MaxError}] /\ block.own \in [Candidates -> OwnErrors]
    BY DEF ChoiceInit, Blocks
  <1>2. ChoiceType
    BY <1>1 DEF ChoiceInit, ChoiceType, Steps
  <1>3. QED
    BY <1>2 DEF ChoiceInit, ChoiceInv, PlaneInv, OfferReported, ReportedIsOwn, ReturnsACandidate,
                NoBadBlockMissed, BestWithoutHeuristics, BestWithoutHeuristicsIn

\* The errors as numbers, and ETC1 always below the error of "no second candidate".
LEMMA ErrorFacts ==
    ASSUME ChoiceType
    PROVE  /\ \A c \in Candidates : block.cmp[c] \in Nat /\ block.own[c] \in Nat
           /\ block.cmp["ETC1"] < MaxError /\ block.cmp["planar"] < MaxError
           /\ block.cmp["TH"] <= MaxError
           /\ MaxError \in Nat /\ errorThreshold \in Nat
  <1>1. \A c \in Candidates : block.own[c] \in OwnErrors /\ block.cmp[c] \in CmpErrors \union {MaxError}
    BY DEF ChoiceType
  <1>2. block.cmp["ETC1"] \in CmpErrors /\ block.cmp["planar"] \in CmpErrors
    BY <1>1 DEF ChoiceType, Candidates
  <1>3. \A e \in CmpErrors : e \in Nat /\ e < MaxError
    BY ErrorsAssumption
  <1>4. MaxError \in Nat /\ errorThreshold \in Nat /\ OwnErrors \subseteq Nat
    BY ErrorsAssumption
  <1>5. \A c \in Candidates : block.cmp[c] \in Nat /\ block.own[c] \in Nat /\ block.cmp[c] <= MaxError
    <2> TAKE c \in Candidates
    <2>1. block.own[c] \in Nat
      BY <1>1, <1>4
    <2>2. block.cmp[c] \in CmpErrors \/ block.cmp[c] = MaxError
      BY <1>1
    <2>3. QED
      BY <1>3, <1>4, <2>1, <2>2
  <1>6. QED
    BY <1>2, <1>3, <1>4, <1>5 DEF Candidates

LEMMA ChoiceStep == ChoiceInv /\ [ChoiceNext]_choiceVars => ChoiceInv'
  <1> SUFFICES ASSUME ChoiceInv, [ChoiceNext]_choiceVars PROVE ChoiceInv'
    OBVIOUS
  <1> USE DEF ChoiceInv, input
  <1>1. CASE CheckSolid
    BY <1>1 DEF CheckSolid, ChoiceType, Steps, PlaneInv, OfferReported, ReportedIsOwn, ReturnsACandidate,
                NoBadBlockMissed, BestWithoutHeuristics, BestWithoutHeuristicsIn, Candidates
  <1>2. CASE SelectMode
    BY <1>2 DEF SelectMode, SelectModeETC2, ChoiceType, Steps, PlaneInv, OfferReported, ReportedIsOwn,
                ReturnsACandidate, NoBadBlockMissed, BestWithoutHeuristics, BestWithoutHeuristicsIn
  <1>3. CASE Planar
    <2>1. CASE useHeuristics /\ mode # "Planar"
      BY <1>3, <2>1 DEF Planar, ChoiceType, Steps, PlaneInv, OfferReported, ReportedIsOwn,
                ReturnsACandidate, NoBadBlockMissed, BestWithoutHeuristics, BestWithoutHeuristicsIn
    <2>2. CASE ~(useHeuristics /\ mode # "Planar")
      <3>1. Report(hybrid /\ block.own["planar"] > errorThreshold, block.own["planar"]) /\ block' = block
        BY <1>3, <2>2 DEF Planar
      <3>2. /\ ReportedIsOwn' /\ isHighError' \in BOOLEAN
            /\ (hybrid /\ block.own["planar"] > errorThreshold) \/ isHighError => isHighError'
        BY <3>1, ErrorFacts DEF Report, ReportedIsOwn, ChoiceType, Candidates
      <3>3. ChoiceType' /\ PlaneInv'
        BY <1>3, <2>2, <3>2 DEF Planar, ChoiceType, Steps, PlaneInv, PlanarPlane, PlanarError
      <3>4. OfferReported'
        BY <1>3, <2>2, <3>2 DEF Planar, OfferReported
      <3>5. ReturnsACandidate' /\ NoBadBlockMissed' /\ BestWithoutHeuristics'
        BY <1>3, <2>2, <3>2 DEF Planar, ReturnsACandidate, NoBadBlockMissed, Candidates,
                                BestWithoutHeuristics, BestWithoutHeuristicsIn
      <3>6. QED
        BY <3>2, <3>3, <3>4, <3>5
    <2>3. QED
      BY <2>1, <2>2
  <1>4. CASE TryTH
    <2>0. /\ pc = "TryTH" /\ pc' = "EncodeSelectors"
          /\ UNCHANGED <<hybrid, useHeuristics, block, mode, word>>
      BY <1>4 DEF TryTH
    <2>1. ReturnsACandidate' /\ NoBadBlockMissed' /\ BestWithoutHeuristics'
      BY <2>0 DEF ReturnsACandidate, NoBadBlockMissed, BestWithoutHeuristics, BestWithoutHeuristicsIn
    <2>2. CASE useHeuristics /\ mode = "TH"
      <3>1. /\ Report(hybrid /\ block.own["TH"] > errorThreshold, block.own["TH"])
            /\ plane' = THPlane
        BY <1>4, <2>2 DEF TryTH
      <3>2. /\ ReportedIsOwn' /\ isHighError' \in BOOLEAN
            /\ (hybrid /\ block.own["TH"] > errorThreshold) \/ isHighError => isHighError'
        BY <2>0, <3>1, ErrorFacts DEF Report, ReportedIsOwn, ChoiceType, Candidates
      <3>3. OfferReported'
        BY <2>0, <3>1, <3>2 DEF OfferReported, THPlane, Candidates
      <3>4. ChoiceType' /\ PlaneInv'
        BY <2>0, <2>2, <3>1, <3>2 DEF ChoiceType, Steps, PlaneInv, THPlane, FoundTH
      <3>5. QED
        BY <2>1, <3>2, <3>3, <3>4
    <2>3. CASE useHeuristics /\ mode # "TH"
      BY <1>4, <2>0, <2>1, <2>3 DEF TryTH, ChoiceType, Steps, PlaneInv, NoPlane, OfferReported,
                                    ReportedIsOwn, Candidates
    <2>4. CASE ~useHeuristics
      BY <1>4, <2>0, <2>1, <2>4 DEF TryTH, ChoiceType, Steps, PlaneInv, PlanarPlane, PlanarError,
                                    OfferReported, ReportedIsOwn, Candidates
    <2>5. QED
      BY <2>2, <2>3, <2>4
  <1>5. CASE EncodeSelectors
    <2>0. /\ pc = "EncodeSelectors" /\ pc' = "done"
          /\ UNCHANGED <<hybrid, useHeuristics, block, mode, plane>>
          /\ Report(hybrid /\ Etc1High, block.own["ETC1"])
          /\ word' = IF block.cmp["ETC1"] >= plane.error THEN plane.plane ELSE "ETC1"
      BY <1>5 DEF EncodeSelectors
    <2>1. /\ ReportedIsOwn' /\ isHighError' \in BOOLEAN
          /\ (hybrid /\ Etc1High) \/ isHighError => isHighError'
      BY <2>0, ErrorFacts DEF Report, ReportedIsOwn, ChoiceType, Etc1High, Candidates
    <2>2. ChoiceType' /\ PlaneInv' /\ OfferReported'
      BY <2>0, <2>1 DEF ChoiceType, Steps, PlaneInv, OfferReported
    <2>3. /\ plane.plane \in Candidates \/ plane.error = MaxError
          /\ ~useHeuristics => plane = PlanarPlane
      BY <2>0, ErrorFacts DEF PlaneInv, THPlane, FoundTH, NoPlane, PlanarPlane, Candidates
    <2>4. word' = "ETC1" \/ (word' = plane.plane /\ plane.plane \in Candidates)
      BY <2>0, <2>3, ErrorFacts DEF Candidates
    <2>5. ReturnsACandidate'
      BY <2>0, <2>4 DEF ReturnsACandidate, Candidates
    <2>6. NoBadBlockMissed'
      BY <2>0, <2>1, <2>4, ErrorFacts DEF NoBadBlockMissed, OfferReported, Etc1High, Candidates
    <2>7. BestWithoutHeuristics'
      BY <2>0, <2>3, ErrorFacts DEF BestWithoutHeuristics, BestWithoutHeuristicsIn, BetterOf,
                                    PlanarPlane, PlanarError, Candidates
    <2>8. QED
      BY <2>1, <2>2, <2>5, <2>6, <2>7
  <1>6. CASE ChoiceDone \/ UNCHANGED choiceVars
    BY <1>6 DEF ChoiceDone, choiceVars, ChoiceType, Steps, PlaneInv, OfferReported, ReportedIsOwn, ReturnsACandidate,
                NoBadBlockMissed, BestWithoutHeuristics, BestWithoutHeuristicsIn,
                PlanarPlane, PlanarError, NoPlane, THPlane, FoundTH, BetterOf
  <1>7. QED
    BY <1>1, <1>2, <1>3, <1>4, <1>5, <1>6 DEF ChoiceNext

LEMMA ChoiceInvariance == ChoiceSpec => []ChoiceInv
  BY ChoiceStart, ChoiceStep, PTL DEF ChoiceSpec

(* Neither an uninitialised Plane nor the 0 for "no second candidate" is     *)
(* ever returned, whatever the searches find.                                *)
THEOREM CandidateReturned == ChoiceSpec => []ReturnsACandidate
  <1>1. ChoiceInv => ReturnsACandidate
    BY DEF ChoiceInv
  <1>2. QED
    BY ChoiceInvariance, <1>1, PTL

(* The hybrid variant misses no block whose word is worse than the threshold, *)
(* and what it reports is the error of a candidate that reaches it.           *)
THEOREM ReportsCorrect == ChoiceSpec => []ReportsAreRight
  <1>1. ChoiceInv => ReportsAreRight
    BY DEF ChoiceInv, ReportsAreRight, ReportedIsOwn, ReportedErrorIsHigh
  <1>2. QED
    BY ChoiceInvariance, <1>1, PTL

(* Without heuristics the CPU variant returns the better of planar and ETC1. *)
THEOREM BestOfBoth == ChoiceSpec => []BestWithoutHeuristics
  <1>1. ChoiceInv => BestWithoutHeuristics
    BY DEF ChoiceInv
  <1>2. QED
    BY ChoiceInvariance, <1>1, PTL
=============================================================================
