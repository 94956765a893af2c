------------------------ MODULE HybridPipelineProofs ------------------------
(***************************************************************************)
(* For any image, any errors and any quality, and any order of the tasks:  *)
(* the file is right at every moment, each word is written once before the *)
(* write-back and at most once more by it, and the GPU redoes the worst    *)
(* blocks.                                                                 *)
(***************************************************************************)
EXTENDS HybridPipeline, SequenceTheorems, FiniteSetTheorems, WellFoundedInduction, TLAPS

Least(a, b) == IF a < b THEN a ELSE b

\* The blocks before the end of part j, and the next block of its task.
Edge(j) == img.bw * Least(j * PartLines, img.lines)
Cur(j) == Edge(j) - task[j].blocks

\* The position of the first pixel of block b.
SrcOf(b) == 16 * (img.bw * (b \div img.bw)) + 4 * (b % img.bw)

\* The PixBlock of block b.
PixOf(b) == PixBlock(ColourWord(b), err[b], BlockRows(b))

Blocks == 0..(numBlocks - 1)
TaskSet == [src : Nat, dst : Nat, w : Nat, blocks : Nat]

MainInv ==
    /\ img \in Images /\ quality \in Qualities
    /\ err \in [Blocks -> 0..MaxError]
    /\ mpc \in {"queue", "sync", "select", "gpu", "save", "done"}
    /\ task \in Seq(TaskSet) /\ Len(task) <= parts
    /\ mpc # "queue" => Len(task) = parts
    /\ linesLeft = img.lines - Least(Len(task) * PartLines, img.lines)
    /\ offset = Edge(Len(task)) /\ ptr = 16 * offset

\* A task has walked from the edge of the part before its own to Cur.
TaskInv(j) ==
    /\ task[j].blocks <= Edge(j) - Edge(j - 1)
    /\ task[j].src = SrcOf(Cur(j)) /\ task[j].dst = wordsPerBlock * Cur(j)
    /\ task[j].w = Cur(j) % img.bw
    /\ mpc \notin {"queue", "sync"} => task[j].blocks = 0

\* The blocks that no task has reached.
Pending(b) ==
    \/ b >= Edge(Len(task))
    \/ \E j \in 1..Len(task) : Cur(j) <= b /\ b < Edge(j)

OutInv ==
    /\ DOMAIN out = Words(img) /\ \A i \in Words(img) : out[i] \in WordSet
    /\ WordsBelong
    /\ \A b \in Blocks :
          /\ Pending(b) => /\ out[ColourWord(b)] = unwritten
                           /\ img.rgba => out[2 * b] = unwritten
          /\ ~Pending(b) => /\ out[ColourWord(b)] # unwritten
                            /\ img.rgba => out[2 * b] # unwritten
          /\ mpc \notin {"save", "done"} => out[ColourWord(b)].by # "gpu"

\* A sequence that holds the PixBlock of every high-error block of lo..(hi - 1) once.
Holds(s, lo, hi) ==
    /\ s \in Seq(PixBlockSet)
    /\ \A i \in 1..Len(s) : \E b \in lo..(hi - 1) : err[b] > 0 /\ s[i] = PixOf(b)
    /\ \A i, k \in 1..Len(s) : s[i].address = s[k].address => i = k
    /\ \A b \in lo..(hi - 1) : err[b] > 0 => \E i \in 1..Len(s) : s[i] = PixOf(b)

\* The array of a part holds its high-error blocks so far.
PixInv(j) ==
    /\ j > Len(task) => pixelMat[j] = <<>>
    /\ j <= Len(task) => Holds(pixelMat[j], Edge(j - 1), Cur(j))

PipeInv ==
    /\ mpc \in {"queue", "sync"} => pipe = <<>>
    /\ mpc \notin {"queue", "sync"} => Holds(pipe, 0, numBlocks)
    /\ mpc \notin {"gpu", "save", "done"} => buf = <<>>
    /\ mpc \in {"gpu", "save", "done"} =>
          /\ buf \in Seq(PixBlockSet) /\ Len(buf) = Limit(Len(pipe)) /\ Len(buf) <= Len(pipe)
          /\ \A i \in 1..Len(buf) : buf[i] = pipe[i]
          /\ quality[1] < quality[2] => Sorted(pipe)

ResultInv ==
    /\ mpc \notin {"save", "done"} => result = <<>> /\ saved = 0
    /\ mpc \in {"save", "done"} =>
          /\ result \in Seq(WordSet) /\ Len(result) = SideOf(Len(buf)) * SideOf(Len(buf))
          /\ \A i \in 1..Len(buf) : \A b \in Blocks :
                buf[i] = PixOf(b) => result[i] = [by |-> "gpu", rows |-> BlockRows(b)]
    /\ saved \in 0..Len(buf) /\ (mpc = "done" => saved = Len(buf))
    /\ \A b \in Blocks : out[ColourWord(b)].by = "gpu" <=>
          \E i \in 1..saved : buf[i].address = ColourWord(b)

Mats == [1..parts -> Seq(PixBlockSet)]

PipelineInv ==
    /\ MainInv
    /\ \A j \in 1..Len(task) : TaskInv(j)
    /\ OutInv
    /\ pixelMat \in Mats /\ \A j \in 1..parts : PixInv(j)
    /\ PipeInv
    /\ ResultInv
-----------------------------------------------------------------------------
(* Numbers                                                                 *)

\* Intervals from 0 are finite sets, and those are well-founded by inclusion.
LEMMA LeastNumber ==
    ASSUME NEW X, X \subseteq Nat, X # {}
    PROVE  \E m \in X : \A k \in X : m <= k
  <1> DEFINE T == {0..n : n \in X}
  <1>1. IsWellFoundedOn(StrictSubsetOrdering(Nat), FiniteSubsetsOf(Nat))
    BY FS_StrictSubsetOrderingWellFounded
  <1>2. T \subseteq FiniteSubsetsOf(Nat)
    <2>1. \A n \in X : IsFiniteSet(0..n)
      BY FS_Interval
    <2>2. \A n \in X : 0..n \in SUBSET Nat
      OBVIOUS
    <2>3. QED
      BY <2>1, <2>2, Zenon DEF FiniteSubsetsOf
  <1>3. T # {}
    OBVIOUS
  <1>4. PICK s \in T : \A u \in T : <<u, s>> \notin StrictSubsetOrdering(Nat)
    <2> HIDE DEF T
    <2> QED
      BY <1>1, <1>2, <1>3, WFMin, Zenon
  <1>5. PICK m \in X : s = 0..m
    OBVIOUS
  <1>6. ASSUME NEW k \in X, ~(m <= k)
        PROVE  FALSE
    <2>1. 0..k \in T /\ 0..k \subseteq 0..m /\ 0..k # 0..m
      BY <1>6
    <2>2. <<0..k, s>> \in StrictSubsetOrdering(Nat)
      BY <2>1, <1>2, <1>5 DEF StrictSubsetOrdering, FiniteSubsetsOf
    <2>3. QED
      BY <2>1, <2>2, <1>4
  <1>7. QED
    BY <1>6

\* Induction up to n, for membership in a set.
LEMMA InductionUpTo ==
    ASSUME NEW X, NEW n \in Nat, 0 \in X, \A k \in 0..(n - 1) : k \in X => k + 1 \in X
    PROVE  \A k \in 0..n : k \in X
  <1> SUFFICES ASSUME {k \in 0..n : k \notin X} # {} PROVE FALSE
    OBVIOUS
  <1> DEFINE Y == {k \in 0..n : k \notin X}
  <1>1. Y \subseteq Nat /\ Y # {}
    OBVIOUS
  <1>2. PICK m \in Y : \A k \in Y : m <= k
    <2> HIDE DEF Y
    <2> QED
      BY <1>1, LeastNumber
  <1>3. m # 0 /\ m - 1 \in 0..(n - 1)
    OBVIOUS
  <1>4. m - 1 \notin Y
    BY <1>2, <1>3
  <1>5. QED
    BY <1>3, <1>4

LEMMA Quotient ==
    ASSUME NEW a \in Nat, NEW m \in Nat \ {0}
    PROVE  a \div m \in Nat /\ m * (a \div m) <= a /\ a < m * (a \div m) + m
  OBVIOUS

LEMMA QuotientIs ==
    ASSUME NEW a \in Nat, NEW m \in Nat \ {0}, NEW q \in Nat, m * q <= a, a < m * q + m
    PROVE  a \div m = q
  OBVIOUS

LEMMA Remainder ==
    ASSUME NEW a \in Nat, NEW m \in Nat \ {0}
    PROVE  a % m \in 0..(m - 1) /\ a % m = a - m * (a \div m) /\ a = m * (a \div m) + (a % m)
  <1>1. a % m = a - m * (a \div m)
    BY SMTT(60)
  <1>2. a \div m \in Nat /\ m * (a \div m) <= a /\ a < m * (a \div m) + m
    BY Quotient
  <1>3. m * (a \div m) \in Nat
    BY <1>2
  <1>4. QED
    BY <1>1, <1>2, <1>3

LEMMA RemainderIs ==
    ASSUME NEW a \in Nat, NEW m \in Nat \ {0}, NEW q \in Nat, NEW r \in 0..(m - 1), a = m * q + r
    PROVE  a \div m = q /\ a % m = r
  <1>1. m * q \in Nat
    OBVIOUS
  <1>2. a \div m = q
    BY <1>1, QuotientIs
  <1>3. QED
    BY <1>1, <1>2, Remainder

\* The block after b is the next one of its row, or the first of the next row.
LEMMA BlockAfter ==
    ASSUME NEW b \in Nat, NEW m \in Nat \ {0}
    PROVE  /\ (b % m) + 1 = m => (b + 1) \div m = (b \div m) + 1 /\ (b + 1) % m = 0
           /\ (b % m) + 1 # m => (b + 1) \div m = b \div m /\ (b + 1) % m = (b % m) + 1
           /\ ((b % m) + 1) % m = (b + 1) % m
  <1>1. PICK q \in Nat : q = b \div m
    BY Quotient
  <1>2. PICK r \in 0..(m - 1) : r = b % m
    BY Remainder
  <1>3. b = m * q + r /\ m * q \in Nat
    BY <1>1, <1>2, Remainder
  <1>4. CASE r + 1 = m
    <2>1. b + 1 = m * (q + 1) + 0 /\ 0 \in 0..(m - 1) /\ b + 1 \in Nat /\ q + 1 \in Nat
      BY <1>3, <1>4
    <2>2. (b + 1) \div m = q + 1 /\ (b + 1) % m = 0
      BY <2>1, RemainderIs
    <2>3. r + 1 = m * 1 + 0
      BY <1>4
    <2>4. (r + 1) % m = 0
      BY <2>3, RemainderIs
    <2>5. QED
      BY <1>1, <1>2, <1>4, <2>2, <2>4
  <1>5. CASE r + 1 # m
    <2>1. b + 1 = m * q + (r + 1) /\ r + 1 \in 0..(m - 1) /\ b + 1 \in Nat
      BY <1>3, <1>5
    <2>2. (b + 1) \div m = q /\ (b + 1) % m = r + 1
      BY <2>1, RemainderIs
    <2>3. r + 1 = m * 0 + (r + 1)
      BY <2>1
    <2>4. (r + 1) % m = r + 1
      BY <2>1, <2>3, RemainderIs
    <2>5. QED
      BY <1>1, <1>2, <1>5, <2>2, <2>4
  <1>6. QED
    BY <1>4, <1>5
-----------------------------------------------------------------------------
(* The image and its parts                                                 *)

LEMMA ImageIs ==
    ASSUME img \in Images
    PROVE  /\ img.bw \in Nat \ {0} /\ img.lines \in Nat \ {0} /\ img.rgba \in BOOLEAN
           /\ PartLines \in Nat \ {0}
           /\ width = 4 * img.bw /\ width \in Nat \ {0} /\ width \div 4 = img.bw
           /\ numBlocks = img.bw * img.lines /\ numBlocks \in Nat \ {0}
           /\ wordsPerBlock \in {1, 2} /\ (img.rgba <=> wordsPerBlock = 2)
           /\ Words(img) = 0..(wordsPerBlock * numBlocks - 1)
  <1>1. img.bw \in Nat \ {0} /\ img.lines \in Nat \ {0} /\ img.rgba \in BOOLEAN
        /\ PartLines \in Nat \ {0}
    BY HybridAssumption
  <1>2. width = 4 * img.bw /\ width \in Nat \ {0} /\ width \div 4 = img.bw
    BY <1>1 DEF width
  <1>3. numBlocks = img.bw * img.lines /\ numBlocks \in Nat \ {0}
    BY <1>1 DEF numBlocks
  <1>4. wordsPerBlock \in {1, 2} /\ (img.rgba <=> wordsPerBlock = 2)
    BY <1>1 DEF wordsPerBlock
  <1>5. Words(img) = 0..(wordsPerBlock * numBlocks - 1)
    <2>1. Words(img) = 0..(wordsPerBlock * img.bw * img.lines - 1)
      BY DEF Words, wordsPerBlock
    <2>2. \A k, a, b \in Nat : k * a * b = k * (a * b)
      OBVIOUS
    <2>3. wordsPerBlock * img.bw * img.lines = wordsPerBlock * (img.bw * img.lines)
      BY <1>1, <1>4, <2>2
    <2>4. QED
      BY <1>3, <2>1, <2>3
  <1>6. QED
    BY <1>1, <1>2, <1>3, <1>4, <1>5

LEMMA PartsAre ==
    ASSUME img \in Images
    PROVE  /\ parts \in Nat \ {0}
           /\ \A j \in Nat : j < parts => j * PartLines < img.lines
           /\ parts * PartLines >= img.lines
  <1>1. img.lines \in Nat \ {0} /\ PartLines \in Nat \ {0}
    BY ImageIs
  <1>2. PICK a \in Nat : a = img.lines + (PartLines - 1)
    BY <1>1
  <1>3. parts = a \div PartLines
    <2>1. parts = (img.lines + PartLines - 1) \div PartLines
      BY DEF parts, PartsOf
    <2>2. img.lines + PartLines - 1 = a
      BY <1>1, <1>2
    <2>3. QED
      BY <2>1, <2>2
  <1>4. PICK n \in Nat : n = parts
    BY <1>1, <1>3, Quotient
  <1>5. PartLines * n <= a /\ a < PartLines * n + PartLines /\ PartLines * n \in Nat
    BY <1>1, <1>3, <1>4, Quotient
  <1>6. n # 0
    BY <1>1, <1>2, <1>5
  <1>7. ASSUME NEW j \in Nat, j < n PROVE j * PartLines < img.lines
    <2>1. (j + 1) * PartLines <= n * PartLines
      BY <1>1, <1>7
    <2>2. (j + 1) * PartLines = j * PartLines + PartLines /\ n * PartLines = PartLines * n
          /\ j * PartLines \in Nat
      BY <1>1
    <2>3. QED
      BY <1>1, <1>2, <1>5, <2>1, <2>2
  <1>8. n * PartLines >= img.lines
    <2>1. n * PartLines = PartLines * n
      BY <1>1
    <2>2. QED
      BY <1>1, <1>2, <1>5, <2>1
  <1>9. QED
    BY <1>4, <1>6, <1>7, <1>8

LEMMA LeastIs ==
    ASSUME NEW a \in Nat, NEW b \in Nat
    PROVE  Least(a, b) \in Nat /\ Least(a, b) <= a /\ Least(a, b) <= b
           /\ (a <= b => Least(a, b) = a) /\ (b <= a => Least(a, b) = b)
  BY DEF Least

\* The edges of the parts cut the blocks into intervals that are not empty.
LEMMA EdgesAre ==
    ASSUME img \in Images
    PROVE  /\ \A j \in Nat : Edge(j) \in Nat /\ Edge(j) <= numBlocks
           /\ Edge(0) = 0 /\ Edge(parts) = numBlocks
           /\ \A i, j \in Nat : i <= j => Edge(i) <= Edge(j)
           /\ \A j \in Nat : j < parts => Edge(j) < Edge(j + 1)
  <1>1. /\ img.bw \in Nat \ {0} /\ img.lines \in Nat \ {0} /\ PartLines \in Nat \ {0}
        /\ numBlocks = img.bw * img.lines
    BY ImageIs
  <1>2. PICK l : l = img.lines
    OBVIOUS
  <1>3. l \in Nat \ {0}
    BY <1>1, <1>2
  <1>4. \A j \in Nat : j * PartLines \in Nat
    BY <1>1
  <1>5. \A j \in Nat : Least(j * PartLines, l) \in Nat /\ Least(j * PartLines, l) <= l
    BY <1>3, <1>4, LeastIs
  <1>6. \A j \in Nat : Edge(j) = img.bw * Least(j * PartLines, l)
    BY <1>2 DEF Edge
  <1>7. \A u, v \in Nat : u <= v => img.bw * u <= img.bw * v
    BY <1>1
  <1>8. \A u, v \in Nat : u < v => img.bw * u < img.bw * v
    BY <1>1
  <1>9. \A u \in Nat : img.bw * u \in Nat
    BY <1>1
  <1>10. \A j \in Nat : Edge(j) \in Nat /\ Edge(j) <= numBlocks
    <2> SUFFICES ASSUME NEW j \in Nat PROVE Edge(j) \in Nat /\ Edge(j) <= numBlocks
      OBVIOUS
    <2>1. PICK e \in Nat : e = Least(j * PartLines, l)
      BY <1>5
    <2>2. e <= l /\ l \in Nat /\ Edge(j) = img.bw * e
      BY <1>3, <1>5, <1>6, <2>1
    <2>3. img.bw * e <= img.bw * l /\ img.bw * e \in Nat
      BY <1>7, <1>9, <2>2
    <2>4. QED
      BY <1>1, <1>2, <2>2, <2>3
  <1>11. Edge(0) = 0
    <2>1. 0 * PartLines = 0
      BY <1>1
    <2>2. Least(0, l) = 0
      BY <1>3 DEF Least
    <2>3. QED
      BY <1>1, <1>6, <2>1, <2>2
  <1>12. Edge(parts) = numBlocks
    <2>1. parts \in Nat /\ parts * PartLines >= l
      BY <1>2, PartsAre
    <2>2. Least(parts * PartLines, l) = l
      BY <1>3, <1>4, <2>1, LeastIs
    <2>3. QED
      BY <1>1, <1>2, <1>6, <2>1, <2>2
  <1>13. ASSUME NEW i \in Nat, NEW j \in Nat, i <= j PROVE Edge(i) <= Edge(j)
    <2>1. i * PartLines <= j * PartLines
      BY <1>1, <1>13
    <2>2. Least(i * PartLines, l) <= Least(j * PartLines, l)
      BY <1>3, <1>4, <2>1 DEF Least
    <2>3. QED
      BY <1>5, <1>6, <1>7, <2>2
  <1>14. ASSUME NEW j \in Nat, j < parts PROVE Edge(j) < Edge(j + 1)
    <2>1. j * PartLines < l
      BY <1>2, <1>14, PartsAre
    <2>2. (j + 1) * PartLines = j * PartLines + PartLines
      BY <1>1
    <2>3. Least(j * PartLines, l) < Least((j + 1) * PartLines, l)
      BY <1>1, <1>3, <1>4, <2>1, <2>2 DEF Least
    <2>4. j + 1 \in Nat
      OBVIOUS
    <2>5. QED
      BY <1>5, <1>6, <1>8, <2>3, <2>4
  <1>15. QED
    BY <1>10, <1>11, <1>12, <1>13, <1>14

\* src is where the block's first pixel is, and the walk gets it right.
LEMMA SourceIs ==
    ASSUME img \in Images, NEW b \in Nat
    PROVE  /\ SrcOf(b) \in Nat /\ BlockAt(SrcOf(b)) = b /\ Rows(SrcOf(b)) = BlockRows(b)
           /\ NextSrc(SrcOf(b), b % img.bw) = SrcOf(b + 1)
           /\ ((b % img.bw) + 1) % (width \div 4) = (b + 1) % img.bw
  <1>1. PICK m \in Nat \ {0} : m = img.bw
    BY ImageIs
  <1>2. width = 4 * m /\ width \div 4 = m
    BY <1>1, ImageIs
  <1>3. PICK q \in Nat : q = b \div m
    BY Quotient
  <1>4. PICK r \in 0..(m - 1) : r = b % m
    BY Remainder
  <1>5. b = m * q + r /\ m * q \in Nat
    BY <1>3, <1>4, Remainder
  <1>6. SrcOf(b) = 16 * (m * q) + 4 * r /\ SrcOf(b) \in Nat
    <2>1. SrcOf(b) = 16 * (img.bw * (b \div img.bw)) + 4 * (b % img.bw)
      BY DEF SrcOf
    <2>2. SrcOf(b) = 16 * (m * q) + 4 * r
      BY <1>1, <1>3, <1>4, <2>1, Zenon
    <2>3. 16 * (m * q) + 4 * r \in Nat
      BY <1>4, <1>5
    <2>4. QED
      BY <2>2, <2>3
  <1>7. BlockAt(SrcOf(b)) = b
    <2>1. PICK s \in Nat : s = SrcOf(b)
      BY <1>6
    <2>2. 16 * m \in Nat \ {0} /\ s = (16 * m) * q + 4 * r /\ 4 * r \in 0..(16 * m - 1)
      BY <1>4, <1>6, <2>1
    <2>3. s \div (16 * m) = q
      BY <2>2, RemainderIs
    <2>4. 4 * m \in Nat \ {0} /\ s = (4 * m) * (4 * q) + 4 * r /\ 4 * r \in 0..(4 * m - 1) /\ 4 * q \in Nat
      BY <1>4, <1>6, <2>1
    <2>5. s % (4 * m) = 4 * r
      BY <2>4, RemainderIs
    <2>6. (4 * r) \div 4 = r
      BY <1>4
    <2>7. 4 * (4 * m) = 16 * m
      OBVIOUS
    <2>8. BlockAt(s) = (s \div (4 * (4 * m))) * m + (s % (4 * m)) \div 4
      BY <1>1, <1>2 DEF BlockAt
    <2>9. BlockAt(s) = q * m + r
      BY <2>3, <2>5, <2>6, <2>7, <2>8
    <2>10. q * m = m * q
      OBVIOUS
    <2>11. QED
      BY <1>5, <2>1, <2>9, <2>10
  <1>8. Rows(SrcOf(b)) = BlockRows(b)
    <2>1. ASSUME NEW y \in 1..4
          PROVE  SrcOf(b) + width * (y - 1) = (4 * (b \div img.bw) + y - 1) * width + 4 * (b % img.bw)
      <3>1. PICK z \in Nat : z = y - 1
        OBVIOUS
      <3>2. 4 * q + y - 1 = 4 * q + z
        BY <3>1
      <3>3. (4 * q + z) * (4 * m) = 16 * (m * q) + (4 * m) * z
        OBVIOUS
      <3>4. (4 * q + z) * (4 * m) \in Nat /\ (4 * m) * z \in Nat
        OBVIOUS
      <3>5. SrcOf(b) + (4 * m) * z = (4 * q + z) * (4 * m) + 4 * r
        BY <1>5, <1>6, <3>3, <3>4
      <3>6. QED
        BY <1>1, <1>2, <1>3, <1>4, <3>1, <3>2, <3>5
    <2>2. QED
      BY <2>1 DEF Rows, BlockRows
  <1>9. NextSrc(SrcOf(b), b % img.bw) = SrcOf(b + 1)
    <2>1. NextSrc(SrcOf(b), r) = SrcOf(b) + 4 + (IF r + 1 = m THEN 3 * (4 * m) ELSE 0)
      BY <1>2 DEF NextSrc
    <2>2. SrcOf(b + 1) = 16 * (m * ((b + 1) \div m)) + 4 * ((b + 1) % m)
      BY <1>1 DEF SrcOf
    <2>3. CASE r + 1 = m
      <3>1. (b + 1) \div m = q + 1 /\ (b + 1) % m = 0
        BY <1>3, <1>4, <2>3, BlockAfter
      <3>2. m * (q + 1) = m * q + m
        OBVIOUS
      <3>3. QED
        <4>1. PICK p \in Nat : p = m * q
          BY <1>5
        <4>2. SrcOf(b + 1) = 16 * (p + m) + 4 * 0
          BY <2>2, <3>1, <3>2, <4>1, Zenon
        <4>3. SrcOf(b) = 16 * p + 4 * r
          BY <1>6, <4>1
        <4>4. NextSrc(SrcOf(b), r) = SrcOf(b) + 4 + 3 * (4 * m)
          BY <2>1, <2>3
        <4>5. 16 * p + 4 * r + 4 + 3 * (4 * m) = 16 * (p + m) + 4 * 0
          BY <1>4, <2>3
        <4>6. NextSrc(SrcOf(b), r) = SrcOf(b + 1)
          BY <4>2, <4>3, <4>4, <4>5
        <4>7. QED
          BY <1>1, <1>4, <4>6, Zenon
    <2>4. CASE r + 1 # m
      <3>1. (b + 1) \div m = q /\ (b + 1) % m = r + 1
        BY <1>3, <1>4, <2>4, BlockAfter
      <3>2. QED
        BY <1>1, <1>4, <1>5, <1>6, <2>1, <2>2, <2>4, <3>1
    <2>5. QED
      BY <2>3, <2>4
  <1>10. ((b % img.bw) + 1) % (width \div 4) = (b + 1) % img.bw
    <2>1. ((b % m) + 1) % m = (b + 1) % m
      BY BlockAfter
    <2>2. QED
      BY <1>1, <1>2, <2>1, Zenon
  <1>11. QED
    BY <1>6, <1>7, <1>8, <1>9, <1>10

\* Each block has words of its own.
LEMMA WordsAre ==
    ASSUME img \in Images
    PROVE  /\ \A b \in Blocks : /\ ColourWord(b) \in Words(img)
                                /\ img.rgba => 2 * b \in Words(img) /\ ColourWord(b) = 2 * b + 1
                                /\ ~img.rgba => ColourWord(b) = b
                                /\ ColourWord(b) = wordsPerBlock * b + wordsPerBlock - 1
                                /\ b \in Nat
           /\ \A b, c \in Blocks : ColourWord(b) = ColourWord(c) => b = c
           /\ \A i \in Words(img) : \E b \in Blocks : i = ColourWord(b) \/ (img.rgba /\ i = 2 * b)
  <1>1. /\ numBlocks \in Nat \ {0} /\ wordsPerBlock \in {1, 2} /\ (img.rgba <=> wordsPerBlock = 2)
        /\ Words(img) = 0..(wordsPerBlock * numBlocks - 1)
    BY ImageIs
  <1>2. CASE wordsPerBlock = 1
    <2>1. ~img.rgba /\ Words(img) = Blocks
      BY <1>1, <1>2 DEF Blocks
    <2>2. \A b \in Blocks : ColourWord(b) = b /\ b \in Nat
      BY <1>1, <1>2 DEF ColourWord, Blocks
    <2>3. QED
      BY <1>2, <2>1, <2>2 DEF ColourWord
  <1>3. CASE wordsPerBlock = 2
    <2>1. img.rgba /\ Words(img) = 0..(2 * numBlocks - 1)
      BY <1>1, <1>3
    <2>2. \A b \in Blocks : ColourWord(b) = 2 * b + 1 /\ b \in Nat
      BY <1>1, <1>3 DEF ColourWord, Blocks
    <2>3. ASSUME NEW i \in Words(img) PROVE \E b \in Blocks : i = ColourWord(b) \/ i = 2 * b
      <3>1. i \div 2 \in Blocks
        BY <1>1, <2>1 DEF Blocks
      <3>2. i = 2 * (i \div 2) + 1 \/ i = 2 * (i \div 2)
        BY <1>1, <2>1
      <3>3. QED
        BY <2>2, <3>1, <3>2
    <2>4. \A b \in Blocks : 2 * b + 1 \in Words(img) /\ 2 * b \in Words(img)
      BY <1>1, <2>1 DEF Blocks
    <2>5. \A b, c \in Blocks : ColourWord(b) = ColourWord(c) => b = c
      BY <2>2
    <2>6. \A b : ColourWord(b) = wordsPerBlock * b + wordsPerBlock - 1
      BY DEF ColourWord
    <2>7. QED
      BY <2>1, <2>2, <2>3, <2>4, <2>5, <2>6
  <1>4. QED
    BY <1>1, <1>2, <1>3
-----------------------------------------------------------------------------
(* The invariant at the start                                              *)

LEMMA PipelineInit == Init => PipelineInv
  <1> SUFFICES ASSUME Init PROVE PipelineInv
    OBVIOUS
  <1>1. img \in Images /\ quality \in Qualities /\ mpc = "queue"
    BY DEF Init
  <1>2. Len(task) = 0 /\ task \in Seq(TaskSet)
    BY DEF Init
  <1>3. /\ PartLines \in Nat \ {0} /\ img.lines \in Nat \ {0}
        /\ numBlocks = img.bw * img.lines /\ numBlocks \in Nat \ {0}
    BY <1>1, ImageIs
  <1>4. parts \in Nat \ {0} /\ Edge(0) = 0
    BY <1>1, PartsAre, EdgesAre
  <1>5. MainInv
    <2>1. err \in [Blocks -> 0..MaxError]
      BY <1>3 DEF Init, Blocks
    <2>2. Least(0 * PartLines, img.lines) = 0
      BY <1>3 DEF Least
    <2>3. linesLeft = img.lines - Least(Len(task) * PartLines, img.lines)
      BY <1>2, <1>3, <2>2 DEF Init
    <2>4. offset = Edge(Len(task)) /\ ptr = 16 * offset
      BY <1>2, <1>4 DEF Init
    <2>5. QED
      BY <1>1, <1>2, <1>4, <2>1, <2>3, <2>4 DEF MainInv
  <1>6. \A j \in 1..Len(task) : TaskInv(j)
    BY <1>2
  <1>7. \A b \in Blocks : ColourWord(b) \in Words(img) /\ (img.rgba => 2 * b \in Words(img))
    BY <1>1, WordsAre
  <1>8. \A b \in Blocks : /\ out[ColourWord(b)] = unwritten
                          /\ img.rgba => out[2 * b] = unwritten
    BY <1>7 DEF Init
  <1>9. unwritten \in WordSet /\ unwritten.by = "none"
    BY DEF unwritten, WordSet
  <1>10. OutInv
    <2>1. WordsBelong
      BY <1>8 DEF WordsBelong, Blocks
    <2>2. \A b \in Blocks : Pending(b)
      BY <1>2, <1>3, <1>4 DEF Pending, Blocks
    <2>3. DOMAIN out = Words(img) /\ \A i \in Words(img) : out[i] \in WordSet
      BY <1>9 DEF Init
    <2>4. QED
      BY <1>8, <1>9, <2>1, <2>2, <2>3 DEF OutInv
  <1>11. pixelMat \in Mats /\ \A j \in 1..parts : PixInv(j)
    BY <1>2, <1>4 DEF Init, PixInv, Mats
  <1>12. PipeInv
    BY <1>1 DEF Init, PipeInv
  <1>13. ResultInv
    <2>1. saved = 0 /\ Len(buf) = 0 /\ result = <<>>
      BY DEF Init
    <2>2. QED
      BY <1>1, <1>8, <1>9, <2>1 DEF ResultInv
  <1>14. QED
    BY <1>5, <1>6, <1>10, <1>11, <1>12, <1>13 DEF PipelineInv
-----------------------------------------------------------------------------
(* The steps of the main thread that leave the tasks and the file alone     *)

LEMMA CpuKept ==
    ASSUME PipelineInv,
           UNCHANGED <<img, err, quality, ptr, offset, linesLeft, task, pixelMat, out>>,
           mpc' \in {"sync", "select", "gpu", "save", "done"}, Len(task) = parts,
           mpc' # "sync" => AllEncoded,
           mpc \in {"save", "done"} => mpc' \in {"save", "done"}
    PROVE  /\ MainInv' /\ \A j \in 1..Len(task') : TaskInv(j)'
           /\ OutInv' /\ pixelMat' \in Mats' /\ \A j \in 1..parts' : PixInv(j)'
  <1>1. MainInv /\ \A j \in 1..Len(task) : TaskInv(j)
    BY DEF PipelineInv
  <1>2. parts' = parts /\ wordsPerBlock' = wordsPerBlock /\ Blocks' = Blocks /\ Words(img)' = Words(img)
        /\ \A j : Edge(j)' = Edge(j)
    BY DEF parts, PartsOf, wordsPerBlock, Blocks, numBlocks, Words, Edge
  <1>3. MainInv'
    BY <1>1, <1>2 DEF MainInv
  <1>4. \A j \in 1..Len(task') : TaskInv(j)'
    <2>1. \A j : Cur(j)' = Cur(j) /\ SrcOf(Cur(j))' = SrcOf(Cur(j))
      BY <1>2 DEF Cur, SrcOf
    <2>2. QED
      BY <1>1, <1>2, <2>1 DEF TaskInv, AllEncoded
  <1>5. OutInv'
    <2>1. \A b : ColourWord(b)' = ColourWord(b) /\ BlockRows(b)' = BlockRows(b) /\ Pending(b)' = Pending(b)
      BY <1>2 DEF ColourWord, BlockRows, width, Pending, Cur
    <2>2. WordsBelong'
      BY <2>1 DEF PipelineInv, OutInv, WordsBelong, numBlocks
    <2>3. OutInv
      BY DEF PipelineInv
    <2>4. QED
      BY <1>2, <2>1, <2>2, <2>3 DEF OutInv
  <1>6. pixelMat' \in Mats' /\ \A j \in 1..parts' : PixInv(j)'
    <2>1. \A j : Cur(j)' = Cur(j)
      BY <1>2 DEF Cur
    <2>2. \A b : PixOf(b)' = PixOf(b)
      BY <1>2 DEF PixOf, ColourWord, BlockRows, width
    <2>3. PixBlockSet' = PixBlockSet
      BY <1>2 DEF PixBlockSet
    <2>4. ASSUME NEW j \in 1..parts PROVE PixInv(j)'
      <3>1. PixInv(j)
        BY DEF PipelineInv
      <3>2. QED
        BY <1>2, <2>1, <2>2, <2>3, <3>1 DEF PixInv, Holds
    <2>5. QED
      BY <1>2, <2>3, <2>4 DEF PipelineInv, Mats
  <1>7. QED
    BY <1>3, <1>4, <1>5, <1>6

LEMMA RestKept ==
    ASSUME PipelineInv, UNCHANGED <<img, err, quality, out, pipe, buf, result, saved>>,
           \/ mpc' = mpc
           \/ mpc = "queue" /\ mpc' = "sync"
           \/ mpc = "save" /\ mpc' = "done" /\ saved = Len(buf)
    PROVE  PipeInv' /\ ResultInv'
  <1>1. PipeInv /\ ResultInv
    BY DEF PipelineInv
  <1>2. \A b : PixOf(b)' = PixOf(b) /\ ColourWord(b)' = ColourWord(b) /\ BlockRows(b)' = BlockRows(b)
    BY DEF PixOf, ColourWord, BlockRows, width, wordsPerBlock
  <1>3. Blocks' = Blocks /\ HighError' = HighError /\ PixBlockSet' = PixBlockSet
    BY DEF Blocks, HighError, numBlocks, PixBlockSet
  <1>4. Holds(pipe, 0, numBlocks)' = Holds(pipe, 0, numBlocks)
    BY <1>2, <1>3 DEF Holds, Blocks
  <1>5. PipeInv'
    BY <1>1, <1>3, <1>4 DEF PipeInv, Limit
  <1>6. ResultInv'
    BY <1>1, <1>2, <1>3 DEF ResultInv
  <1>7. QED
    BY <1>5, <1>6

LEMMA SyncCallKeeps ==
    ASSUME PipelineInv, SyncCall
    PROVE  PipelineInv'
  <1>1. /\ mpc = "queue" /\ mpc' = "sync" /\ Len(task) = parts
        /\ UNCHANGED <<img, err, quality, ptr, offset, linesLeft, task, pixelMat, out, pipe,
                       buf, result, saved>>
    BY DEF SyncCall
  <1>2. /\ MainInv' /\ \A j \in 1..Len(task') : TaskInv(j)'
        /\ OutInv' /\ pixelMat' \in Mats' /\ \A j \in 1..parts' : PixInv(j)'
    BY <1>1, CpuKept
  <1>3. PipeInv' /\ ResultInv'
    BY <1>1, RestKept
  <1>4. QED
    BY <1>2, <1>3 DEF PipelineInv

LEMMA AfterSync ==
    ASSUME PipelineInv, mpc \notin {"queue", "sync"}
    PROVE  Len(task) = parts /\ AllEncoded
  BY DEF PipelineInv, MainInv, TaskInv, AllEncoded

LEMMA FinishKeeps ==
    ASSUME PipelineInv, Finish
    PROVE  PipelineInv'
  <1>1. /\ mpc = "save" /\ mpc' = "done" /\ saved = Len(buf)
        /\ UNCHANGED <<img, err, quality, ptr, offset, linesLeft, task, pixelMat, out, pipe,
                       buf, result, saved>>
    BY DEF Finish
  <1>2. Len(task) = parts /\ AllEncoded
    BY <1>1, AfterSync
  <1>3. /\ MainInv' /\ \A j \in 1..Len(task') : TaskInv(j)'
        /\ OutInv' /\ pixelMat' \in Mats' /\ \A j \in 1..parts' : PixInv(j)'
    BY <1>1, <1>2, CpuKept
  <1>4. PipeInv' /\ ResultInv'
    BY <1>1, RestKept
  <1>5. QED
    BY <1>3, <1>4 DEF PipelineInv
-----------------------------------------------------------------------------
(* A part is queued                                                        *)

\* What the main loop computes for the n-th part is where the part lies.
LEMMA PartLies ==
    ASSUME img \in Images, NEW n \in Nat, n < parts, NEW left,
           left = img.lines - Least(n * PartLines, img.lines), NEW lines,
           lines = IF PartLines < left THEN PartLines ELSE left
    PROVE  /\ left - lines = img.lines - Least((n + 1) * PartLines, img.lines)
           /\ lines \in Nat /\ width * lines * 4 = 16 * ((width * lines) \div 4)
           /\ (width * lines) \div 4 \in Nat
           /\ Edge(n) + (width * lines) \div 4 = Edge(n + 1)
           /\ SrcOf(Edge(n)) = 16 * Edge(n) /\ Edge(n) % img.bw = 0
  <1>1. PICK m \in Nat \ {0} : m = img.bw
    BY ImageIs
  <1>2. PICK l \in Nat \ {0} : l = img.lines
    BY ImageIs
  <1>3. PICK a \in Nat : a = n * PartLines
    BY ImageIs
  <1>4. PartLines \in Nat \ {0} /\ width = 4 * m
    BY <1>1, ImageIs
  <1>5. a < l
    BY <1>2, <1>3, PartsAre
  <1>6. (n + 1) * PartLines = a + PartLines
    BY <1>3, <1>4
  <1>7. Least(n * PartLines, img.lines) = a
    BY <1>2, <1>3, <1>5 DEF Least
  <1>8. left = l - a
    BY <1>2, <1>7
  <1>9. lines \in Nat
    BY <1>4, <1>5, <1>8
  <1>10. Least((n + 1) * PartLines, img.lines) = a + lines
    <2>1. Least(a + PartLines, l) = a + lines
      BY <1>4, <1>5, <1>8 DEF Least
    <2>2. QED
      BY <1>2, <1>6, <2>1, Zenon
  <1>11. left - lines = img.lines - Least((n + 1) * PartLines, img.lines)
    BY <1>2, <1>5, <1>8, <1>9, <1>10
  <1>12. PICK p \in Nat : p = m * lines
    BY <1>9
  <1>13. width * lines = 4 * p
    BY <1>4, <1>9, <1>12
  <1>14. (width * lines) \div 4 = p /\ width * lines * 4 = 16 * p
    BY <1>13
  <1>15. Edge(n) = m * a /\ Edge(n + 1) = m * (a + lines)
    BY <1>1, <1>7, <1>10 DEF Edge
  <1>16. m * (a + lines) = m * a + p
    BY <1>9, <1>12
  <1>17. m * a \in Nat /\ m * a = m * a + 0 /\ 0 \in 0..(m - 1)
    OBVIOUS
  <1>18. (m * a) \div m = a /\ (m * a) % m = 0
    BY <1>17, RemainderIs
  <1>19. Edge(n) % img.bw = 0
    BY <1>1, <1>15, <1>18
  <1>20. SrcOf(Edge(n)) = 16 * Edge(n)
    <2>1. SrcOf(Edge(n)) = 16 * (m * ((m * a) \div m)) + 4 * ((m * a) % m)
      BY <1>1, <1>15 DEF SrcOf
    <2>2. SrcOf(Edge(n)) = 16 * (m * a) + 4 * 0
      BY <1>18, <2>1, Zenon
    <2>3. 16 * (m * a) + 4 * 0 = 16 * (m * a)
      BY <1>17
    <2>4. QED
      BY <1>15, <2>2, <2>3, Zenon
  <1>21. QED
    BY <1>9, <1>11, <1>12, <1>14, <1>15, <1>16, <1>19, <1>20

LEMMA QueuePartKeeps ==
    ASSUME PipelineInv, QueuePart
    PROVE  PipelineInv'
  <1>1. MainInv /\ OutInv /\ (\A j \in 1..Len(task) : TaskInv(j)) /\ (\A j \in 1..parts : PixInv(j))
        /\ pixelMat \in Mats
    BY DEF PipelineInv
  <1>2. img \in Images /\ task \in Seq(TaskSet)
    BY <1>1 DEF MainInv
  <1>3. PICK n \in Nat : n = Len(task)
    BY <1>2
  <1>4. mpc = "queue" /\ n < parts /\ mpc' = mpc
        /\ UNCHANGED <<img, err, quality, pixelMat, out, pipe, buf, result, saved>>
    BY <1>3 DEF QueuePart
  <1>5. PICK lines : lines = IF PartLines < linesLeft THEN PartLines ELSE linesLeft
    OBVIOUS
  <1>6. PICK size : size = (width * lines) \div 4
    OBVIOUS
  <1>7. PICK t : t = [src |-> ptr, dst |-> offset * wordsPerBlock, w |-> 0, blocks |-> size]
    OBVIOUS
  <1>8. /\ task' = Append(task, t) /\ linesLeft' = linesLeft - lines
        /\ ptr' = ptr + width * lines * 4 /\ offset' = offset + size
    BY <1>5, <1>6, <1>7 DEF QueuePart, Task, NextPtr
  <1>9. linesLeft = img.lines - Least(n * PartLines, img.lines) /\ offset = Edge(n) /\ ptr = 16 * offset
    BY <1>1, <1>3 DEF MainInv
  <1>10. /\ linesLeft' = img.lines - Least((n + 1) * PartLines, img.lines)
         /\ width * lines * 4 = 16 * size /\ size \in Nat
         /\ Edge(n) + size = Edge(n + 1)
         /\ SrcOf(Edge(n)) = 16 * Edge(n) /\ Edge(n) % img.bw = 0
    <2>1. PICK left : left = linesLeft
      OBVIOUS
    <2>2. /\ left = img.lines - Least(n * PartLines, img.lines)
          /\ lines = IF PartLines < left THEN PartLines ELSE left
      BY <1>5, <1>9, <2>1
    <2>3. /\ left - lines = img.lines - Least((n + 1) * PartLines, img.lines)
          /\ width * lines * 4 = 16 * ((width * lines) \div 4)
          /\ (width * lines) \div 4 \in Nat
          /\ Edge(n) + (width * lines) \div 4 = Edge(n + 1)
          /\ SrcOf(Edge(n)) = 16 * Edge(n) /\ Edge(n) % img.bw = 0
      BY <1>2, <1>4, <2>2, PartLies
    <2>4. QED
      BY <1>6, <1>8, <2>1, <2>3, Zenon
  <1>11. /\ parts \in Nat \ {0} /\ wordsPerBlock \in {1, 2}
         /\ \A j \in Nat : Edge(j) \in Nat
    BY <1>2, PartsAre, EdgesAre, ImageIs
  <1>12. t \in TaskSet
    <2>1. ptr \in Nat /\ offset * wordsPerBlock \in Nat
      BY <1>9, <1>11
    <2>2. QED
      BY <1>7, <1>10, <2>1 DEF TaskSet
  <1>13. /\ task' \in Seq(TaskSet) /\ Len(task') = n + 1 /\ task'[n + 1] = t
         /\ \A j \in 1..n : task'[j] = task[j]
    BY <1>2, <1>3, <1>8, <1>12
  <1>14. parts' = parts /\ wordsPerBlock' = wordsPerBlock /\ Blocks' = Blocks /\ Words(img)' = Words(img)
         /\ \A j : Edge(j)' = Edge(j)
    BY <1>4 DEF parts, PartsOf, wordsPerBlock, Blocks, numBlocks, Words, Edge
  <1>15. MainInv'
    <2>1. offset' = Edge(n + 1) /\ ptr' = 16 * offset'
      <3>1. offset \in Nat /\ offset' = Edge(n + 1)
        BY <1>8, <1>9, <1>10, <1>11
      <3>2. ptr' = 16 * offset + 16 * size
        BY <1>8, <1>9, <1>10
      <3>3. 16 * offset + 16 * size = 16 * (offset + size)
        BY <1>10, <3>1
      <3>4. QED
        BY <1>8, <3>1, <3>2, <3>3
    <2>2. n + 1 <= parts
      BY <1>4, <1>11
    <2>3. QED
      BY <1>1, <1>4, <1>10, <1>13, <1>14, <2>1, <2>2 DEF MainInv
  <1>16. Cur(n + 1)' = Edge(n) /\ \A j \in 1..n : Cur(j)' = Cur(j)
    <2>1. Cur(n + 1)' = Edge(n + 1) - size
      BY <1>7, <1>13, <1>14 DEF Cur
    <2>2. Edge(n + 1) - size = Edge(n)
      BY <1>10, <1>11
    <2>3. QED
      BY <1>13, <1>14, <2>1, <2>2 DEF Cur
  <1>17. \A j \in 1..Len(task') : TaskInv(j)'
    <2>1. TaskInv(n + 1)'
      <3>1. t.blocks <= Edge(n + 1) - Edge((n + 1) - 1)
        <4>1. (n + 1) - 1 = n
          OBVIOUS
        <4>2. QED
          BY <1>7, <1>10, <1>11, <4>1
      <3>2. t.src = SrcOf(Edge(n)) /\ t.dst = wordsPerBlock * Edge(n) /\ t.w = Edge(n) % img.bw
        BY <1>7, <1>9, <1>10, <1>11
      <3>3. SrcOf(Cur(n + 1))' = SrcOf(Edge(n))
        BY <1>4, <1>16 DEF SrcOf
      <3>4. QED
        BY <1>4, <1>13, <1>14, <1>16, <3>1, <3>2, <3>3 DEF TaskInv
    <2>2. ASSUME NEW j \in 1..n PROVE TaskInv(j)'
      <3>1. TaskInv(j) /\ task'[j] = task[j] /\ Cur(j)' = Cur(j)
        BY <1>1, <1>3, <1>13, <1>16
      <3>2. SrcOf(Cur(j))' = SrcOf(Cur(j))
        BY <1>4, <3>1 DEF SrcOf
      <3>3. QED
        BY <1>4, <1>14, <3>1, <3>2 DEF TaskInv
    <2>3. \A j \in 1..(n + 1) : j = n + 1 \/ j \in 1..n
      OBVIOUS
    <2>4. QED
      BY <1>13, <2>1, <2>2, <2>3
  <1>18. OutInv'
    <2>1. \A b : ColourWord(b)' = ColourWord(b) /\ BlockRows(b)' = BlockRows(b)
      BY <1>4, <1>14 DEF ColourWord, BlockRows, width
    <2>2. ASSUME NEW b \in Blocks PROVE Pending(b)' <=> Pending(b)
      <3>1. b \in Nat
        BY <1>2, WordsAre
      <3>2. Pending(b)' <=> \/ b >= Edge(n + 1)
                            \/ \E j \in 1..(n + 1) : Cur(j)' <= b /\ b < Edge(j)
        BY <1>13, <1>14 DEF Pending
      <3>3. (\E j \in 1..(n + 1) : Cur(j)' <= b /\ b < Edge(j)) <=>
               \/ Edge(n) <= b /\ b < Edge(n + 1)
               \/ \E j \in 1..n : Cur(j) <= b /\ b < Edge(j)
        <4>1. \A j \in 1..(n + 1) : j = n + 1 \/ j \in 1..n
          OBVIOUS
        <4>2. n + 1 \in 1..(n + 1) /\ 1..n \subseteq 1..(n + 1)
          OBVIOUS
        <4>3. QED
          BY <1>16, <4>1, <4>2
      <3>4. b >= Edge(n + 1) \/ (Edge(n) <= b /\ b < Edge(n + 1)) <=> b >= Edge(n)
        BY <1>10, <1>11, <3>1
      <3>5. Pending(b) <=> b >= Edge(n) \/ \E j \in 1..n : Cur(j) <= b /\ b < Edge(j)
        BY <1>3 DEF Pending
      <3>6. QED
        BY <3>2, <3>3, <3>4, <3>5
    <2>3. WordsBelong'
      BY <1>1, <1>4, <2>1 DEF OutInv, WordsBelong, numBlocks
    <2>4. QED
      BY <1>1, <1>4, <1>14, <2>1, <2>2, <2>3 DEF OutInv
  <1>19. ASSUME NEW j \in 1..parts PROVE PixInv(j)'
    <2>1. \A b : PixOf(b)' = PixOf(b)
      BY <1>4, <1>14 DEF PixOf, ColourWord, BlockRows, width
    <2>2. PixBlockSet' = PixBlockSet /\ pixelMat' = pixelMat /\ err' = err
      BY <1>4, <1>14 DEF PixBlockSet
    <2>3. PixInv(j)
      BY <1>1
    <2>4. CASE j \in 1..n
      <3>1. j <= Len(task) /\ ~(j > Len(task)')
        BY <1>3, <1>13, <2>4
      <3>2. Cur(j)' = Cur(j) /\ Edge(j - 1)' = Edge(j - 1)
        BY <1>14, <1>16, <2>4
      <3>3. QED
        BY <2>1, <2>2, <2>3, <3>1, <3>2 DEF PixInv, Holds
    <2>5. CASE j = n + 1
      <3>1. pixelMat[j] = <<>> /\ Len(pixelMat[j]) = 0
        BY <1>3, <2>3, <2>5 DEF PixInv
      <3>2. Edge(j - 1)' = Edge(n) /\ Cur(j)' = Edge(n)
        <4>1. j - 1 = n
          BY <2>5
        <4>2. QED
          BY <1>14, <1>16, <2>5, <4>1
      <3>3. Edge(n)..(Edge(n) - 1) = {}
        BY <1>11
      <3>4. QED
        BY <1>13, <2>2, <2>3, <2>5, <3>1, <3>2, <3>3 DEF PixInv, Holds
    <2>6. CASE j > n + 1
      BY <1>3, <1>13, <2>2, <2>3, <2>6 DEF PixInv
    <2>7. QED
      BY <2>4, <2>5, <2>6
  <1>20. PipeInv' /\ ResultInv'
    BY <1>4, RestKept
  <1>21. QED
    BY <1>1, <1>4, <1>14, <1>15, <1>17, <1>18, <1>19, <1>20 DEF PipelineInv, Mats, PixBlockSet
-----------------------------------------------------------------------------
(* A block is encoded                                                      *)

LEMMA FunctionIsSequence ==
    ASSUME NEW S, NEW n \in Nat, NEW f \in [1..n -> S]
    PROVE  f \in Seq(S) /\ Len(f) = n
  <1>1. f \in Seq(S)
    BY SeqDef
  <1>2. Len(f) \in Nat /\ 1..Len(f) = 1..n
    BY <1>1, LenProperties
  <1>3. QED
    BY <1>1, <1>2

LEMMA RowsAre ==
    ASSUME img \in Images, NEW b \in Nat
    PROVE  /\ BlockRows(b) \in Seq(Nat) /\ Len(BlockRows(b)) = 4
           /\ PixelRows(BlockRows(b)) \in Seq(Nat) /\ Len(PixelRows(BlockRows(b))) = 4
           /\ \A y \in 1..4 : PixelRows(BlockRows(b))[5 - y] = BlockRows(b)[y]
  <1>1. img.bw \in Nat \ {0} /\ width \in Nat
    BY ImageIs
  <1>2. PICK q \in Nat : q = b \div img.bw
    BY <1>1, Quotient
  <1>3. PICK r \in Nat : r = b % img.bw
    BY <1>1, Remainder
  <1>4. ASSUME NEW y \in 1..4 PROVE (4 * q + y - 1) * width + 4 * r \in Nat
    <2>1. 4 * q + y - 1 \in Nat
      OBVIOUS
    <2>2. (4 * q + y - 1) * width \in Nat
      BY <1>1, <2>1
    <2>3. QED
      BY <2>2
  <1>5. PICK f : f = BlockRows(b)
    OBVIOUS
  <1>6. f = [y \in 1..4 |-> (4 * q + y - 1) * width + 4 * r]
    BY <1>2, <1>3, <1>5 DEF BlockRows
  <1>7. f \in [1..4 -> Nat]
    BY <1>4, <1>6
  <1>8. f \in Seq(Nat) /\ Len(f) = 4
    BY <1>7, FunctionIsSequence
  <1>9. PICK g : g = PixelRows(f)
    OBVIOUS
  <1>10. g = [i \in 1..4 |-> f[(4 - i) + 1]]
    BY <1>8, <1>9 DEF PixelRows, Reverse
  <1>11. \A i \in 1..4 : (4 - i) + 1 \in 1..4
    OBVIOUS
  <1>12. g \in [1..4 -> Nat]
    BY <1>7, <1>10, <1>11
  <1>13. g \in Seq(Nat) /\ Len(g) = 4
    BY <1>12, FunctionIsSequence
  <1>14. ASSUME NEW y \in 1..4 PROVE g[5 - y] = f[y]
    <2>1. 5 - y \in 1..4 /\ (4 - (5 - y)) + 1 = y
      OBVIOUS
    <2>2. QED
      BY <1>10, <2>1
  <1>15. QED
    BY <1>5, <1>8, <1>9, <1>13, <1>14

LEMMA PixBlocksAre ==
    ASSUME MainInv, NEW b \in Blocks, err[b] > 0
    PROVE  PixOf(b) \in PixBlockSet /\ PixOf(b).address = ColourWord(b) /\ PixOf(b).error = err[b]
           /\ PixOf(b).bgrData = PixelRows(BlockRows(b))
  <1>1. img \in Images /\ err[b] \in 0..MaxError /\ MaxError \in Nat
    BY HybridAssumption DEF MainInv
  <1>2. ColourWord(b) \in Words(img) /\ b \in Nat
    BY <1>1, WordsAre
  <1>3. PixelRows(BlockRows(b)) \in Seq(Nat)
    BY <1>1, <1>2, RowsAre
  <1>4. err[b] \in 1..MaxError
    BY <1>1
  <1>5. PICK rows : rows = PixelRows(BlockRows(b))
    OBVIOUS
  <1>6. PixOf(b) = [address |-> ColourWord(b), error |-> err[b], bgrData |-> rows]
    BY <1>5 DEF PixOf, PixBlock
  <1>7. QED
    BY <1>2, <1>3, <1>4, <1>5, <1>6 DEF PixBlockSet

\* The next block of a task that still has blocks.
LEMMA TaskAt ==
    ASSUME PipelineInv, NEW j \in 1..Len(task), task[j].blocks > 0
    PROVE  /\ mpc \in {"queue", "sync"} /\ j \in 1..parts /\ Len(task) \in Nat
           /\ Cur(j) \in Blocks /\ Edge(j - 1) <= Cur(j) /\ Cur(j) < Edge(j)
           /\ task[j] \in TaskSet
           /\ \A i \in 1..Len(task) : Cur(i) \in Nat /\ Edge(i - 1) <= Cur(i) /\ Cur(i) <= Edge(i)
  <1>1. MainInv /\ \A i \in 1..Len(task) : TaskInv(i)
    BY DEF PipelineInv
  <1>2. img \in Images /\ task \in Seq(TaskSet) /\ Len(task) \in Nat /\ Len(task) <= parts
    BY <1>1 DEF MainInv
  <1>3. parts \in Nat /\ \A i \in Nat : Edge(i) \in Nat /\ Edge(i) <= numBlocks
    BY <1>2, PartsAre, EdgesAre
  <1>4. \A i \in 1..Len(task) : task[i] \in TaskSet
    BY <1>2, ElementOfSeq
  <1>5. numBlocks \in Nat
    BY <1>2, ImageIs
  <1>6. ASSUME NEW i \in 1..Len(task)
        PROVE  Cur(i) \in Nat /\ Edge(i - 1) <= Cur(i) /\ Cur(i) <= Edge(i)
    <2>1. i \in Nat /\ i - 1 \in Nat
      BY <1>2
    <2>2. Edge(i) \in Nat /\ Edge(i - 1) \in Nat /\ task[i].blocks \in Nat
      BY <1>3, <1>4, <2>1 DEF TaskSet
    <2>3. task[i].blocks <= Edge(i) - Edge(i - 1)
      BY <1>1 DEF TaskInv
    <2>4. QED
      BY <2>2, <2>3 DEF Cur
  <1>7. Cur(j) < Edge(j) /\ Cur(j) \in Blocks
    <2>1. j \in Nat /\ task[j].blocks \in Nat
      BY <1>2, <1>4 DEF TaskSet
    <2>2. Edge(j) \in Nat /\ Edge(j) <= numBlocks
      BY <1>3, <2>1
    <2>3. Cur(j) < Edge(j)
      BY <2>1, <2>2 DEF Cur
    <2>4. Cur(j) \in Nat
      BY <1>6
    <2>5. QED
      BY <1>5, <2>2, <2>3, <2>4 DEF Blocks
  <1>8. mpc \in {"queue", "sync"}
    <2>1. task[j].blocks # 0 /\ TaskInv(j)
      BY <1>1
    <2>2. QED
      BY <2>1 DEF TaskInv
  <1>9. j \in 1..parts
    BY <1>2, <1>3
  <1>10. QED
    BY <1>2, <1>4, <1>6, <1>7, <1>8, <1>9

\* What one turn of the loop of CompressEtc2Rgb(a) does, block by block.
LEMMA BlockEncoded ==
    ASSUME PipelineInv, NEW j \in 1..Len(task), EncodeBlock(j), NEW c, c = Cur(j)
    PROVE  /\ c \in Blocks /\ mpc \in {"queue", "sync"}
           /\ DOMAIN out' = Words(img) /\ \A i \in Words(img) : out'[i] \in WordSet
           /\ out'[ColourWord(c)] = [by |-> "cpu", rows |-> BlockRows(c)]
           /\ img.rgba => out'[2 * c] = [by |-> "alpha", rows |-> BlockRows(c)]
           /\ \A b \in Blocks : b # c => /\ out'[ColourWord(b)] = out[ColourWord(b)]
                                         /\ img.rgba => out'[2 * b] = out[2 * b]
           /\ \A i \in Words(img) : out'[i] # out[i] => i = ColourWord(c) \/ (img.rgba /\ i = 2 * c)
           /\ pixelMat' = IF err[c] > 0 THEN [pixelMat EXCEPT ![j] = Append(@, PixOf(c))] ELSE pixelMat
           /\ task' = [task EXCEPT ![j] = [src |-> SrcOf(c + 1), dst |-> wordsPerBlock * (c + 1),
                                           w |-> (c + 1) % img.bw, blocks |-> task[j].blocks - 1]]
  <1>1. MainInv /\ OutInv /\ TaskInv(j)
    BY DEF PipelineInv
  <1>2. img \in Images /\ task[j].blocks > 0
    BY <1>1 DEF MainInv, EncodeBlock
  <1>3. c \in Blocks /\ mpc \in {"queue", "sync"} /\ c \in Nat
    BY <1>2, TaskAt, WordsAre
  <1>4. task[j].src = SrcOf(c) /\ task[j].dst = wordsPerBlock * c /\ task[j].w = c % img.bw
    BY <1>1 DEF TaskInv
  <1>5. /\ BlockAt(SrcOf(c)) = c /\ Rows(SrcOf(c)) = BlockRows(c)
        /\ NextSrc(SrcOf(c), c % img.bw) = SrcOf(c + 1)
        /\ ((c % img.bw) + 1) % (width \div 4) = (c + 1) % img.bw
    BY <1>2, <1>3, SourceIs
  <1>6. wordsPerBlock \in {1, 2} /\ (img.rgba <=> wordsPerBlock = 2) /\ img.rgba \in BOOLEAN
    BY <1>2, ImageIs
  <1>7. wordsPerBlock * c + wordsPerBlock - 1 = ColourWord(c)
        /\ ColourWord(c) + 1 = wordsPerBlock * (c + 1)
    <2>1. wordsPerBlock * c + wordsPerBlock - 1 = ColourWord(c)
      BY DEF ColourWord
    <2>2. CASE wordsPerBlock = 1
      BY <1>3, <2>1, <2>2
    <2>3. CASE wordsPerBlock = 2
      BY <1>3, <2>1, <2>3
    <2>4. QED
      BY <1>6, <2>1, <2>2, <2>3
  <1>8. PICK word : word = [by |-> "cpu", rows |-> BlockRows(c)]
    OBVIOUS
  <1>9. PICK alpha : alpha = [by |-> "alpha", rows |-> BlockRows(c)]
    OBVIOUS
  <1>10. word \in WordSet /\ alpha \in WordSet
    <2>1. BlockRows(c) \in Seq(Nat)
      BY <1>2, <1>3, RowsAre
    <2>2. QED
      BY <1>8, <1>9, <2>1 DEF WordSet
  <1>11. out' = IF img.rgba THEN [out EXCEPT ![wordsPerBlock * c] = alpha, ![ColourWord(c)] = word]
                ELSE [out EXCEPT ![ColourWord(c)] = word]
    BY <1>4, <1>5, <1>7, <1>8, <1>9 DEF EncodeBlock
  <1>12. DOMAIN out = Words(img) /\ \A i \in Words(img) : out[i] \in WordSet
    BY <1>1 DEF OutInv
  <1>13. /\ \A b \in Blocks : /\ ColourWord(b) \in Words(img)
                              /\ img.rgba => 2 * b \in Words(img) /\ ColourWord(b) = 2 * b + 1
                              /\ b \in Nat
         /\ \A b \in Blocks : ColourWord(b) = ColourWord(c) => b = c
    BY <1>2, <1>3, WordsAre
  <1>14. /\ DOMAIN out' = Words(img) /\ \A i \in Words(img) : out'[i] \in WordSet
         /\ out'[ColourWord(c)] = word
         /\ img.rgba => out'[2 * c] = alpha
         /\ \A b \in Blocks : b # c => /\ out'[ColourWord(b)] = out[ColourWord(b)]
                                       /\ img.rgba => out'[2 * b] = out[2 * b]
         /\ \A i \in Words(img) : out'[i] # out[i] => i = ColourWord(c) \/ (img.rgba /\ i = 2 * c)
    <2>1. CASE ~img.rgba
      BY <1>3, <1>10, <1>11, <1>12, <1>13, <2>1
    <2>2. CASE img.rgba
      <3>1. PICK x : x = 2 * c
        OBVIOUS
      <3>2. PICK y : y = ColourWord(c)
        OBVIOUS
      <3>3. out' = [out EXCEPT ![x] = alpha, ![y] = word]
        BY <1>6, <1>11, <2>2, <3>1, <3>2
      <3>4. x \in Words(img) /\ y \in Words(img) /\ x # y
        BY <1>3, <1>13, <2>2, <3>1, <3>2
      <3>5. DOMAIN out' = Words(img) /\ out'[y] = word /\ out'[x] = alpha
        BY <1>12, <3>3, <3>4
      <3>6. \A i \in Words(img) : i # x /\ i # y => out'[i] = out[i]
        BY <1>12, <3>3
      <3>7. ASSUME NEW b \in Blocks, b # c
            PROVE  out'[ColourWord(b)] = out[ColourWord(b)] /\ out'[2 * b] = out[2 * b]
        <4>1. ColourWord(b) = 2 * b + 1 /\ y = 2 * c + 1 /\ b \in Nat
              /\ ColourWord(b) \in Words(img) /\ 2 * b \in Words(img)
          BY <1>3, <1>13, <2>2, <3>2
        <4>2. ColourWord(b) # x /\ ColourWord(b) # y /\ 2 * b # x /\ 2 * b # y
          BY <1>3, <3>1, <3>7, <4>1
        <4>3. QED
          BY <3>6, <4>1, <4>2
      <3>8. QED
        BY <1>10, <1>12, <2>2, <3>1, <3>2, <3>5, <3>6, <3>7
    <2>3. QED
      BY <1>6, <2>1, <2>2
  <1>15. pixelMat' = IF err[c] > 0 THEN [pixelMat EXCEPT ![j] = Append(@, PixOf(c))] ELSE pixelMat
    <2>1. PixBlock(ColourWord(c), err[c], BlockRows(c)) = PixOf(c)
      BY DEF PixOf
    <2>2. QED
      BY <1>4, <1>5, <1>7, <2>1 DEF EncodeBlock
  <1>16. task' = [task EXCEPT ![j] = [src |-> SrcOf(c + 1), dst |-> wordsPerBlock * (c + 1),
                                      w |-> (c + 1) % img.bw, blocks |-> task[j].blocks - 1]]
    BY <1>4, <1>5, <1>7 DEF EncodeBlock
  <1>17. QED
    BY <1>3, <1>8, <1>9, <1>14, <1>15, <1>16

\* Which blocks are pending after the block c of part j is encoded.
LEMMA PendingAfter ==
    ASSUME PipelineInv, NEW j \in 1..Len(task), EncodeBlock(j), NEW c, c = Cur(j)
    PROVE  /\ task' \in Seq(TaskSet) /\ Len(task') = Len(task)
           /\ task'[j] = [src |-> SrcOf(c + 1), dst |-> wordsPerBlock * (c + 1),
                          w |-> (c + 1) % img.bw, blocks |-> task[j].blocks - 1]
           /\ \A i \in 1..Len(task) : i # j => task'[i] = task[i] /\ Cur(i)' = Cur(i)
           /\ Cur(j)' = c + 1 /\ Pending(c)
           /\ \A b \in Blocks : Pending(b)' <=> Pending(b) /\ b # c
  <1>1. MainInv
    BY DEF PipelineInv
  <1>2. img \in Images /\ task[j].blocks > 0 /\ task \in Seq(TaskSet)
    BY <1>1 DEF MainInv, EncodeBlock
  <1>3. /\ c \in Blocks /\ Edge(j - 1) <= c /\ c < Edge(j) /\ task[j] \in TaskSet /\ Len(task) \in Nat
        /\ \A i \in 1..Len(task) : Cur(i) \in Nat /\ Edge(i - 1) <= Cur(i) /\ Cur(i) <= Edge(i)
    BY <1>2, TaskAt
  <1>4. c \in Nat
    BY <1>2, <1>3, WordsAre
  <1>5. PICK t : t = [src |-> SrcOf(c + 1), dst |-> wordsPerBlock * (c + 1),
                      w |-> (c + 1) % img.bw, blocks |-> task[j].blocks - 1]
    OBVIOUS
  <1>6. task' = [task EXCEPT ![j] = t]
    BY <1>5, BlockEncoded
  <1>7. t \in TaskSet
    <2>1. PICK d \in Nat : d = c + 1
      BY <1>4
    <2>2. wordsPerBlock \in {1, 2} /\ img.bw \in Nat \ {0}
      BY <1>2, ImageIs
    <2>3. wordsPerBlock * (c + 1) \in Nat
      BY <1>4, <2>2
    <2>4. SrcOf(d) \in Nat
      BY <1>2, SourceIs
    <2>5. d % img.bw \in Nat
      <3>1. d % img.bw \in 0..(img.bw - 1)
        BY <2>2, Remainder
      <3>2. QED
        BY <2>2, <3>1
    <2>6. task[j].blocks - 1 \in Nat
      <3>1. task[j].blocks \in Nat
        BY <1>3 DEF TaskSet
      <3>2. QED
        BY <1>2, <3>1
    <2>7. QED
      BY <1>5, <2>1, <2>3, <2>4, <2>5, <2>6 DEF TaskSet
  <1>8. /\ task' \in Seq(TaskSet) /\ Len(task') = Len(task) /\ task'[j] = t
        /\ \A i \in 1..Len(task) : i # j => task'[i] = task[i]
    BY <1>2, <1>6, <1>7
  <1>9. img' = img
    BY DEF EncodeBlock
  <1>10. \A i : Edge(i)' = Edge(i)
    BY <1>9 DEF Edge
  <1>11. \A i \in Nat : Edge(i) \in Nat
    BY <1>2, EdgesAre
  <1>12. Cur(j)' = c + 1
    <2>1. Cur(j)' = Edge(j) - (task[j].blocks - 1)
      BY <1>5, <1>8, <1>10 DEF Cur
    <2>2. c = Edge(j) - task[j].blocks
      BY DEF Cur
    <2>3. Edge(j) \in Nat
      BY <1>3, <1>11
    <2>4. task[j].blocks \in Nat
      BY <1>3 DEF TaskSet
    <2>5. QED
      BY <2>1, <2>2, <2>3, <2>4
  <1>13. \A i \in 1..Len(task) : i # j => Cur(i)' = Cur(i)
    BY <1>8, <1>10 DEF Cur
  <1>14. Pending(c)
    <2>1. Cur(j) <= c
      BY <1>4
    <2>2. QED
      BY <1>3, <2>1 DEF Pending
  \* The block c is in the part j and in no other.
  <1>15. ASSUME NEW i \in 1..Len(task), i # j PROVE ~(Cur(i) <= c /\ c < Edge(i))
    <2>1. i \in Nat /\ j \in Nat /\ i - 1 \in Nat /\ j - 1 \in Nat
      BY <1>3
    <2>2. Edge(i - 1) <= Cur(i) /\ Cur(i) \in Nat
      BY <1>3
    <2>3. CASE i < j
      <3>1. Edge(i) <= Edge(j - 1)
        BY <1>2, <2>1, <2>3, EdgesAre
      <3>2. QED
        BY <1>3, <1>4, <1>11, <2>1, <3>1
    <2>4. CASE j < i
      <3>1. Edge(j) <= Edge(i - 1)
        BY <1>2, <2>1, <2>4, EdgesAre
      <3>2. QED
        BY <1>3, <1>4, <1>11, <2>1, <2>2, <3>1
    <2>5. QED
      BY <1>15, <2>1, <2>3, <2>4
  <1>16. c < Edge(Len(task))
    <2>1. Edge(j) <= Edge(Len(task))
      BY <1>2, <1>3, EdgesAre
    <2>2. QED
      BY <1>3, <1>4, <1>11, <2>1
  <1>17. ASSUME NEW b \in Blocks PROVE Pending(b)' <=> Pending(b) /\ b # c
    <2>1. b \in Nat
      BY <1>2, WordsAre
    <2>2. Pending(b)' <=> \/ b >= Edge(Len(task))
                          \/ \E i \in 1..Len(task) : Cur(i)' <= b /\ b < Edge(i)
      BY <1>8, <1>10 DEF Pending
    <2>3. \A i \in 1..Len(task) : i # j => (Cur(i)' <= b <=> Cur(i) <= b)
      BY <1>13
    <2>4. Cur(j)' <= b <=> Cur(j) <= b /\ b # c
      BY <1>4, <1>12, <2>1
    <2>5. ASSUME b = c PROVE ~Pending(b)'
      <3>1. ~(b >= Edge(Len(task)))
        BY <1>4, <1>3, <1>11, <1>16, <2>5
      <3>2. QED
        BY <1>15, <2>2, <2>3, <2>4, <2>5, <3>1
    <2>6. ASSUME b # c PROVE Pending(b)' <=> Pending(b)
      BY <2>2, <2>3, <2>4, <2>6 DEF Pending
    <2>7. QED
      BY <2>5, <2>6
  <1>18. QED
    BY <1>5, <1>8, <1>12, <1>13, <1>14, <1>17
-----------------------------------------------------------------------------
(* Arrays of PixBlocks                                                     *)

\* The array of one interval of blocks and that of the next, joined.
LEMMA HoldsBoth ==
    ASSUME MainInv, NEW s, NEW t, NEW lo \in Nat, NEW mid \in Nat, NEW hi \in Nat,
           lo <= mid, mid <= hi, hi <= numBlocks, Holds(s, lo, mid), Holds(t, mid, hi)
    PROVE  Holds(s \o t, lo, hi)
  <1>1. img \in Images
    BY DEF MainInv
  <1>2. s \in Seq(PixBlockSet) /\ t \in Seq(PixBlockSet)
    BY DEF Holds
  <1>3. PICK m \in Nat : m = Len(s)
    BY <1>2
  <1>4. PICK n \in Nat : n = Len(t)
    BY <1>2
  <1>5. PICK u : u = s \o t
    OBVIOUS
  <1>6. /\ u \in Seq(PixBlockSet) /\ Len(u) = m + n
        /\ \A i \in 1..m : u[i] = s[i]
        /\ \A i \in 1..n : u[m + i] = t[i]
    BY <1>2, <1>3, <1>4, <1>5
  <1>7. \A i \in 1..(m + n) : i \in 1..m \/ (i - m \in 1..n /\ m + (i - m) = i)
    OBVIOUS
  <1>8. lo..(mid - 1) \subseteq lo..(hi - 1) /\ mid..(hi - 1) \subseteq lo..(hi - 1)
    OBVIOUS
  <1>9. numBlocks \in Nat
    BY <1>1, ImageIs
  <1>10. lo..(mid - 1) \subseteq Blocks /\ mid..(hi - 1) \subseteq Blocks
    BY <1>9 DEF Blocks
  <1>11. \A i \in 1..m : \E b \in lo..(mid - 1) : err[b] > 0 /\ u[i] = PixOf(b)
    BY <1>3, <1>6 DEF Holds
  <1>12. \A i \in 1..n : \E b \in mid..(hi - 1) : err[b] > 0 /\ u[m + i] = PixOf(b)
    <2>1. \A i \in 1..n : \E b \in mid..(hi - 1) : err[b] > 0 /\ t[i] = PixOf(b)
      BY <1>4 DEF Holds
    <2>2. QED
      BY <1>6, <2>1
  <1>13. \A b \in Blocks : err[b] > 0 => PixOf(b).address = ColourWord(b)
    BY PixBlocksAre
  <1>14. \A b, c \in Blocks : ColourWord(b) = ColourWord(c) => b = c
    BY <1>1, WordsAre
  <1>15. \A i \in 1..m, k \in 1..n : u[i].address # u[m + k].address
    <2> SUFFICES ASSUME NEW i \in 1..m, NEW k \in 1..n, u[i].address = u[m + k].address PROVE FALSE
      OBVIOUS
    <2>1. PICK b \in lo..(mid - 1) : err[b] > 0 /\ u[i] = PixOf(b)
      BY <1>11
    <2>2. PICK c \in mid..(hi - 1) : err[c] > 0 /\ u[m + k] = PixOf(c)
      BY <1>12
    <2>3. b \in Blocks /\ c \in Blocks
      BY <1>10
    <2>4. ColourWord(b) = ColourWord(c)
      BY <1>13, <2>1, <2>2, <2>3
    <2>5. b = c
      BY <1>14, <2>3, <2>4
    <2>6. QED
      BY <2>5
  <1>16. \A i \in 1..(m + n) : \E b \in lo..(hi - 1) : err[b] > 0 /\ u[i] = PixOf(b)
    <2> SUFFICES ASSUME NEW i \in 1..(m + n)
                 PROVE  \E b \in lo..(hi - 1) : err[b] > 0 /\ u[i] = PixOf(b)
      OBVIOUS
    <2>1. CASE i \in 1..m
      BY <1>8, <1>11, <2>1
    <2>2. CASE i - m \in 1..n /\ m + (i - m) = i
      <3>1. PICK b \in mid..(hi - 1) : err[b] > 0 /\ u[m + (i - m)] = PixOf(b)
        BY <1>12, <2>2
      <3>2. QED
        BY <1>8, <2>2, <3>1
    <2>3. QED
      BY <1>7, <2>1, <2>2
  <1>17. \A i, k \in 1..(m + n) : u[i].address = u[k].address => i = k
    <2> SUFFICES ASSUME NEW i \in 1..(m + n), NEW k \in 1..(m + n), u[i].address = u[k].address
                 PROVE  i = k
      OBVIOUS
    <2>1. CASE i \in 1..m /\ k \in 1..m
      BY <1>3, <1>6, <2>1 DEF Holds
    <2>2. CASE i - m \in 1..n /\ m + (i - m) = i /\ k - m \in 1..n /\ m + (k - m) = k
      <3>1. u[i] = t[i - m] /\ u[k] = t[k - m]
        BY <1>6, <2>2
      <3>2. i - m = k - m
        BY <1>4, <2>2, <3>1 DEF Holds
      <3>3. QED
        BY <2>2, <3>2
    <2>3. CASE i \in 1..m /\ k - m \in 1..n /\ m + (k - m) = k
      BY <1>15, <2>3
    <2>4. CASE k \in 1..m /\ i - m \in 1..n /\ m + (i - m) = i
      BY <1>15, <2>4
    <2>5. QED
      BY <1>7, <2>1, <2>2, <2>3, <2>4
  <1>18. ASSUME NEW b \in lo..(hi - 1), err[b] > 0 PROVE \E i \in 1..(m + n) : u[i] = PixOf(b)
    <2>1. CASE b \in lo..(mid - 1)
      <3>1. PICK i \in 1..m : s[i] = PixOf(b)
        BY <1>3, <1>18, <2>1 DEF Holds
      <3>2. QED
        BY <1>6, <3>1
    <2>2. CASE b \in mid..(hi - 1)
      <3>1. PICK i \in 1..n : t[i] = PixOf(b)
        BY <1>4, <1>18, <2>2 DEF Holds
      <3>2. m + i \in 1..(m + n)
        OBVIOUS
      <3>3. QED
        BY <1>6, <3>1, <3>2
    <2>3. QED
      BY <2>1, <2>2
  <1>19. QED
    BY <1>5, <1>6, <1>16, <1>17, <1>18 DEF Holds

LEMMA HoldsNone ==
    ASSUME NEW a \in Nat
    PROVE  Holds(<<>>, a, a)
  BY DEF Holds

\* The array after the block c, with the block if its error is high.
LEMMA HoldsMore ==
    ASSUME MainInv, NEW s, NEW lo \in Nat, NEW c \in Blocks, lo <= c, Holds(s, lo, c)
    PROVE  /\ err[c] > 0 => Holds(Append(s, PixOf(c)), lo, c + 1)
           /\ ~(err[c] > 0) => Holds(s, lo, c + 1)
  <1>1. img \in Images
    BY DEF MainInv
  <1>2. numBlocks \in Nat
    BY <1>1, ImageIs
  <1>3. c \in Nat /\ c + 1 \in Nat /\ c <= c + 1 /\ c + 1 <= numBlocks /\ c..((c + 1) - 1) = {c}
    BY <1>2 DEF Blocks
  <1>4. s \in Seq(PixBlockSet)
    BY DEF Holds
  <1>5. ASSUME err[c] > 0 PROVE Holds(Append(s, PixOf(c)), lo, c + 1)
    <2>1. PICK x \in PixBlockSet : x = PixOf(c)
      BY <1>5, PixBlocksAre
    <2>2. Holds(<<x>>, c, c + 1)
      BY <1>3, <1>5, <2>1 DEF Holds
    <2>3. Holds(s \o <<x>>, lo, c + 1)
      BY <1>3, <2>2, HoldsBoth
    <2>4. s \o <<x>> = Append(s, x)
      BY <1>4, <2>1
    <2>5. QED
      BY <2>1, <2>3, <2>4
  <1>6. ASSUME ~(err[c] > 0) PROVE Holds(s, lo, c + 1)
    <2>1. Holds(<<>>, c, c + 1)
      BY <1>3, <1>6 DEF Holds
    <2>2. Holds(s \o <<>>, lo, c + 1)
      BY <1>3, <2>1, HoldsBoth
    <2>3. s \o <<>> = s
      BY <1>4
    <2>4. QED
      BY <2>2, <2>3
  <1>7. QED
    BY <1>5, <1>6
-----------------------------------------------------------------------------
(* A block is encoded: the invariant                                       *)

LEMMA EncodeBlockKeeps ==
    ASSUME PipelineInv, NEW j \in 1..Len(task), EncodeBlock(j)
    PROVE  PipelineInv'
  <1>1. PICK c : c = Cur(j)
    OBVIOUS
  <1>2. MainInv /\ OutInv /\ PipeInv /\ ResultInv /\ pixelMat \in Mats
        /\ \A i \in 1..parts : PixInv(i)
    BY DEF PipelineInv
  <1>3. img \in Images /\ task[j].blocks > 0
    BY <1>2 DEF MainInv, EncodeBlock
  <1>4. /\ c \in Blocks /\ Edge(j - 1) <= c /\ c < Edge(j) /\ task[j] \in TaskSet /\ Len(task) \in Nat
        /\ mpc \in {"queue", "sync"} /\ j \in 1..parts
        /\ \A i \in 1..Len(task) : Cur(i) \in Nat /\ Edge(i - 1) <= Cur(i) /\ Cur(i) <= Edge(i)
    BY <1>1, <1>3, TaskAt
  <1>5. c \in Nat
    BY <1>3, <1>4, WordsAre
  <1>6. UNCHANGED <<img, err, quality, ptr, offset, linesLeft, pipe, buf, result, saved, mpc>>
    BY DEF EncodeBlock
  <1>7. parts' = parts /\ wordsPerBlock' = wordsPerBlock /\ Blocks' = Blocks /\ Words(img)' = Words(img)
        /\ numBlocks' = numBlocks /\ \A i : Edge(i)' = Edge(i)
    BY <1>6 DEF parts, PartsOf, wordsPerBlock, Blocks, numBlocks, Words, Edge
  <1>8. \A b : ColourWord(b)' = ColourWord(b) /\ BlockRows(b)' = BlockRows(b) /\ PixOf(b)' = PixOf(b)
               /\ SrcOf(b)' = SrcOf(b)
    BY <1>6, <1>7 DEF PixOf, ColourWord, BlockRows, width, SrcOf
  <1>9. /\ task' \in Seq(TaskSet) /\ Len(task') = Len(task)
        /\ task'[j] = [src |-> SrcOf(c + 1), dst |-> wordsPerBlock * (c + 1),
                       w |-> (c + 1) % img.bw, blocks |-> task[j].blocks - 1]
        /\ \A i \in 1..Len(task) : i # j => task'[i] = task[i] /\ Cur(i)' = Cur(i)
        /\ Cur(j)' = c + 1 /\ Pending(c)
        /\ \A b \in Blocks : Pending(b)' <=> Pending(b) /\ b # c
    BY <1>1, PendingAfter
  <1>10. MainInv'
    BY <1>2, <1>6, <1>7, <1>9 DEF MainInv
  <1>11. ASSUME NEW i \in 1..Len(task) PROVE TaskInv(i)'
    <2>1. TaskInv(i)
      BY DEF PipelineInv
    <2>2. CASE i = j
      <3>1. task[j].blocks \in Nat
        BY <1>4 DEF TaskSet
      <3>2. task'[j].blocks <= Edge(j) - Edge(j - 1)
        <4>1. j \in Nat /\ j - 1 \in Nat
          BY <1>4
        <4>2. Edge(j) \in Nat /\ Edge(j - 1) \in Nat
          BY <1>3, <4>1, EdgesAre
        <4>3. task[j].blocks <= Edge(j) - Edge(j - 1)
          BY <2>1, <2>2 DEF TaskInv
        <4>4. task'[j].blocks = task[j].blocks - 1
          BY <1>9
        <4>5. QED
          BY <3>1, <4>2, <4>3, <4>4
      <3>3. task'[j].src = SrcOf(c + 1) /\ task'[j].dst = wordsPerBlock * (c + 1)
            /\ task'[j].w = (c + 1) % img.bw
        BY <1>9
      <3>4. SrcOf(Cur(j))' = SrcOf(c + 1)
        BY <1>6, <1>9 DEF SrcOf
      <3>5. QED
        BY <1>4, <1>6, <1>7, <1>9, <2>2, <3>2, <3>3, <3>4 DEF TaskInv
    <2>3. CASE i # j
      <3>1. task'[i] = task[i] /\ Cur(i)' = Cur(i)
        BY <1>9, <2>3
      <3>2. SrcOf(Cur(i))' = SrcOf(Cur(i))
        BY <1>6, <3>1 DEF SrcOf
      <3>3. QED
        BY <1>6, <1>7, <2>1, <3>1, <3>2 DEF TaskInv
    <2>4. QED
      BY <2>2, <2>3
  <1>12. /\ DOMAIN out' = Words(img) /\ \A i \in Words(img) : out'[i] \in WordSet
         /\ out'[ColourWord(c)] = [by |-> "cpu", rows |-> BlockRows(c)]
         /\ img.rgba => out'[2 * c] = [by |-> "alpha", rows |-> BlockRows(c)]
         /\ \A b \in Blocks : b # c => /\ out'[ColourWord(b)] = out[ColourWord(b)]
                                       /\ img.rgba => out'[2 * b] = out[2 * b]
    BY <1>1, BlockEncoded
  <1>13. [by |-> "cpu", rows |-> BlockRows(c)] # unwritten
         /\ [by |-> "alpha", rows |-> BlockRows(c)] # unwritten
    BY DEF unwritten
  <1>14. unwritten' = unwritten
    BY DEF unwritten
  <1>15. OutInv'
    <2>1. WordsBelong'
      <3> SUFFICES ASSUME NEW b \in Blocks
                   PROVE  /\ out'[ColourWord(b)] # unwritten =>
                                /\ out'[ColourWord(b)].rows = BlockRows(b)
                                /\ out'[ColourWord(b)].by \in {"cpu", "gpu"}
                          /\ img.rgba /\ out'[2 * b] # unwritten =>
                                out'[2 * b] = [by |-> "alpha", rows |-> BlockRows(b)]
        BY <1>6, <1>7, <1>8, <1>14 DEF WordsBelong, Blocks
      <3>1. CASE b = c
        BY <1>12, <3>1
      <3>2. CASE b # c
        BY <1>2, <1>12, <3>2 DEF OutInv, WordsBelong, Blocks
      <3>3. QED
        BY <3>1, <3>2
    <2>2. ASSUME NEW b \in Blocks
          PROVE  /\ Pending(b)' => /\ out'[ColourWord(b)] = unwritten
                                   /\ img.rgba => out'[2 * b] = unwritten
                 /\ ~Pending(b)' => /\ out'[ColourWord(b)] # unwritten
                                    /\ img.rgba => out'[2 * b] # unwritten
                 /\ out'[ColourWord(b)].by # "gpu"
      <3>1. CASE b = c
        BY <1>9, <1>12, <1>13, <3>1
      <3>2. CASE b # c
        BY <1>2, <1>4, <1>9, <1>12, <3>2 DEF OutInv
      <3>3. QED
        BY <3>1, <3>2
    <2>3. QED
      BY <1>6, <1>7, <1>8, <1>12, <1>14, <2>1, <2>2 DEF OutInv
  <1>16. /\ pixelMat' \in Mats
         /\ \A i \in 1..parts : i # j => pixelMat'[i] = pixelMat[i]
         /\ err[c] > 0 => pixelMat'[j] = Append(pixelMat[j], PixOf(c))
         /\ ~(err[c] > 0) => pixelMat'[j] = pixelMat[j]
    <2>1. PICK x : x = Append(pixelMat[j], PixOf(c))
      OBVIOUS
    <2>2. pixelMat' = IF err[c] > 0 THEN [pixelMat EXCEPT ![j] = Append(@, PixOf(c))] ELSE pixelMat
      BY <1>1, BlockEncoded
    <2>3. pixelMat' = IF err[c] > 0 THEN [pixelMat EXCEPT ![j] = x] ELSE pixelMat
      BY <2>1, <2>2
    <2>4. err[c] > 0 => x \in Seq(PixBlockSet)
      <3>1. ASSUME err[c] > 0 PROVE PixOf(c) \in PixBlockSet
        BY <1>2, <1>4, <3>1, PixBlocksAre
      <3>2. pixelMat[j] \in Seq(PixBlockSet)
        BY <1>2, <1>4 DEF Mats
      <3>3. QED
        BY <2>1, <3>1, <3>2
    <2>5. QED
      BY <1>2, <1>4, <2>1, <2>3, <2>4 DEF Mats
  <1>17. PixBlockSet' = PixBlockSet /\ err' = err
    BY <1>6, <1>7 DEF PixBlockSet
  <1>18. ASSUME NEW i \in 1..parts PROVE PixInv(i)'
    <2>1. PixInv(i)
      BY <1>2
    <2>2. CASE i = j
      <3>1. Holds(pixelMat[j], Edge(j - 1), c)
        BY <1>1, <1>4, <2>1, <2>2 DEF PixInv
      <3>2. Edge(j - 1) \in Nat
        <4>1. j - 1 \in Nat
          BY <1>4
        <4>2. QED
          BY <1>3, <4>1, EdgesAre
      <3>3. Holds(pixelMat'[j], Edge(j - 1), c + 1)
        BY <1>2, <1>4, <1>16, <3>1, <3>2, HoldsMore
      <3>4. Holds(pixelMat[j], Edge(j - 1), Cur(j))'
        BY <1>6, <1>7, <1>8, <1>9, <3>3, ZenonT(60) DEF Holds, PixBlockSet
      <3>5. ~(j > Len(task'))
        BY <1>4, <1>9
      <3>6. QED
        BY <2>2, <3>4, <3>5 DEF PixInv
    <2>3. CASE i # j
      <3>1. pixelMat'[i] = pixelMat[i]
        BY <1>16, <2>3
      <3>2. i > Len(task) => PixInv(i)'
        BY <1>4, <1>9, <2>1, <3>1 DEF PixInv
      <3>3. ASSUME i <= Len(task) PROVE Holds(pixelMat[i], Edge(i - 1), Cur(i))'
        <4>1. i \in 1..Len(task)
          BY <1>4, <3>3
        <4>2. Cur(i)' = Cur(i) /\ Edge(i - 1)' = Edge(i - 1)
          BY <1>7, <1>9, <2>3, <4>1
        <4>3. Holds(pixelMat[i], Edge(i - 1), Cur(i))
          BY <2>1, <3>3 DEF PixInv
        <4>4. Holds(pixelMat'[i], Edge(i - 1)', Cur(i)')
          BY <3>1, <4>2, <4>3
        <4>5. QED
          BY <1>8, <1>17, <4>4 DEF Holds
      <3>4. QED
        BY <1>9, <3>1, <3>2, <3>3, <2>1 DEF PixInv
    <2>4. QED
      BY <2>2, <2>3
  <1>19. PipeInv'
    BY <1>2, <1>4, <1>6 DEF PipeInv
  <1>20. ResultInv'
    <2>1. result = <<>> /\ saved = 0 /\ buf = <<>> /\ Len(buf) = 0
      BY <1>2, <1>4 DEF ResultInv, PipeInv
    <2>2. \A b \in Blocks : out'[ColourWord(b)].by # "gpu"
      BY <1>4, <1>6, <1>7, <1>8, <1>15 DEF OutInv
    <2>3. QED
      BY <1>4, <1>6, <1>7, <1>8, <2>1, <2>2 DEF ResultInv
  <1>21. QED
    BY <1>7, <1>9, <1>10, <1>11, <1>15, <1>16, <1>17, <1>18, <1>19, <1>20 DEF PipelineInv, Mats
-----------------------------------------------------------------------------
(* The arrays of the parts are joined                                      *)

\* What the table of joined arrays contains.
JoinsOf(f, seqs, n) == f = [i \in 1..n |-> IF i = 1 THEN seqs[i] ELSE f[i - 1] \o seqs[i]]

LEMMA JoinsExist ==
    ASSUME NEW n \in Nat, NEW seqs
    PROVE  \E f : JoinsOf(f, seqs, n)
  <1> DEFINE X == {k \in 0..n : \E f : JoinsOf(f, seqs, k)}
  <1>1. 0 \in X
    <2> DEFINE f == [i \in 1..0 |-> seqs[i]]
    <2>1. JoinsOf(f, seqs, 0)
      BY DEF JoinsOf
    <2>2. QED
      BY <2>1
  <1>2. ASSUME NEW k \in 0..(n - 1), k \in X PROVE k + 1 \in X
    <2>1. PICK f : JoinsOf(f, seqs, k)
      BY <1>2
    <2> DEFINE next == [i \in 1..(k + 1) |->
                          IF i = k + 1 THEN (IF i = 1 THEN seqs[i] ELSE f[k] \o seqs[i]) ELSE f[i]]
    <2>2. ASSUME NEW i \in 1..(k + 1)
          PROVE  next[i] = IF i = 1 THEN seqs[i] ELSE next[i - 1] \o seqs[i]
      <3>1. CASE i = k + 1
        <4>1. CASE i = 1
          BY <3>1, <4>1
        <4>2. CASE i # 1
          <5>1. i - 1 = k /\ k \in 1..(k + 1) /\ k # k + 1
            BY <3>1, <4>2
          <5>2. next[i - 1] = f[k]
            BY <5>1
          <5>3. QED
            BY <3>1, <4>2, <5>2
        <4>3. QED
          BY <4>1, <4>2
      <3>2. CASE i # k + 1
        <4>1. i \in 1..k /\ next[i] = f[i]
          BY <3>2
        <4>2. i # 1 => i - 1 \in 1..(k + 1) /\ i - 1 # k + 1
          BY <4>1
        <4>3. i # 1 => next[i - 1] = f[i - 1]
          BY <4>2
        <4>4. f[i] = IF i = 1 THEN seqs[i] ELSE f[i - 1] \o seqs[i]
          BY <2>1, <4>1 DEF JoinsOf
        <4> HIDE DEF next
        <4>5. QED
          BY <4>1, <4>3, <4>4
      <3>3. QED
        BY <3>1, <3>2
    <2>3. JoinsOf(next, seqs, k + 1)
      <3>1. next = [i \in 1..(k + 1) |-> next[i]]
        OBVIOUS
      <3>2. [i \in 1..(k + 1) |-> next[i]] =
               [i \in 1..(k + 1) |-> IF i = 1 THEN seqs[i] ELSE next[i - 1] \o seqs[i]]
        <4> HIDE DEF next
        <4> QED
          BY <2>2, Zenon
      <3> HIDE DEF next
      <3>3. QED
        BY <3>1, <3>2, Zenon DEF JoinsOf
    <2>4. k + 1 \in 0..n
      OBVIOUS
    <2> HIDE DEF next
    <2>5. QED
      BY <2>3, <2>4, Zenon
  <1>3. \A k \in 0..n : k \in X
    <2> HIDE DEF X
    <2> QED
      BY <1>1, <1>2, InductionUpTo
  <1>4. n \in 0..n
    OBVIOUS
  <1>5. QED
    BY <1>3, <1>4

\* The memcpy loop joins the arrays one after the other.
LEMMA FlattenIs ==
    ASSUME NEW seqs, Len(seqs) \in Nat \ {0}
    PROVE  \E f : /\ FlattenSeq(seqs) = f[Len(seqs)] /\ f[1] = seqs[1]
                  /\ \A i \in 1..Len(seqs) : i # 1 => f[i] = f[i - 1] \o seqs[i]
  <1>1. PICK n \in Nat \ {0} : n = Len(seqs)
    OBVIOUS
  <1> DEFINE f == CHOOSE g : JoinsOf(g, seqs, n)
  <1>2. FlattenSeq(seqs) = f[n]
    BY <1>1 DEF FlattenSeq, JoinsOf
  <1>3. JoinsOf(f, seqs, n)
    BY JoinsExist
  <1> HIDE DEF f
  <1>4. \A i \in 1..n : f[i] = IF i = 1 THEN seqs[i] ELSE f[i - 1] \o seqs[i]
    BY <1>3 DEF JoinsOf
  <1>5. 1 \in 1..n
    OBVIOUS
  <1>6. f[1] = seqs[1] /\ \A i \in 1..n : i # 1 => f[i] = f[i - 1] \o seqs[i]
    BY <1>4, <1>5
  <1>7. QED
    BY <1>1, <1>2, <1>6

LEMMA JoinHoldsAll ==
    ASSUME PipelineInv, Len(task) = parts, AllEncoded
    PROVE  Holds(FlattenSeq(pixelMat), 0, numBlocks)
  <1>1. MainInv /\ pixelMat \in Mats /\ \A j \in 1..parts : PixInv(j)
    BY DEF PipelineInv
  <1>2. img \in Images /\ task \in Seq(TaskSet)
    BY <1>1 DEF MainInv
  <1>3. PICK n \in Nat \ {0} : n = parts
    BY <1>2, PartsAre
  <1>4. Len(pixelMat) = n
    BY <1>1, <1>3, FunctionIsSequence DEF Mats
  <1>5. /\ Edge(0) = 0 /\ Edge(n) = numBlocks
        /\ \A j \in Nat : Edge(j) \in Nat /\ Edge(j) <= numBlocks
        /\ \A i, j \in Nat : i <= j => Edge(i) <= Edge(j)
    BY <1>2, <1>3, EdgesAre
  <1>6. ASSUME NEW j \in 1..n PROVE Holds(pixelMat[j], Edge(j - 1), Edge(j))
    <2>1. j <= Len(task) /\ PixInv(j) /\ task[j].blocks = 0
      BY <1>1, <1>3 DEF AllEncoded
    <2>2. Edge(j) \in Nat
      BY <1>5
    <2>3. Cur(j) = Edge(j)
      BY <2>1, <2>2 DEF Cur
    <2>4. QED
      BY <2>1, <2>3 DEF PixInv
  <1>7. PICK f : /\ FlattenSeq(pixelMat) = f[n] /\ f[1] = pixelMat[1]
                 /\ \A i \in 1..n : i # 1 => f[i] = f[i - 1] \o pixelMat[i]
    BY <1>4, FlattenIs
  <1> DEFINE X == {k \in 0..n : k = 0 \/ Holds(f[k], 0, Edge(k))}
  <1>8. 0 \in X
    OBVIOUS
  <1>9. ASSUME NEW k \in 0..(n - 1), k \in X PROVE k + 1 \in X
    <2>1. k + 1 \in 1..n /\ k + 1 \in 0..n /\ k \in Nat /\ k + 1 \in Nat /\ k <= k + 1 /\ (k + 1) - 1 = k
      OBVIOUS
    <2>2. CASE k = 0
      <3>1. 1 \in 1..n /\ 1 - 1 = 0 /\ k + 1 = 1
        BY <2>2
      <3>2. Holds(f[1], 0, Edge(1))
        BY <1>5, <1>6, <1>7, <3>1
      <3>3. QED
        BY <2>1, <3>1, <3>2
    <2>3. CASE k # 0
      <3>1. f[k + 1] = f[k] \o pixelMat[k + 1]
        <4>1. PICK m \in 1..n : m = k + 1
          BY <2>1
        <4>2. m # 1 /\ m - 1 = k
          BY <2>3, <4>1
        <4>3. f[m] = f[m - 1] \o pixelMat[m]
          BY <1>7, <4>2
        <4>4. QED
          BY <4>1, <4>2, <4>3
      <3>2. Holds(f[k], 0, Edge(k))
        BY <1>9, <2>3
      <3>3. Holds(pixelMat[k + 1], Edge(k), Edge(k + 1))
        BY <1>6, <2>1
      <3>4. 0 \in Nat /\ Edge(k) \in Nat /\ Edge(k + 1) \in Nat /\ 0 <= Edge(k) /\ Edge(k) <= Edge(k + 1)
            /\ Edge(k + 1) <= numBlocks
        BY <1>5, <2>1
      <3>5. Holds(f[k] \o pixelMat[k + 1], 0, Edge(k + 1))
        BY <1>1, <3>2, <3>3, <3>4, HoldsBoth
      <3>6. QED
        BY <2>1, <3>1, <3>5
    <2>4. QED
      BY <2>2, <2>3
  <1>10. \A k \in 0..n : k \in X
    <2> HIDE DEF X
    <2> QED
      BY <1>8, <1>9, InductionUpTo
  <1>11. n \in 0..n /\ n # 0
    OBVIOUS
  <1>12. QED
    BY <1>5, <1>7, <1>10, <1>11

LEMMA SyncAndJoinKeeps ==
    ASSUME PipelineInv, SyncAndJoin
    PROVE  PipelineInv'
  <1>1. /\ mpc = "sync" /\ mpc' = "select" /\ AllEncoded /\ pipe' = FlattenSeq(pixelMat)
        /\ UNCHANGED <<img, err, quality, ptr, offset, linesLeft, task, pixelMat, out>>
        /\ UNCHANGED <<buf, result, saved>>
    BY DEF SyncAndJoin
  <1>2. MainInv /\ PipeInv /\ ResultInv
    BY DEF PipelineInv
  <1>3. Len(task) = parts
    BY <1>1, <1>2 DEF MainInv
  <1>4. /\ MainInv' /\ \A j \in 1..Len(task') : TaskInv(j)'
        /\ OutInv' /\ pixelMat' \in Mats' /\ \A j \in 1..parts' : PixInv(j)'
    BY <1>1, <1>3, CpuKept
  <1>5. \A b : PixOf(b)' = PixOf(b) /\ ColourWord(b)' = ColourWord(b) /\ BlockRows(b)' = BlockRows(b)
    BY <1>1 DEF PixOf, ColourWord, BlockRows, width, wordsPerBlock
  <1>6. Blocks' = Blocks /\ PixBlockSet' = PixBlockSet /\ numBlocks' = numBlocks
    BY <1>1 DEF Blocks, numBlocks, PixBlockSet
  <1>7. PipeInv'
    <2>1. Holds(pipe', 0, numBlocks)
      BY <1>1, <1>3, JoinHoldsAll
    <2>2. Holds(pipe, 0, numBlocks)'
      BY <1>1, <1>5, <1>6, <2>1 DEF Holds
    <2>3. QED
      BY <1>1, <1>2, <2>2 DEF PipeInv
  <1>8. ResultInv'
    BY <1>1, <1>2, <1>5, <1>6 DEF ResultInv
  <1>9. QED
    BY <1>4, <1>7, <1>8 DEF PipelineInv
-----------------------------------------------------------------------------
(* The blocks for the GPU are selected                                     *)

LEMMA InjectionIsOnto ==
    ASSUME NEW n \in Nat, NEW p \in [1..n -> 1..n], IsInjective(p), NEW k \in 1..n
    PROVE  \E i \in 1..n : p[i] = k
  <1>1. IsFiniteSet(1..n)
    BY FS_Interval
  <1>2. p \in Injection(1..n, 1..n)
    BY DEF Injection, IsInjective
  <1>3. p \in Surjection(1..n, 1..n)
    BY <1>1, <1>2, FS_Injection
  <1>4. QED
    BY <1>3 DEF Surjection

\* Sorting loses no PixBlock and repeats none.
LEMMA ShuffleHolds ==
    ASSUME NEW s, NEW lo, NEW hi, Holds(s, lo, hi), NEW t \in Shuffles(s)
    PROVE  Holds(t, lo, hi) /\ Len(t) = Len(s)
  <1>1. s \in Seq(PixBlockSet)
    BY DEF Holds
  <1>2. PICK n \in Nat : n = Len(s)
    BY <1>1
  <1>3. PICK p \in [1..n -> 1..n] : IsInjective(p) /\ t = [i \in 1..n |-> s[p[i]]]
    BY <1>2 DEF Shuffles
  <1>4. \A i \in 1..n : p[i] \in 1..n /\ t[i] = s[p[i]]
    BY <1>3
  <1>5. \A i \in 1..n : s[i] \in PixBlockSet
    BY <1>1, <1>2, ElementOfSeq
  <1>6. t \in [1..n -> PixBlockSet]
    BY <1>3, <1>4, <1>5
  <1>7. t \in Seq(PixBlockSet) /\ Len(t) = n
    BY <1>6, FunctionIsSequence
  <1>8. \A i \in 1..n : \E b \in lo..(hi - 1) : err[b] > 0 /\ t[i] = PixOf(b)
    <2>1. \A i \in 1..n : \E b \in lo..(hi - 1) : err[b] > 0 /\ s[i] = PixOf(b)
      BY <1>2 DEF Holds
    <2>2. ASSUME NEW i \in 1..n PROVE \E b \in lo..(hi - 1) : err[b] > 0 /\ t[i] = PixOf(b)
      <3>1. PICK k \in 1..n : k = p[i] /\ t[i] = s[k]
        BY <1>4
      <3>2. QED
        BY <2>1, <3>1
    <2>3. QED
      BY <2>2
  <1>9. \A i, k \in 1..n : t[i].address = t[k].address => i = k
    <2> SUFFICES ASSUME NEW i \in 1..n, NEW k \in 1..n, t[i].address = t[k].address PROVE i = k
      OBVIOUS
    <2>1. \A x, y \in 1..n : s[x].address = s[y].address => x = y
      BY <1>2 DEF Holds
    <2>2. p[i] = p[k]
      BY <1>4, <2>1, SMTT(30)
    <2>3. QED
      BY <1>3, <2>2 DEF IsInjective
  <1>10. ASSUME NEW b \in lo..(hi - 1), err[b] > 0 PROVE \E i \in 1..n : t[i] = PixOf(b)
    <2>1. PICK k \in 1..n : s[k] = PixOf(b)
      BY <1>2, <1>10 DEF Holds
    <2>2. PICK i \in 1..n : p[i] = k
      BY <1>3, InjectionIsOnto
    <2>3. QED
      BY <1>4, <2>1, <2>2
  <1>11. QED
    BY <1>2, <1>7, <1>8, <1>9, <1>10 DEF Holds

LEMMA LimitIs ==
    ASSUME MainInv, NEW n \in Nat
    PROVE  /\ Limit(n) \in 0..n
           /\ quality[1] = quality[2] => Limit(n) = n
           /\ quality[1] <= quality[2]
  <1>1. quality \in Qualities
    BY DEF MainInv
  <1>2. PICK d \in Nat \ {0} : d = quality[2]
    BY <1>1, HybridAssumption
  <1>3. PICK q \in 1..d : q = quality[1]
    BY <1>1, <1>2, HybridAssumption
  <1>4. Limit(n) = (n * q) \div d
    BY <1>2, <1>3 DEF Limit
  <1>5. n * q \in Nat /\ n * q <= d * n
    BY <1>3
  <1>6. PICK l \in Nat : l = (n * q) \div d
    BY <1>5, Quotient
  <1>7. d * l <= n * q
    BY <1>5, <1>6, Quotient
  <1>8. d * l <= d * n
    <2>1. d * l \in Nat /\ d * n \in Nat
      OBVIOUS
    <2>2. QED
      BY <1>5, <1>7, <2>1
  <1>9. l <= n
    BY <1>8
  <1>10. ASSUME q = d PROVE l = n
    <2>1. n * q = d * n /\ d * n <= n * q /\ n * q < d * n + d
      BY <1>5, <1>10
    <2>2. QED
      BY <1>5, <1>6, <2>1, QuotientIs
  <1>11. QED
    BY <1>2, <1>3, <1>4, <1>6, <1>9, <1>10

LEMMA SelectKeeps ==
    ASSUME PipelineInv, Select
    PROVE  PipelineInv'
  <1>1. /\ mpc = "select" /\ mpc' = "gpu"
        /\ UNCHANGED <<img, err, quality, ptr, offset, linesLeft, task, pixelMat, out>>
        /\ UNCHANGED <<result, saved>>
        /\ buf' = SubSeq(pipe', 1, Limit(Len(pipe)))
    BY DEF Select
  <1>2. MainInv /\ PipeInv /\ ResultInv
    BY DEF PipelineInv
  <1>3. Len(task) = parts /\ AllEncoded
    BY <1>1, AfterSync
  <1>4. /\ MainInv' /\ \A j \in 1..Len(task') : TaskInv(j)'
        /\ OutInv' /\ pixelMat' \in Mats' /\ \A j \in 1..parts' : PixInv(j)'
    BY <1>1, <1>3, CpuKept
  <1>5. \A b : PixOf(b)' = PixOf(b) /\ ColourWord(b)' = ColourWord(b) /\ BlockRows(b)' = BlockRows(b)
    BY <1>1 DEF PixOf, ColourWord, BlockRows, width, wordsPerBlock
  <1>6. Blocks' = Blocks /\ PixBlockSet' = PixBlockSet /\ numBlocks' = numBlocks
    BY <1>1 DEF Blocks, numBlocks, PixBlockSet
  <1>7. Holds(pipe, 0, numBlocks)
    BY <1>1, <1>2 DEF PipeInv
  <1>8. /\ Holds(pipe', 0, numBlocks) /\ Len(pipe') = Len(pipe)
        /\ quality[1] < quality[2] => Sorted(pipe')
    <2>1. CASE quality[1] < quality[2]
      <3>1. PICK s \in Shuffles(pipe) : s = pipe' /\ Sorted(s)
        BY <2>1 DEF Select
      <3>2. Holds(s, 0, numBlocks) /\ Len(s) = Len(pipe)
        BY <1>7, ShuffleHolds
      <3>3. QED
        BY <3>1, <3>2
    <2>2. CASE ~(quality[1] < quality[2])
      <3>1. pipe' = pipe
        BY <2>2 DEF Select
      <3>2. QED
        BY <1>7, <2>2, <3>1
    <2>3. QED
      BY <2>1, <2>2
  <1>9. pipe' \in Seq(PixBlockSet) /\ Len(pipe') \in Nat
    <2>1. pipe' \in Seq(PixBlockSet)
      BY <1>8 DEF Holds
    <2>2. QED
      BY <2>1
  <1>10. PICK l \in 0..Len(pipe') : l = Limit(Len(pipe))
    BY <1>2, <1>8, <1>9, LimitIs
  <1>11. buf' \in Seq(PixBlockSet) /\ Len(buf') = l /\ \A i \in 1..l : buf'[i] = pipe'[i]
    <2>1. PICK s \in Seq(PixBlockSet) : s = pipe'
      BY <1>9
    <2>2. PICK r : r = SubSeq(s, 1, l)
      OBVIOUS
    <2>3. 1 \in 1..(Len(s) + 1) /\ l \in 0..Len(s)
      BY <1>9, <1>10, <2>1
    <2>4. CASE l = 0
      <3>1. r = <<>>
        BY <2>1, <2>2, <2>4
      <3>2. QED
        BY <1>1, <1>10, <2>1, <2>2, <2>4, <3>1
    <2>5. CASE l # 0
      <3>1. r \in Seq(PixBlockSet) /\ Len(r) = l /\ \A i \in 1..l : r[i] = s[i]
        BY <2>1, <2>2, <2>3, <2>5
      <3>2. QED
        BY <1>1, <1>10, <2>1, <2>2, <3>1
    <2>6. QED
      BY <2>4, <2>5
  <1>12. PipeInv'
    <2>1. Holds(pipe, 0, numBlocks)'
      BY <1>1, <1>5, <1>6, <1>8 DEF Holds
    <2>2. Sorted(pipe)' = Sorted(pipe')
      BY DEF Sorted, Cmp
    <2>3. Limit(Len(pipe))' = l
      BY <1>1, <1>8, <1>10 DEF Limit
    <2>4. l <= Len(pipe')
      BY <1>9, <1>10
    <2>5. QED
      BY <1>1, <1>6, <1>8, <1>11, <2>1, <2>2, <2>3, <2>4 DEF PipeInv
  <1>13. ResultInv'
    <2>1. result = <<>> /\ saved = 0
      BY <1>1, <1>2 DEF ResultInv
    <2>2. \A b \in Blocks : out[ColourWord(b)].by # "gpu"
      BY <1>1 DEF PipelineInv, OutInv
    <2>3. saved' \in 0..Len(buf')
      BY <1>1, <1>10, <1>11, <2>1
    <2>4. \A b \in Blocks : out'[ColourWord(b)].by = "gpu" <=>
             \E i \in 1..saved' : buf'[i].address = ColourWord(b)
      BY <1>1, <2>1, <2>2
    <2>5. QED
      BY <1>1, <1>5, <1>6, <2>1, <2>3, <2>4 DEF ResultInv
  <1>14. QED
    BY <1>4, <1>12, <1>13 DEF PipelineInv
-----------------------------------------------------------------------------
(* The tiles of the GPU image                                              *)

\* A set of numbers up to n has a largest one.
LEMMA LargestNumber ==
    ASSUME NEW n \in Nat, NEW X, X \subseteq 0..n, X # {}
    PROVE  \E m \in X : \A k \in X : k <= m
  <1> DEFINE Y == {n - k : k \in X}
  <1>1. Y \subseteq Nat /\ Y # {}
    <2>1. \A k \in X : n - k \in Nat
      OBVIOUS
    <2>2. PICK k \in X : TRUE
      OBVIOUS
    <2>3. n - k \in Y
      OBVIOUS
    <2>4. QED
      BY <2>1, <2>3
  <1>2. PICK l \in Y : \A k \in Y : l <= k
    <2> HIDE DEF Y
    <2> QED
      BY <1>1, LeastNumber
  <1>3. PICK m \in X : l = n - m
    BY <1>2
  <1>4. ASSUME NEW k \in X PROVE k <= m
    <2>1. n - k \in Y
      OBVIOUS
    <2>2. l <= n - k
      BY <1>2, <2>1
    <2>3. k \in Nat /\ m \in Nat
      OBVIOUS
    <2>4. QED
      BY <1>3, <2>2, <2>3
  <1>5. QED
    BY <1>4

\* The square of tiles has room for n blocks, and one more.
LEMMA SideIs ==
    ASSUME NEW n \in Nat
    PROVE  SideOf(n) \in Nat \ {0} /\ n < SideOf(n) * SideOf(n)
  <1> DEFINE X == {a \in 0..n : a * a <= n}
  <1>1. X \subseteq 0..n /\ X # {}
    <2>1. 0 \in X
      OBVIOUS
    <2>2. QED
      BY <2>1
  <1>2. \E m \in X : \A k \in X : k <= m
    <2> HIDE DEF X
    <2> QED
      BY <1>1, LargestNumber
  <1>3. \E m \in X : \A k \in X : m >= k
    BY <1>2
  <1>4. Sqrt(n) \in X /\ \A k \in X : Sqrt(n) >= k
    <2>1. Sqrt(n) = CHOOSE m \in X : \A k \in X : m >= k
      BY DEF Sqrt, Max
    <2> HIDE DEF X
    <2>2. QED
      BY <1>3, <2>1
  <1>5. PICK m \in 0..n : m = Sqrt(n)
    BY <1>4
  <1>6. m + 1 \notin X
    BY <1>4, <1>5
  <1>7. n < (m + 1) * (m + 1)
    <2>1. CASE m + 1 \in 0..n
      <3>1. (m + 1) * (m + 1) \in Nat
        OBVIOUS
      <3>2. QED
        BY <1>6, <2>1, <3>1
    <2>2. CASE m = n
      <3>1. (n + 1) * (n + 1) = n * n + 2 * n + 1 /\ n * n \in Nat
        OBVIOUS
      <3>2. QED
        BY <2>2, <3>1
    <2>3. QED
      BY <2>1, <2>2
  <1>8. QED
    BY <1>5, <1>7 DEF SideOf

\* No two blocks have the same tile.
LEMMA TileIs ==
    ASSUME NEW side \in Nat \ {0}, NEW k \in 1..(side * side)
    PROVE  /\ (k - 1) \div side \in 0..(side - 1) /\ (k - 1) % side \in 0..(side - 1)
           /\ TileAt(k, side) = [x |-> (k - 1) % side, y |-> (k - 1) \div side]
           /\ \A i \in 1..(side * side) : TileAt(i, side) = TileAt(k, side) => i = k
  <1>1. side * side \in Nat
    OBVIOUS
  <1>2. \A i \in 1..(side * side) : i - 1 \in Nat /\ i - 1 < side * side
    BY <1>1
  <1>3. PICK a \in Nat : a = k - 1 /\ a < side * side
    BY <1>2
  <1>4. PICK q \in Nat : q = a \div side
    BY Quotient
  <1>5. PICK r \in 0..(side - 1) : r = a % side
    BY Remainder
  <1>6. a = side * q + r
    BY <1>4, <1>5, Remainder
  <1>7. q < side
    <2> SUFFICES ASSUME side <= q PROVE FALSE
      OBVIOUS
    <2>1. side * side <= side * q /\ side * q \in Nat
      OBVIOUS
    <2>2. QED
      BY <1>1, <1>3, <1>6, <2>1
  <1>8. TileAt(k, side) = [x |-> (k - 1) % side, y |-> (k - 1) \div side]
    BY DEF TileAt
  <1>9. ASSUME NEW i \in 1..(side * side), TileAt(i, side) = TileAt(k, side) PROVE i = k
    <2>1. (i - 1) % side = r /\ (i - 1) \div side = q
      BY <1>3, <1>4, <1>5, <1>9 DEF TileAt
    <2>2. PICK c \in Nat : c = i - 1
      BY <1>2
    <2>3. c = side * (c \div side) + (c % side)
      BY Remainder
    <2>4. c = side * q + r
      BY <2>1, <2>2, <2>3
    <2>5. i \in Nat /\ k \in Nat
      BY <1>1
    <2>6. QED
      BY <1>3, <1>6, <2>2, <2>4, <2>5
  <1>10. QED
    BY <1>3, <1>4, <1>5, <1>7, <1>8, <1>9

\* Inverting the scanlines twice leaves each where it was.
LEMMA FlippedTwice ==
    ASSUME NEW side \in Nat \ {0}, NEW image, NEW r \in 0..(4 * side - 1)
    PROVE  CpuImage(image, side)[r] = image[r]
  <1>1. PICK f : f = FlipRows(image, side)
    OBVIOUS
  <1>2. PICK m \in 0..(4 * side - 1) : m = 4 * side - 1 - r
    OBVIOUS
  <1>3. f[m] = image[4 * side - 1 - m]
    BY <1>1, <1>2 DEF FlipRows
  <1>4. 4 * side - 1 - m = r
    BY <1>2
  <1>5. FlipRows(f, side)[r] = f[4 * side - 1 - r]
    BY DEF FlipRows
  <1>6. QED
    BY <1>1, <1>2, <1>3, <1>4, <1>5 DEF CpuImage

\* What the GPU image has in the tile of block k.
LEMMA TilesAre ==
    ASSUME NEW s, Len(s) \in Nat, NEW side \in Nat \ {0}, Len(s) <= side * side,
           NEW k \in 1..(side * side), NEW y \in 1..4
    PROVE  /\ 4 * ((k - 1) \div side) + y - 1 \in 0..(4 * side - 1)
           /\ GpuImage(s, side)[4 * ((k - 1) \div side) + y - 1][(k - 1) % side] =
                IF k \in 1..Len(s) THEN s[k].bgrData[5 - y] ELSE 0
  <1>1. PICK q \in 0..(side - 1) : q = (k - 1) \div side
    BY TileIs
  <1>2. PICK x \in 0..(side - 1) : x = (k - 1) % side
    BY TileIs
  <1>3. PICK z \in 0..3 : z = y - 1
    OBVIOUS
  <1>4. PICK r \in 0..(4 * side - 1) : r = 4 * q + z
    OBVIOUS
  <1>5. 4 * ((k - 1) \div side) + y - 1 = r
    BY <1>1, <1>3, <1>4
  <1>6. r \div 4 = q /\ r % 4 = z
    BY <1>4
  <1>7. TileAt(k, side) = [x |-> x, y |-> q]
        /\ \A i \in 1..(side * side) : TileAt(i, side) = TileAt(k, side) => i = k
    BY <1>1, <1>2, TileIs
  <1>8. (CHOOSE i \in 1..(side * side) : TileAt(i, side) = [x |-> x, y |-> r \div 4]) = k
    <2>1. PICK t : t = TileAt(k, side)
      OBVIOUS
    <2>2. [x |-> x, y |-> r \div 4] = t
      BY <1>6, <1>7, <2>1
    <2>3. (CHOOSE i \in 1..(side * side) : TileAt(i, side) = t) = k
      <3>1. \A i \in 1..(side * side) : TileAt(i, side) = t <=> i = k
        BY <1>7, <2>1
      <3>2. QED
        BY <3>1
    <2>4. QED
      BY <2>2, <2>3
  <1>9. GpuImage(s, side)[r][x] =
          LET i == CHOOSE i \in 1..(side * side) : TileAt(i, side) = [x |-> x, y |-> r \div 4]
          IN  IF i \in 1..Len(s) THEN s[i].bgrData[4 - (r % 4)] ELSE 0
    BY DEF GpuImage
  <1>10. GpuImage(s, side)[r][x] = IF k \in 1..Len(s) THEN s[k].bgrData[4 - z] ELSE 0
    BY <1>6, <1>8, <1>9
  <1>11. 4 - z = 5 - y
    BY <1>3
  <1>12. QED
    BY <1>2, <1>5, <1>10, <1>11

\* The words that the GPU computes: word k encodes the rows of block k.
LEMMA WordsComputed ==
    ASSUME NEW s, Len(s) \in Nat, NEW side \in Nat \ {0}, Len(s) <= side * side,
           \A k \in 1..Len(s) : \A y \in 1..4 : s[k].bgrData[y] \in Nat,
           NEW res, res = DownloadData(CpuImage(GpuImage(s, side), side), side)
    PROVE  /\ res \in Seq(WordSet) /\ Len(res) = side * side
           /\ \A k \in 1..Len(s) : res[k].by = "gpu"
           /\ \A k \in 1..Len(s) :
                 res[k] = [by |-> "gpu", rows |-> [y \in 1..4 |-> s[k].bgrData[5 - y]]]
  <1>1. PICK n \in Nat : n = side * side
    OBVIOUS
  <1>2. PICK image : image = CpuImage(GpuImage(s, side), side)
    OBVIOUS
  <1>3. ASSUME NEW k \in 1..n, NEW y \in 1..4
        PROVE  image[4 * ((k - 1) \div side) + y - 1][(k - 1) % side] =
                 IF k \in 1..Len(s) THEN s[k].bgrData[5 - y] ELSE 0
    <2>1. PICK r \in 0..(4 * side - 1) : r = 4 * ((k - 1) \div side) + y - 1
      BY <1>1, TilesAre
    <2>2. image[r] = GpuImage(s, side)[r]
      BY <1>2, FlippedTwice
    <2>3. GpuImage(s, side)[r][(k - 1) % side] = IF k \in 1..Len(s) THEN s[k].bgrData[5 - y] ELSE 0
      BY <1>1, <2>1, TilesAre
    <2>4. QED
      BY <2>1, <2>2, <2>3
  <1> DEFINE rows(k) == [y \in 1..4 |-> IF k \in 1..Len(s) THEN s[k].bgrData[5 - y] ELSE 0]
  <1>4. res = [k \in 1..n |-> [by |-> "gpu", rows |-> rows(k)]]
    <2>1. res = [k \in 1..n |-> [by |-> "gpu",
                   rows |-> [y \in 1..4 |-> image[4 * ((k - 1) \div side) + y - 1][(k - 1) % side]]]]
      BY <1>1, <1>2 DEF DownloadData
    <2>2. ASSUME NEW k \in 1..n
          PROVE  [y \in 1..4 |-> image[4 * ((k - 1) \div side) + y - 1][(k - 1) % side]] = rows(k)
      BY <1>3
    <2> HIDE DEF rows
    <2>3. QED
      BY <2>1, <2>2
  <1>5. ASSUME NEW k \in 1..n PROVE rows(k) \in Seq(Nat)
    <2>1. \A y \in 1..4 : 5 - y \in 1..4
      OBVIOUS
    <2>2. rows(k) \in [1..4 -> Nat]
      BY <2>1
    <2>3. 4 \in Nat
      OBVIOUS
    <2> HIDE DEF rows
    <2>4. QED
      BY <2>2, <2>3, FunctionIsSequence
  <1>6. \A k \in 1..Len(s) : k \in 1..n
    BY <1>1
  <1>7. ASSUME NEW k \in 1..Len(s) PROVE rows(k) = [y \in 1..4 |-> s[k].bgrData[5 - y]]
    OBVIOUS
  <1> HIDE DEF rows
  <1>8. res \in [1..n -> WordSet]
    BY <1>4, <1>5 DEF WordSet
  <1>9. res \in Seq(WordSet) /\ Len(res) = n
    BY <1>8, FunctionIsSequence
  <1>10. ASSUME NEW k \in 1..Len(s)
         PROVE  res[k].by = "gpu" /\ res[k] = [by |-> "gpu", rows |-> [y \in 1..4 |-> s[k].bgrData[5 - y]]]
    <2>1. res[k] = [by |-> "gpu", rows |-> rows(k)]
      BY <1>4, <1>6
    <2>2. QED
      BY <1>7, <2>1
  <1>11. QED
    BY <1>1, <1>9, <1>10

LEMMA RunGpuKeeps ==
    ASSUME PipelineInv, RunGpu
    PROVE  PipelineInv'
  <1>1. /\ mpc = "gpu" /\ mpc' = "save"
        /\ UNCHANGED <<img, err, quality, ptr, offset, linesLeft, task, pixelMat, out>>
        /\ UNCHANGED <<pipe, buf, saved>>
    BY DEF RunGpu
  <1>2. MainInv /\ PipeInv /\ ResultInv
    BY DEF PipelineInv
  <1>3. Len(task) = parts /\ AllEncoded
    BY <1>1, AfterSync
  <1>4. /\ MainInv' /\ \A j \in 1..Len(task') : TaskInv(j)'
        /\ OutInv' /\ pixelMat' \in Mats' /\ \A j \in 1..parts' : PixInv(j)'
    BY <1>1, <1>3, CpuKept
  <1>5. \A b : PixOf(b)' = PixOf(b) /\ ColourWord(b)' = ColourWord(b) /\ BlockRows(b)' = BlockRows(b)
    BY <1>1 DEF PixOf, ColourWord, BlockRows, width, wordsPerBlock
  <1>6. Blocks' = Blocks /\ PixBlockSet' = PixBlockSet /\ numBlocks' = numBlocks
    BY <1>1 DEF Blocks, numBlocks, PixBlockSet
  <1>7. PipeInv'
    <2>1. Holds(pipe, 0, numBlocks)'
      <3>1. Holds(pipe, 0, numBlocks)
        BY <1>1, <1>2 DEF PipeInv
      <3>2. QED
        BY <1>1, <1>5, <1>6, <3>1 DEF Holds
    <2>2. Sorted(pipe)' = Sorted(pipe)
      BY <1>1 DEF Sorted, Cmp
    <2>3. Limit(Len(pipe))' = Limit(Len(pipe))
      BY <1>1 DEF Limit
    <2>4. QED
      BY <1>1, <1>2, <1>6, <2>1, <2>2, <2>3 DEF PipeInv
  <1>8. img \in Images
    BY <1>2 DEF MainInv
  <1>9. /\ buf \in Seq(PixBlockSet) /\ Len(buf) \in Nat
        /\ \A i \in 1..Len(buf) : \E b \in Blocks : err[b] > 0 /\ buf[i] = PixOf(b)
    <2>1. buf \in Seq(PixBlockSet) /\ Len(buf) <= Len(pipe) /\ \A i \in 1..Len(buf) : buf[i] = pipe[i]
      BY <1>1, <1>2 DEF PipeInv
    <2>2. pipe \in Seq(PixBlockSet)
          /\ \A i \in 1..Len(pipe) : \E b \in Blocks : err[b] > 0 /\ pipe[i] = PixOf(b)
      BY <1>1, <1>2 DEF PipeInv, Holds, Blocks
    <2>3. Len(buf) \in Nat /\ Len(pipe) \in Nat
      BY <2>1, <2>2
    <2>4. QED
      BY <2>1, <2>2, <2>3
  <1>10. ASSUME NEW i \in 1..Len(buf), NEW b \in Blocks, buf[i] = PixOf(b)
         PROVE  /\ \A y \in 1..4 : buf[i].bgrData[y] \in Nat
                /\ [y \in 1..4 |-> buf[i].bgrData[5 - y]] = BlockRows(b)
    <2>1. b \in Nat
      BY <1>8, WordsAre
    <2>2. PICK p : p = PixelRows(BlockRows(b))
      OBVIOUS
    <2>3. p \in Seq(Nat) /\ Len(p) = 4 /\ \A y \in 1..4 : p[5 - y] = BlockRows(b)[y]
      BY <1>8, <2>1, <2>2, RowsAre
    <2>4. buf[i].bgrData = p
      BY <1>10, <2>2 DEF PixOf, PixBlock
    <2>5. BlockRows(b) = [y \in 1..4 |-> BlockRows(b)[y]]
      BY DEF BlockRows
    <2>6. [y \in 1..4 |-> p[5 - y]] = [y \in 1..4 |-> BlockRows(b)[y]]
      BY <2>3
    <2>7. \A y \in 1..4 : p[y] \in Nat
      <3>1. \A y \in 1..Len(p) : p[y] \in Nat
        BY <2>3, ElementOfSeq
      <3>2. QED
        BY <2>3, <3>1
    <2>8. QED
      BY <2>4, <2>5, <2>6, <2>7
  <1>11. PICK side \in Nat \ {0} : side = SideOf(Len(buf)) /\ Len(buf) < side * side
    BY <1>9, SideIs
  <1>12. PICK res : res = result'
    OBVIOUS
  <1>13. res = DownloadData(CpuImage(GpuImage(buf, side), side), side)
    BY <1>11, <1>12 DEF RunGpu
  <1>14. Len(buf) <= side * side
    <2>1. side * side \in Nat
      OBVIOUS
    <2>2. QED
      BY <1>9, <1>11, <2>1
  <1>15. \A k \in 1..Len(buf) : \A y \in 1..4 : buf[k].bgrData[y] \in Nat
    BY <1>9, <1>10
  <1>16. /\ res \in Seq(WordSet) /\ Len(res) = side * side
         /\ \A k \in 1..Len(buf) :
               res[k] = [by |-> "gpu", rows |-> [y \in 1..4 |-> buf[k].bgrData[5 - y]]]
    BY <1>9, <1>13, <1>14, <1>15, WordsComputed
  <1>17. ASSUME NEW i \in 1..Len(buf), NEW b \in Blocks, buf[i] = PixOf(b)
         PROVE  res[i] = [by |-> "gpu", rows |-> BlockRows(b)]
    BY <1>10, <1>16, <1>17
  <1>18. ResultInv'
    <2>1. saved = 0 /\ \A b \in Blocks : out[ColourWord(b)].by # "gpu"
      BY <1>1, <1>2 DEF ResultInv, PipelineInv, OutInv
    <2>2. SideOf(Len(buf))' = side
      BY <1>1, <1>11 DEF SideOf, Sqrt, Max
    <2>3. \A b \in Blocks : out'[ColourWord(b)].by = "gpu" <=>
             \E i \in 1..saved' : buf'[i].address = ColourWord(b)
      BY <1>1, <2>1
    <2>4. saved' \in 0..Len(buf')
      BY <1>1, <1>9, <2>1
    <2>5. QED
      BY <1>1, <1>5, <1>6, <1>12, <1>16, <1>17, <2>2, <2>3, <2>4 DEF ResultInv
  <1>19. QED
    BY <1>4, <1>7, <1>18 DEF PipelineInv
-----------------------------------------------------------------------------
(* The words of the GPU are written over those of the CPU                  *)

LEMMA NonePending ==
    ASSUME PipelineInv, mpc \notin {"queue", "sync"}, NEW b \in Blocks
    PROVE  ~Pending(b)
  <1>1. MainInv /\ Len(task) = parts /\ AllEncoded
    BY AfterSync DEF PipelineInv
  <1>2. img \in Images /\ task \in Seq(TaskSet)
    BY <1>1 DEF MainInv
  <1>3. numBlocks \in Nat /\ b \in Nat /\ b < numBlocks
    BY <1>2, ImageIs DEF Blocks
  <1>4. Edge(Len(task)) = numBlocks /\ \A j \in Nat : Edge(j) \in Nat
    BY <1>1, <1>2, EdgesAre
  <1>5. ASSUME NEW j \in 1..Len(task) PROVE ~(Cur(j) <= b /\ b < Edge(j))
    <2>1. j \in Nat
      BY <1>2
    <2>2. Edge(j) \in Nat /\ task[j].blocks = 0
      BY <1>1, <1>4, <2>1 DEF AllEncoded
    <2>3. Cur(j) = Edge(j)
      BY <2>2 DEF Cur
    <2>4. QED
      BY <1>3, <2>2, <2>3
  <1>6. QED
    BY <1>3, <1>4, <1>5 DEF Pending

\* The block whose word saveToOffset writes.
LEMMA BlockSaved ==
    ASSUME PipelineInv, SaveToOffset
    PROVE  \E c \in Blocks :
              /\ err[c] > 0 /\ buf[saved + 1] = PixOf(c) /\ buf[saved + 1].address = ColourWord(c)
              /\ out' = [out EXCEPT ![ColourWord(c)] = [by |-> "gpu", rows |-> BlockRows(c)]]
              /\ out[ColourWord(c)].by = "cpu"
  <1>1. /\ mpc = "save" /\ saved < Len(buf)
        /\ out' = [out EXCEPT ![buf[saved + 1].address] = result[saved + 1]]
    BY DEF SaveToOffset
  <1>2. MainInv /\ OutInv /\ PipeInv /\ ResultInv
    BY DEF PipelineInv
  <1>3. img \in Images
    BY <1>2 DEF MainInv
  <1>4. /\ buf \in Seq(PixBlockSet) /\ pipe \in Seq(PixBlockSet)
        /\ Len(buf) <= Len(pipe) /\ \A i \in 1..Len(buf) : buf[i] = pipe[i]
        /\ \A i \in 1..Len(pipe) : \E b \in Blocks : err[b] > 0 /\ pipe[i] = PixOf(b)
        /\ \A i, k \in 1..Len(pipe) : pipe[i].address = pipe[k].address => i = k
    BY <1>1, <1>2 DEF PipeInv, Holds, Blocks
  <1>5. saved \in 0..Len(buf) /\ Len(buf) \in Nat /\ Len(pipe) \in Nat
    BY <1>2, <1>4 DEF ResultInv
  <1>6. PICK i \in 1..Len(buf) : i = saved + 1 /\ i \in 1..Len(pipe)
    BY <1>1, <1>4, <1>5
  <1>7. PICK c \in Blocks : err[c] > 0 /\ pipe[i] = PixOf(c)
    BY <1>4, <1>6
  <1>8. buf[i] = PixOf(c) /\ PixOf(c).address = ColourWord(c)
    BY <1>2, <1>4, <1>7, PixBlocksAre
  <1>9. result[i] = [by |-> "gpu", rows |-> BlockRows(c)]
    BY <1>1, <1>2, <1>8 DEF ResultInv
  <1>10. out[ColourWord(c)] # unwritten
    BY <1>1, <1>2, NonePending DEF OutInv
  <1>11. out[ColourWord(c)].by \in {"cpu", "gpu"}
    BY <1>2, <1>10 DEF OutInv, WordsBelong, Blocks
  <1>12. ASSUME out[ColourWord(c)].by = "gpu" PROVE FALSE
    <2>1. PICK k \in 1..saved : buf[k].address = ColourWord(c)
      BY <1>2, <1>12 DEF ResultInv
    <2>2. k \in 1..Len(buf) /\ k \in 1..Len(pipe) /\ k # i
      BY <1>4, <1>5, <1>6
    <2>3. pipe[k].address = pipe[i].address
      BY <1>4, <1>7, <1>8, <2>1, <2>2
    <2>4. QED
      BY <1>4, <1>6, <2>2, <2>3
  <1>13. QED
    BY <1>1, <1>6, <1>7, <1>8, <1>9, <1>11, <1>12

LEMMA SaveToOffsetKeeps ==
    ASSUME PipelineInv, SaveToOffset
    PROVE  PipelineInv'
  <1>1. /\ mpc = "save" /\ mpc' = "save" /\ saved < Len(buf) /\ saved' = saved + 1
        /\ UNCHANGED <<img, err, quality, ptr, offset, linesLeft, task, pixelMat, pipe, buf, result, mpc>>
    BY DEF SaveToOffset
  <1>2. /\ MainInv /\ OutInv /\ PipeInv /\ ResultInv /\ pixelMat \in Mats
        /\ \A j \in 1..Len(task) : TaskInv(j)
        /\ \A j \in 1..parts : PixInv(j)
    BY DEF PipelineInv
  <1>3. img \in Images
    BY <1>2 DEF MainInv
  <1>4. PICK c \in Blocks :
              /\ err[c] > 0 /\ buf[saved + 1] = PixOf(c) /\ buf[saved + 1].address = ColourWord(c)
              /\ out' = [out EXCEPT ![ColourWord(c)] = [by |-> "gpu", rows |-> BlockRows(c)]]
              /\ out[ColourWord(c)].by = "cpu"
    BY BlockSaved
  <1>5. PICK word : word = [by |-> "gpu", rows |-> BlockRows(c)]
    OBVIOUS
  <1>6. /\ \A b \in Blocks : /\ ColourWord(b) \in Words(img) /\ b \in Nat
                             /\ img.rgba => 2 * b \in Words(img) /\ ColourWord(b) = 2 * b + 1
        /\ \A b \in Blocks : ColourWord(b) = ColourWord(c) => b = c
    BY <1>3, WordsAre
  <1>7. word \in WordSet /\ word # unwritten
    <2>1. BlockRows(c) \in Seq(Nat)
      BY <1>3, <1>6, RowsAre
    <2>2. QED
      BY <1>5, <2>1 DEF WordSet, unwritten
  <1>8. DOMAIN out = Words(img) /\ \A i \in Words(img) : out[i] \in WordSet
    BY <1>2 DEF OutInv
  <1>9. /\ DOMAIN out' = Words(img) /\ \A i \in Words(img) : out'[i] \in WordSet
        /\ out'[ColourWord(c)] = word
        /\ \A i \in Words(img) : i # ColourWord(c) => out'[i] = out[i]
    BY <1>4, <1>5, <1>6, <1>7, <1>8
  <1>10. /\ \A b \in Blocks : b # c => out'[ColourWord(b)] = out[ColourWord(b)]
         /\ \A b \in Blocks : img.rgba => out'[2 * b] = out[2 * b]
    BY <1>6, <1>9
  <1>11. parts' = parts /\ wordsPerBlock' = wordsPerBlock /\ Blocks' = Blocks /\ Words(img)' = Words(img)
         /\ numBlocks' = numBlocks /\ \A j : Edge(j)' = Edge(j)
    BY <1>1 DEF parts, PartsOf, wordsPerBlock, Blocks, numBlocks, Words, Edge
  <1>12. \A b : ColourWord(b)' = ColourWord(b) /\ BlockRows(b)' = BlockRows(b) /\ PixOf(b)' = PixOf(b)
    BY <1>1, <1>11 DEF PixOf, ColourWord, BlockRows, width
  <1>13. PixBlockSet' = PixBlockSet
    BY <1>1 DEF PixBlockSet, Words
  <1>14. MainInv'
    BY <1>1, <1>2, <1>11 DEF MainInv
  <1>15. \A j : Cur(j)' = Cur(j) /\ SrcOf(Cur(j))' = SrcOf(Cur(j))
    BY <1>1, <1>11 DEF Cur, SrcOf
  <1>16. \A j \in 1..Len(task') : TaskInv(j)'
    BY <1>1, <1>2, <1>11, <1>15 DEF TaskInv
  <1>17. \A j \in 1..parts : PixInv(j)'
    <2>1. ASSUME NEW j \in 1..parts PROVE PixInv(j)'
      <3>1. PixInv(j)
        BY <1>2
      <3>2. QED
        BY <1>1, <1>11, <1>12, <1>13, <1>15, <3>1 DEF PixInv, Holds
    <2>2. QED
      BY <2>1
  <1>18. PipeInv'
    <2>1. Holds(pipe, 0, numBlocks)'
      <3>1. Holds(pipe, 0, numBlocks)
        BY <1>1, <1>2 DEF PipeInv
      <3>2. QED
        BY <1>1, <1>11, <1>12, <1>13, <3>1 DEF Holds
    <2>2. Sorted(pipe)' = Sorted(pipe)
      BY <1>1 DEF Sorted, Cmp
    <2>3. Limit(Len(pipe))' = Limit(Len(pipe))
      BY <1>1 DEF Limit
    <2>4. QED
      BY <1>1, <1>2, <1>13, <2>1, <2>2, <2>3 DEF PipeInv
  <1>19. OutInv'
    <2>1. unwritten' = unwritten
      BY DEF unwritten
    <2>2. WordsBelong'
      <3> SUFFICES ASSUME NEW b \in Blocks
                   PROVE  /\ out'[ColourWord(b)] # unwritten =>
                                /\ out'[ColourWord(b)].rows = BlockRows(b)
                                /\ out'[ColourWord(b)].by \in {"cpu", "gpu"}
                          /\ img.rgba /\ out'[2 * b] # unwritten =>
                                out'[2 * b] = [by |-> "alpha", rows |-> BlockRows(b)]
        BY <1>1, <1>11, <1>12, <2>1 DEF WordsBelong, Blocks
      <3>1. CASE b = c
        BY <1>2, <1>5, <1>9, <1>10, <3>1 DEF OutInv, WordsBelong, Blocks
      <3>2. CASE b # c
        BY <1>2, <1>10, <3>2 DEF OutInv, WordsBelong, Blocks
      <3>3. QED
        BY <3>1, <3>2
    <2>3. ASSUME NEW b \in Blocks
          PROVE  /\ ~Pending(b)'
                 /\ out'[ColourWord(b)] # unwritten
                 /\ img.rgba => out'[2 * b] # unwritten
      <3>1. ~Pending(b)
        BY <1>1, NonePending
      <3>2. Pending(b)' <=> Pending(b)
        BY <1>1, <1>11, <1>15 DEF Pending
      <3>3. out[ColourWord(b)] # unwritten /\ (img.rgba => out[2 * b] # unwritten)
        BY <1>2, <3>1 DEF OutInv
      <3>4. CASE b = c
        BY <1>7, <1>9, <1>10, <3>1, <3>2, <3>3, <3>4
      <3>5. CASE b # c
        BY <1>10, <3>1, <3>2, <3>3, <3>5
      <3>6. QED
        BY <3>4, <3>5
    <2>4. QED
      BY <1>1, <1>9, <1>11, <1>12, <2>1, <2>2, <2>3 DEF OutInv
  <1>20. ResultInv'
    <2>1. buf \in Seq(PixBlockSet) /\ Len(buf) \in Nat
      BY <1>1, <1>2 DEF PipeInv
    <2>2. saved \in 0..Len(buf)
      BY <1>2 DEF ResultInv
    <2>3. saved' \in 0..Len(buf)
      BY <1>1, <2>1, <2>2
    <2>4. ASSUME NEW b \in Blocks
          PROVE  out'[ColourWord(b)].by = "gpu" <=>
                    \E i \in 1..saved' : buf[i].address = ColourWord(b)
      <3>1. out[ColourWord(b)].by = "gpu" <=> \E i \in 1..saved : buf[i].address = ColourWord(b)
        BY <1>2 DEF ResultInv
      <3>2. saved + 1 \in 1..saved' /\ \A i \in 1..saved' : i \in 1..saved \/ i = saved + 1
        BY <1>1, <2>1, <2>2
      <3>3. 1..saved \subseteq 1..saved'
        BY <1>1, <2>1, <2>2
      <3>4. CASE b = c
        BY <1>4, <1>5, <1>9, <3>2, <3>4
      <3>5. CASE b # c
        <4>1. buf[saved + 1].address # ColourWord(b)
          BY <1>4, <1>6, <3>5
        <4>2. out'[ColourWord(b)] = out[ColourWord(b)]
          BY <1>10, <3>5
        <4>3. QED
          BY <3>1, <3>2, <3>3, <4>1, <4>2
      <3>6. QED
        BY <3>4, <3>5
    <2>5. SideOf(Len(buf))' = SideOf(Len(buf))
      BY <1>1 DEF SideOf, Sqrt, Max
    <2>6. QED
      BY <1>1, <1>2, <1>11, <1>12, <2>3, <2>4, <2>5 DEF ResultInv
  <1>21. QED
    BY <1>1, <1>2, <1>11, <1>13, <1>14, <1>16, <1>17, <1>18, <1>19, <1>20 DEF PipelineInv, Mats
-----------------------------------------------------------------------------
(* The invariant of every step                                             *)

LEMMA NothingChanged ==
    ASSUME PipelineInv, UNCHANGED vars
    PROVE  PipelineInv'
  <1>1. UNCHANGED <<img, err, quality, ptr, offset, linesLeft, task, pixelMat, out, pipe, buf,
                    result, saved, mpc>>
    BY DEF vars
  <1>2. /\ MainInv /\ OutInv /\ PipeInv /\ ResultInv /\ pixelMat \in Mats
        /\ \A j \in 1..Len(task) : TaskInv(j)
        /\ \A j \in 1..parts : PixInv(j)
    BY DEF PipelineInv
  <1>3. parts' = parts /\ wordsPerBlock' = wordsPerBlock /\ Blocks' = Blocks /\ Words(img)' = Words(img)
        /\ numBlocks' = numBlocks /\ \A j : Edge(j)' = Edge(j)
    BY <1>1 DEF parts, PartsOf, wordsPerBlock, Blocks, numBlocks, Words, Edge
  <1>4. \A b : ColourWord(b)' = ColourWord(b) /\ BlockRows(b)' = BlockRows(b) /\ PixOf(b)' = PixOf(b)
    BY <1>1, <1>3 DEF PixOf, ColourWord, BlockRows, width
  <1>5. PixBlockSet' = PixBlockSet
    BY <1>1 DEF PixBlockSet, Words
  <1>6. MainInv'
    BY <1>1, <1>2, <1>3 DEF MainInv
  <1>7. \A j : Cur(j)' = Cur(j) /\ SrcOf(Cur(j))' = SrcOf(Cur(j))
    BY <1>1, <1>3 DEF Cur, SrcOf
  <1>8. \A j \in 1..Len(task') : TaskInv(j)'
    BY <1>1, <1>2, <1>3, <1>7 DEF TaskInv
  <1>9. ASSUME NEW j \in 1..parts PROVE PixInv(j)'
    <2>1. PixInv(j)
      BY <1>2
    <2>2. QED
      BY <1>1, <1>3, <1>4, <1>5, <1>7, <2>1 DEF PixInv, Holds
  <1>10. PipeInv' /\ ResultInv'
    BY <1>1, RestKept
  <1>11. OutInv'
    <2>1. \A b : Pending(b)' <=> Pending(b)
      BY <1>1, <1>3, <1>7 DEF Pending
    <2>2. WordsBelong' <=> WordsBelong
      BY <1>1, <1>3, <1>4 DEF WordsBelong, unwritten
    <2>3. QED
      BY <1>1, <1>2, <1>3, <1>4, <2>1, <2>2 DEF OutInv, unwritten
  <1>12. QED
    BY <1>1, <1>2, <1>3, <1>5, <1>6, <1>8, <1>9, <1>10, <1>11 DEF PipelineInv, Mats

LEMMA PipelineNext == PipelineInv /\ [Next]_vars => PipelineInv'
  <1> SUFFICES ASSUME PipelineInv, [Next]_vars PROVE PipelineInv'
    OBVIOUS
  <1>1. CASE QueuePart
    BY <1>1, QueuePartKeeps
  <1>2. CASE SyncCall
    BY <1>2, SyncCallKeeps
  <1>3. CASE SyncAndJoin
    BY <1>3, SyncAndJoinKeeps
  <1>4. CASE Select
    BY <1>4, SelectKeeps
  <1>5. CASE RunGpu
    BY <1>5, RunGpuKeeps
  <1>6. CASE SaveToOffset
    BY <1>6, SaveToOffsetKeeps
  <1>7. CASE Finish
    BY <1>7, FinishKeeps
  <1>8. ASSUME NEW j \in 1..Len(task), EncodeBlock(j) PROVE PipelineInv'
    BY <1>8, EncodeBlockKeeps
  <1>9. CASE Terminated \/ UNCHANGED vars
    BY <1>9, NothingChanged DEF Terminated
  <1>10. QED
    BY <1>1, <1>2, <1>3, <1>4, <1>5, <1>6, <1>7, <1>8, <1>9 DEF Next, MainStep

\* Whatever the tasks' interleaving, the pipeline keeps its invariant.
LEMMA PipelineAlways == Spec => []PipelineInv
  BY PipelineInit, PipelineNext, PTL DEF Spec

LEMMA TypeHolds == PipelineInv => TypeOK
  <1> SUFFICES ASSUME PipelineInv PROVE TypeOK
    OBVIOUS
  <1>1. /\ MainInv /\ OutInv /\ PipeInv /\ ResultInv /\ pixelMat \in Mats
        /\ \A j \in 1..Len(task) : TaskInv(j)
    BY DEF PipelineInv
  <1>2. img \in Images /\ task \in Seq(TaskSet) /\ Len(task) \in Nat /\ Len(task) <= parts
    BY <1>1 DEF MainInv
  <1>3. PICK m \in Nat \ {0} : m = img.bw
    BY <1>2, ImageIs
  <1>4. PICK l \in Nat \ {0} : l = img.lines
    BY <1>2, ImageIs
  <1>5. PICK n \in Nat : n = numBlocks /\ n = m * l
    BY <1>2, <1>3, <1>4, ImageIs
  <1>6. width * 4 * img.lines = 16 * n /\ wordsPerBlock \in {1, 2}
    <2>1. width = 4 * m
      BY <1>2, <1>3, ImageIs
    <2>2. (4 * m) * 4 * l = 16 * (m * l)
      OBVIOUS
    <2>3. QED
      BY <1>2, <1>4, <1>5, <2>1, <2>2, ImageIs
  <1>7. \A j \in Nat : Edge(j) \in Nat /\ Edge(j) <= n
    BY <1>2, <1>5, EdgesAre
  <1>8. ptr \in 0..(width * 4 * img.lines) /\ offset \in 0..numBlocks
    <2>1. PICK e \in Nat : e = Edge(Len(task)) /\ e <= n
      BY <1>2, <1>7
    <2>2. offset = e /\ ptr = 16 * e
      BY <1>1, <2>1 DEF MainInv
    <2>3. e \in 0..n /\ 16 * e \in 0..(16 * n)
      BY <2>1
    <2>4. QED
      BY <1>5, <1>6, <2>2, <2>3
  <1>9. linesLeft \in 0..img.lines
    <2>1. Len(task) * PartLines \in Nat /\ img.lines \in Nat
      BY <1>2, ImageIs
    <2>2. PICK e \in Nat : e = Least(Len(task) * PartLines, img.lines) /\ e <= img.lines
      <3>1. PICK a \in Nat : a = Len(task) * PartLines
        BY <2>1
      <3>2. Least(a, img.lines) \in Nat /\ Least(a, img.lines) <= img.lines
        BY <2>1, LeastIs
      <3>3. QED
        BY <3>1, <3>2
    <2>3. linesLeft = img.lines - e
      BY <1>1, <2>2 DEF MainInv
    <2>4. QED
      BY <2>1, <2>2, <2>3
  <1>10. ASSUME NEW j \in 1..Len(task)
         PROVE  /\ task[j].src \in 0..(width * 4 * img.lines)
                /\ task[j].dst \in 0..(wordsPerBlock * numBlocks)
                /\ task[j].blocks \in 0..numBlocks
    <2>1. j \in Nat /\ j - 1 \in Nat /\ task[j] \in TaskSet
      BY <1>2, ElementOfSeq
    <2>2. task[j].blocks \in Nat /\ TaskInv(j)
      BY <1>1, <2>1 DEF TaskSet
    <2>3. PICK e \in Nat : e = Edge(j) /\ e <= n
      BY <1>7, <2>1
    <2>4. PICK d \in Nat : d = Edge(j - 1)
      BY <1>7, <2>1
    <2>5. task[j].blocks <= e - d
      BY <2>2, <2>3, <2>4 DEF TaskInv
    <2>6. PICK c \in 0..n : c = Cur(j)
      BY <2>2, <2>3, <2>5 DEF Cur
    <2>7. task[j].src = SrcOf(c) /\ task[j].dst = wordsPerBlock * c
      BY <2>2, <2>6 DEF TaskInv
    <2>8. SrcOf(c) \in 0..(16 * n)
      <3>1. PICK q \in Nat : q = c \div m
        BY Quotient
      <3>2. PICK r \in 0..(m - 1) : r = c % m
        <4>1. c \in Nat
          OBVIOUS
        <4>2. c % m \in 0..(m - 1)
          BY <4>1, Remainder
        <4>3. QED
          BY <4>2
      <3>3. c = m * q + r
        BY <3>1, <3>2, Remainder
      <3>4. SrcOf(c) = 16 * (m * q) + 4 * r
        BY <1>3, <3>1, <3>2 DEF SrcOf
      <3>5. m * q \in Nat
        OBVIOUS
      <3>6. QED
        BY <3>3, <3>4, <3>5
    <2>9. wordsPerBlock * c \in 0..(wordsPerBlock * n)
      BY <1>6
    <2>10. QED
      BY <1>5, <1>6, <2>2, <2>3, <2>5, <2>7, <2>8, <2>9
  <1>11. \A j \in 1..parts : pixelMat[j] \in Seq(PixBlockSet)
    BY <1>1 DEF Mats
  <1>12. pipe \in Seq(PixBlockSet) /\ buf \in Seq(PixBlockSet)
    <2>1. <<>> \in Seq(PixBlockSet)
      OBVIOUS
    <2>2. QED
      BY <1>1, <2>1 DEF PipeInv, Holds, MainInv
  <1>13. result \in Seq(WordSet) /\ saved \in 0..Len(buf)
    <2>1. <<>> \in Seq(WordSet)
      OBVIOUS
    <2>2. QED
      BY <1>1, <2>1 DEF ResultInv
  <1>14. QED
    BY <1>1, <1>8, <1>9, <1>10, <1>11, <1>12, <1>13 DEF TypeOK, MainInv, OutInv, Blocks

(* Positions, addresses and counters stay inside their buffers for every     *)
(* image, every error and every order of the tasks.                          *)
THEOREM PipelineTypes == Spec => []TypeOK
  BY PipelineAlways, TypeHolds, PTL

(* Each word in the file encodes the rows of the block whose place it has,   *)
(* and when the GPU's part begins no word is missing, for every image, every *)
(* cut into parts, every order of the tasks and every quality.               *)
THEOREM FileRight == Spec => []FileIsRight
  <1>1. ASSUME PipelineInv PROVE FileIsRight
    <2>1. WordsBelong /\ img \in Images
      BY <1>1 DEF PipelineInv, OutInv, MainInv
    <2>2. ASSUME mpc \notin {"queue", "sync"}, NEW i \in Words(img) PROVE out[i] # unwritten
      <3>1. PICK b \in Blocks : i = ColourWord(b) \/ (img.rgba /\ i = 2 * b)
        BY <2>1, WordsAre
      <3>2. ~Pending(b)
        BY <1>1, <2>2, NonePending
      <3>3. OutInv
        BY <1>1 DEF PipelineInv
      <3>4. QED
        BY <3>1, <3>2, <3>3 DEF OutInv
    <2>3. QED
      BY <2>1, <2>2 DEF FileIsRight, NothingMissing
  <1>2. QED
    BY PipelineAlways, <1>1, PTL

(* No two tasks ever write the same word, and the write-back only replaces   *)
(* words of the CPU, none of them twice.                                     *)
THEOREM EachWordOnce == Spec => WrittenOnce
  <1>1. ASSUME PipelineInv, [Next]_vars
        PROVE  [\A i \in Words(img) : out'[i] # out[i] =>
                  IF mpc = "save" THEN out[i].by = "cpu" ELSE out[i] = unwritten]_vars
    <2> SUFFICES ASSUME NEW i \in Words(img), out'[i] # out[i]
                 PROVE  IF mpc = "save" THEN out[i].by = "cpu" ELSE out[i] = unwritten
      OBVIOUS
    <2>1. CASE SaveToOffset
      <3>1. PICK c \in Blocks :
              /\ out' = [out EXCEPT ![ColourWord(c)] = [by |-> "gpu", rows |-> BlockRows(c)]]
              /\ out[ColourWord(c)].by = "cpu"
        BY <1>1, <2>1, BlockSaved
      <3>2. i = ColourWord(c)
        BY <3>1
      <3>3. QED
        BY <2>1, <3>1, <3>2 DEF SaveToOffset
    <2>2. ASSUME NEW j \in 1..Len(task), EncodeBlock(j) PROVE mpc # "save" /\ out[i] = unwritten
      <3>1. PICK c : c = Cur(j)
        OBVIOUS
      <3>2. /\ c \in Blocks /\ mpc \in {"queue", "sync"}
            /\ i = ColourWord(c) \/ (img.rgba /\ i = 2 * c)
        BY <1>1, <2>2, <3>1, BlockEncoded
      <3>3. Pending(c)
        BY <1>1, <2>2, <3>1, PendingAfter
      <3>4. OutInv
        BY <1>1 DEF PipelineInv
      <3>5. QED
        BY <3>2, <3>3, <3>4 DEF OutInv
    <2>3. ASSUME out' = out PROVE FALSE
      BY <2>3
    <2>4. QED
      BY <1>1, <2>1, <2>2, <2>3
         DEF Next, MainStep, QueuePart, SyncCall, SyncAndJoin, Select, RunGpu, Finish, Terminated, vars
  <1>2. QED
    BY PipelineAlways, <1>1, PTL DEF Spec, WrittenOnce
-----------------------------------------------------------------------------
(* The blocks that the GPU redoes                                          *)

\* A sequence that lists the members of a set without repeating any.
LEMMA Counted ==
    ASSUME NEW n \in Nat, NEW B, NEW f \in [1..n -> B],
           \A i, k \in 1..n : f[i] = f[k] => i = k, \A b \in B : \E i \in 1..n : f[i] = b
    PROVE  Cardinality(B) = n
  <1>1. f \in Bijection(1..n, B)
    BY DEF Bijection, Injection, IsInjective, Surjection
  <1>2. ExistsBijection(1..n, B)
    BY <1>1 DEF ExistsBijection
  <1>3. QED
    BY <1>2, FS_CountingElements

\* The i-th entry of the pipeline is the PixBlock of one block.
LEMMA PipeLists ==
    ASSUME PipelineInv, mpc = "done"
    PROVE  \E f \in [1..Len(pipe) -> Blocks] :
              /\ Len(pipe) \in Nat /\ Len(buf) \in 0..Len(pipe) /\ Len(buf) = Limit(Len(pipe))
              /\ \A i \in 1..Len(pipe) : err[f[i]] > 0 /\ pipe[i] = PixOf(f[i])
              /\ \A i, k \in 1..Len(pipe) : f[i] = f[k] => i = k
              /\ \A b \in HighError : \E i \in 1..Len(pipe) : f[i] = b
              /\ \A b \in Blocks : b \in GpuBlocks <=> \E i \in 1..Len(buf) : f[i] = b
  <1>1. MainInv /\ PipeInv /\ ResultInv /\ img \in Images
    BY DEF PipelineInv, MainInv
  <1>2. /\ pipe \in Seq(PixBlockSet) /\ buf \in Seq(PixBlockSet)
        /\ Len(buf) = Limit(Len(pipe)) /\ Len(buf) <= Len(pipe)
        /\ \A i \in 1..Len(buf) : buf[i] = pipe[i]
        /\ \A i \in 1..Len(pipe) : \E b \in Blocks : err[b] > 0 /\ pipe[i] = PixOf(b)
        /\ \A i, k \in 1..Len(pipe) : pipe[i].address = pipe[k].address => i = k
        /\ \A b \in Blocks : err[b] > 0 => \E i \in 1..Len(pipe) : pipe[i] = PixOf(b)
    BY <1>1 DEF PipeInv, Holds, Blocks
  <1>3. Len(pipe) \in Nat /\ Len(buf) \in 0..Len(pipe)
    BY <1>2
  <1> DEFINE f == [i \in 1..Len(pipe) |-> CHOOSE b \in Blocks : err[b] > 0 /\ pipe[i] = PixOf(b)]
  <1>4. ASSUME NEW i \in 1..Len(pipe)
        PROVE  f[i] \in Blocks /\ err[f[i]] > 0 /\ pipe[i] = PixOf(f[i])
    BY <1>2
  <1>5. f \in [1..Len(pipe) -> Blocks]
    BY <1>4
  <1> HIDE DEF f
  <1>6. \A i \in 1..Len(pipe) : pipe[i].address = ColourWord(f[i])
    <2> SUFFICES ASSUME NEW i \in 1..Len(pipe) PROVE pipe[i].address = ColourWord(f[i])
      OBVIOUS
    <2>1. PICK b \in Blocks : b = f[i] /\ err[b] > 0 /\ pipe[i] = PixOf(b)
      BY <1>4
    <2>2. PixOf(b).address = ColourWord(b)
      BY <1>1, <2>1, PixBlocksAre
    <2>3. QED
      BY <2>1, <2>2
  <1>7. \A b, c \in Blocks : ColourWord(b) = ColourWord(c) => b = c
    BY <1>1, WordsAre
  <1>8. \A i, k \in 1..Len(pipe) : f[i] = f[k] => i = k
    BY <1>2, <1>6
  <1>9. ASSUME NEW i \in 1..Len(pipe), NEW b \in Blocks, pipe[i].address = ColourWord(b) PROVE f[i] = b
    BY <1>4, <1>6, <1>7, <1>9
  <1>10. ASSUME NEW b \in HighError PROVE \E i \in 1..Len(pipe) : f[i] = b
    <2>1. b \in Blocks /\ err[b] > 0
      BY DEF HighError, Blocks
    <2>2. PICK i \in 1..Len(pipe) : pipe[i] = PixOf(b)
      BY <1>2, <2>1
    <2>3. pipe[i].address = ColourWord(b)
      BY <1>1, <2>1, <2>2, PixBlocksAre
    <2>4. QED
      BY <1>9, <2>1, <2>3
  <1>11. ASSUME NEW b \in Blocks PROVE b \in GpuBlocks <=> \E i \in 1..Len(buf) : f[i] = b
    <2>1. b \in GpuBlocks <=> out[ColourWord(b)].by = "gpu"
      BY DEF GpuBlocks, Blocks
    <2>2. out[ColourWord(b)].by = "gpu" <=> \E i \in 1..Len(buf) : buf[i].address = ColourWord(b)
      BY <1>1 DEF ResultInv
    <2>3. \A i \in 1..Len(buf) : i \in 1..Len(pipe) /\ buf[i] = pipe[i]
      BY <1>2, <1>3
    <2>4. \A i \in 1..Len(buf) : buf[i].address = ColourWord(b) <=> f[i] = b
      BY <1>6, <1>9, <2>3
    <2>5. QED
      BY <2>1, <2>2, <2>4
  <1>12. QED
    BY <1>2, <1>3, <1>4, <1>5, <1>8, <1>10, <1>11

LEMMA WorstRedone == PipelineInv => WorstBlocksRedone
  <1> SUFFICES ASSUME PipelineInv, mpc = "done"
               PROVE  /\ GpuBlocks \subseteq HighError
                      /\ Cardinality(GpuBlocks) = (Cardinality(HighError) * quality[1]) \div quality[2]
                      /\ \A g \in GpuBlocks, b \in HighError \ GpuBlocks : err[g] >= err[b]
    BY DEF WorstBlocksRedone
  <1>1. MainInv /\ PipeInv
    BY DEF PipelineInv
  <1>2. GpuBlocks \subseteq Blocks /\ HighError \subseteq Blocks
        /\ \A b \in Blocks : b \in HighError <=> err[b] > 0
    BY DEF GpuBlocks, HighError, Blocks
  <1>3. PICK n \in Nat : n = Len(pipe)
    BY PipeLists
  <1>4. PICK m \in 0..n : m = Len(buf) /\ m = Limit(n)
    BY <1>3, PipeLists
  <1>5. PICK f \in [1..n -> Blocks] :
              /\ \A i \in 1..n : err[f[i]] > 0 /\ pipe[i] = PixOf(f[i])
              /\ \A i, k \in 1..n : f[i] = f[k] => i = k
              /\ \A b \in HighError : \E i \in 1..n : f[i] = b
              /\ \A b \in Blocks : b \in GpuBlocks <=> \E i \in 1..m : f[i] = b
    BY <1>3, <1>4, PipeLists
  <1>6. 1..m \subseteq 1..n
    OBVIOUS
  <1>7. GpuBlocks \subseteq HighError
    BY <1>2, <1>5, <1>6
  <1>8. Cardinality(HighError) = n
    <2>1. f \in [1..n -> HighError]
      BY <1>2, <1>5
    <2>2. QED
      BY <1>5, <2>1, Counted
  <1>9. Cardinality(GpuBlocks) = m
    <2> DEFINE g == [i \in 1..m |-> f[i]]
    <2>1. m \in Nat
      OBVIOUS
    <2>2. g \in [1..m -> GpuBlocks]
      BY <1>5, <1>6
    <2>3. \A i, k \in 1..m : g[i] = g[k] => i = k
      BY <1>5, <1>6
    <2>4. \A b \in GpuBlocks : \E i \in 1..m : g[i] = b
      BY <1>2, <1>5
    <2> HIDE DEF g
    <2>5. QED
      BY <2>1, <2>2, <2>3, <2>4, Counted
  <1>10. m = (n * quality[1]) \div quality[2]
    BY <1>4 DEF Limit
  <1>11. ASSUME NEW g \in GpuBlocks, NEW b \in HighError \ GpuBlocks PROVE err[g] >= err[b]
    <2>1. PICK i \in 1..m : f[i] = g
      BY <1>2, <1>5
    <2>2. PICK k \in 1..n : f[k] = b
      BY <1>5
    <2>3. k \notin 1..m
      BY <1>2, <1>5, <2>2
    <2>4. i \in 1..n /\ i < k /\ m # n
      BY <2>3
    <2>5. quality[1] < quality[2] /\ Sorted(pipe)
      <3>1. PICK d \in Nat \ {0} : d = quality[2]
        BY <1>1, HybridAssumption DEF MainInv
      <3>2. PICK q \in 1..d : q = quality[1]
        BY <1>1, <3>1, HybridAssumption DEF MainInv
      <3>3. q # d
        BY <1>1, <1>4, <2>4, <3>1, <3>2, LimitIs
      <3>4. quality[1] < quality[2]
        BY <3>1, <3>2, <3>3
      <3>5. QED
        BY <1>1, <3>4 DEF PipeInv
    <2>6. ~(pipe[k].error > pipe[i].error)
      BY <1>3, <2>2, <2>4, <2>5 DEF Sorted, Cmp
    <2>7. g \in Blocks /\ b \in Blocks /\ err[g] > 0 /\ err[b] > 0
      BY <1>2, <1>7
    <2>8. pipe[k].error = err[b] /\ pipe[i].error = err[g]
      BY <1>1, <1>5, <2>1, <2>2, <2>4, <2>7, PixBlocksAre
    <2>9. err[b] \in Nat /\ err[g] \in Nat
      <3>1. MaxError \in Nat
        BY HybridAssumption
      <3>2. err[b] \in 0..MaxError /\ err[g] \in 0..MaxError
        BY <1>1, <2>7 DEF MainInv
      <3>3. QED
        BY <3>1, <3>2
    <2>10. QED
      BY <2>6, <2>8, <2>9
  <1>12. QED
    BY <1>7, <1>8, <1>9, <1>10, <1>11

LEMMA TilesDoFit == PipelineInv => TilesFit
  <1> SUFFICES ASSUME PipelineInv, mpc = "save"
               PROVE  /\ Len(buf) <= Len(result)
                      /\ \A i \in 1..Len(buf) : TileAt(i, SideOf(Len(buf))).y < SideOf(Len(buf))
    BY DEF TilesFit
  <1>1. buf \in Seq(PixBlockSet) /\ Len(buf) \in Nat
    BY DEF PipelineInv, PipeInv
  <1>2. PICK side \in Nat \ {0} : side = SideOf(Len(buf)) /\ Len(buf) < side * side
    BY <1>1, SideIs
  <1>3. Len(result) = side * side /\ side * side \in Nat
    BY <1>2 DEF PipelineInv, ResultInv
  <1>4. ASSUME NEW i \in 1..Len(buf) PROVE TileAt(i, side).y < side
    <2>1. i \in 1..(side * side)
      BY <1>1, <1>2, <1>3
    <2>2. PICK q \in 0..(side - 1) : q = (i - 1) \div side
      BY <2>1, TileIs
    <2>3. TileAt(i, side).y = q
      BY <2>2 DEF TileAt
    <2>4. QED
      BY <2>3
  <1>5. QED
    BY <1>1, <1>2, <1>3, <1>4

(* The GPU redoes exactly the share of the high-error blocks that the        *)
(* quality asks for, the worst ones, each once, and has a tile for each.     *)
THEOREM WorstFirst == Spec => []RightBlocksRedone
  BY PipelineAlways, WorstRedone, TilesDoFit, PTL DEF RightBlocksRedone
-----------------------------------------------------------------------------
(* The task dispatcher as the pipeline uses it                             *)

MaxParts == Max({PartsOf(i) : i \in Images})

\* Finitely many images have a largest number of parts.
LEMMA PartsBounded ==
    ASSUME IsFiniteSet(Images), NEW i \in Images
    PROVE  MaxParts \in Nat /\ PartsOf(i) \in Nat /\ PartsOf(i) <= MaxParts
  <1> DEFINE X == {PartsOf(a) : a \in Images}
  <1>1. ASSUME NEW a \in Images PROVE PartsOf(a) \in Nat
    <2>1. a.lines \in Nat /\ PartLines \in Nat \ {0} /\ a.lines + PartLines - 1 \in Nat
      BY HybridAssumption
    <2>2. PICK n \in Nat : n = a.lines + PartLines - 1
      BY <2>1
    <2>3. n \div PartLines \in Nat
      BY <2>1, Quotient
    <2>4. QED
      BY <2>2, <2>3 DEF PartsOf
  <1>2. PICK n \in Nat : ExistsSurjection(1..n, Images)
    BY FS_NatSurjection
  <1>3. PICK f \in [1..n -> Images] : \A a \in Images : \E k \in 1..n : f[k] = a
    BY <1>2 DEF ExistsSurjection, Surjection
  <1> DEFINE Y == {k \in 0..n : \E b \in Nat : \A j \in 1..k : PartsOf(f[j]) <= b}
  <1>4. 0 \in Y
    OBVIOUS
  <1>5. ASSUME NEW k \in 0..(n - 1), k \in Y PROVE k + 1 \in Y
    <2>1. PICK b \in Nat : \A j \in 1..k : PartsOf(f[j]) <= b
      BY <1>5
    <2>2. k + 1 \in 1..n /\ k + 1 \in 0..n /\ \A j \in 1..(k + 1) : j \in 1..k \/ j = k + 1
      OBVIOUS
    <2>3. PICK c \in Nat : c = PartsOf(f[k + 1])
      BY <1>1, <2>2
    <2>4. \A j \in 1..k : j \in 1..n
      OBVIOUS
    <2>5. \A j \in 1..k : PartsOf(f[j]) \in Nat
      BY <1>1, <2>4
    <2>6. \A j \in 1..(k + 1) : PartsOf(f[j]) <= b + c
      BY <2>1, <2>2, <2>3, <2>5
    <2>7. b + c \in Nat
      OBVIOUS
    <2>8. QED
      BY <2>2, <2>6, <2>7
  <1>6. n \in Y
    <2>1. \A k \in 0..n : k \in Y
      <3> HIDE DEF Y
      <3> QED
        BY <1>4, <1>5, InductionUpTo
    <2>2. n \in 0..n
      OBVIOUS
    <2> HIDE DEF Y
    <2>3. QED
      BY <2>1, <2>2
  <1>7. PICK b \in Nat : \A j \in 1..n : PartsOf(f[j]) <= b
    BY <1>6
  <1>8. X \subseteq 0..b /\ X # {}
    <2>1. ASSUME NEW a \in Images PROVE PartsOf(a) \in 0..b
      <3>1. PartsOf(a) \in Nat /\ PartsOf(a) <= b
        BY <1>1, <1>3, <1>7
      <3>2. QED
        BY <3>1
    <2>2. QED
      BY <2>1
  <1>9. \E m \in X : \A k \in X : m >= k
    <2>1. PICK m \in X : \A k \in X : k <= m
      <3> HIDE DEF X
      <3> QED
        BY <1>8, LargestNumber
    <2>2. \A k \in X : m >= k
      <3>1. X \subseteq Nat
        BY <1>1
      <3> HIDE DEF X
      <3>2. QED
        BY <2>1, <3>1
    <2> HIDE DEF X
    <2>3. QED
      BY <2>2
  <1>10. MaxParts \in X /\ \A k \in X : MaxParts >= k
    <2>1. MaxParts = CHOOSE m \in X : \A k \in X : m >= k
      BY DEF MaxParts, Max
    <2> HIDE DEF X
    <2>2. QED
      BY <1>9, <2>1
  <1>11. QED
    BY <1>1, <1>10

\* What the pipeline shows of its tasks, and when it is waiting for them.
Submitted == 1..Len(task)
Runs == [j \in 1..MaxParts |-> IF j <= Len(task) /\ task[j].blocks = 0 THEN 1 ELSE 0]
Phase == IF mpc = "sync" THEN "joining" ELSE "open"

LEMMA QueuePartSubmits ==
    ASSUME IsFiniteSet(Images), PipelineInv, QueuePart
    PROVE  \E t \in 1..MaxParts : FJ!Submit(t)
  <1>1. MainInv
    BY DEF PipelineInv
  <1>2. img \in Images /\ task \in Seq(TaskSet)
    BY <1>1 DEF MainInv
  <1>3. PICK n \in Nat : n = Len(task)
    BY <1>2
  <1>4. mpc = "queue" /\ mpc' = "queue" /\ n < parts
    BY <1>3 DEF QueuePart
  <1>5. parts \in Nat /\ parts <= MaxParts /\ MaxParts \in Nat
    BY <1>2, PartsBounded DEF parts
  <1>6. PICK lines : lines = IF PartLines < linesLeft THEN PartLines ELSE linesLeft
    OBVIOUS
  <1>7. PICK t : t = Task(ptr, offset, (width * lines) \div 4) /\ task' = Append(task, t)
    BY <1>6 DEF QueuePart
  <1>8. t.blocks # 0
    <2>1. t.blocks = (width * lines) \div 4
      BY <1>7 DEF Task
    <2>2. linesLeft = img.lines - Least(n * PartLines, img.lines)
      BY <1>1, <1>3 DEF MainInv
    <2>3. Edge(n) + (width * lines) \div 4 = Edge(n + 1)
      BY <1>2, <1>4, <1>6, <2>2, PartLies
    <2>4. Edge(n) < Edge(n + 1) /\ Edge(n) \in Nat /\ Edge(n + 1) \in Nat
      BY <1>2, <1>4, EdgesAre
    <2>5. QED
      BY <2>1, <2>3, <2>4
  <1>9. Len(task') = n + 1 /\ task'[n + 1] = t /\ \A j \in 1..n : task'[j] = task[j]
    BY <1>2, <1>3, <1>7
  <1>10. Submitted' = Submitted \cup {n + 1} /\ n + 1 \notin Submitted /\ n + 1 \in 1..MaxParts
    BY <1>3, <1>4, <1>5, <1>9 DEF Submitted
  <1>11. Runs' = Runs
    <2>1. ASSUME NEW j \in 1..MaxParts
          PROVE  (j <= Len(task') /\ task'[j].blocks = 0) <=> (j <= Len(task) /\ task[j].blocks = 0)
      <3>1. CASE j \in 1..n
        BY <1>3, <1>9, <3>1
      <3>2. CASE j = n + 1
        BY <1>3, <1>8, <1>9, <3>2
      <3>3. CASE j > n + 1
        BY <1>3, <1>5, <1>9, <3>3
      <3>4. QED
        BY <1>5, <3>1, <3>2, <3>3
    <2>2. MaxParts' = MaxParts
      BY DEF MaxParts, Max, PartsOf
    <2>3. QED
      BY <2>1, <2>2 DEF Runs
  <1>12. Phase = "open" /\ Phase' = "open"
    BY <1>4 DEF Phase
  <1>13. FJ!Submit(n + 1)
    BY <1>10, <1>11, <1>12 DEF FJ!Submit, Submitted, Runs, Phase, MaxParts
  <1>14. QED
    BY <1>10, <1>13

LEMMA EncodeBlockExecutes ==
    ASSUME IsFiniteSet(Images), PipelineInv, NEW j \in 1..Len(task), EncodeBlock(j)
    PROVE  (FJ!Execute(j) /\ j \in 1..MaxParts) \/ UNCHANGED FJ!fjvars
  <1>1. MainInv
    BY DEF PipelineInv
  <1>2. img \in Images /\ task[j].blocks > 0
    BY <1>1 DEF MainInv, EncodeBlock
  <1>3. parts \in Nat /\ parts <= MaxParts /\ MaxParts \in Nat
    BY <1>2, PartsBounded DEF parts
  <1>4. j \in 1..parts /\ Len(task) \in Nat /\ mpc \in {"queue", "sync"} /\ task[j] \in TaskSet
    BY <1>2, TaskAt
  <1>5. PICK b \in Nat : b = task[j].blocks
    BY <1>4 DEF TaskSet
  <1>6. /\ Len(task') = Len(task) /\ task'[j].blocks = b - 1
        /\ \A i \in 1..Len(task) : i # j => task'[i] = task[i]
    <2>1. PICK c : c = Cur(j)
      OBVIOUS
    <2>2. /\ Len(task') = Len(task)
          /\ task'[j] = [src |-> SrcOf(c + 1), dst |-> wordsPerBlock * (c + 1),
                         w |-> (c + 1) % img.bw, blocks |-> task[j].blocks - 1]
          /\ \A i \in 1..Len(task) : i # j => task'[i] = task[i] /\ Cur(i)' = Cur(i)
      BY <2>1, PendingAfter
    <2>3. QED
      BY <1>5, <2>2
  <1>7. j \in 1..MaxParts /\ mpc' = mpc /\ MaxParts' = MaxParts
    BY <1>3, <1>4 DEF EncodeBlock, MaxParts, Max, PartsOf
  <1>8. Submitted' = Submitted /\ Phase' = Phase /\ Phase \in {"open", "joining"} /\ j \in Submitted
    BY <1>6, <1>7 DEF Submitted, Phase
  <1>9. Runs \in [1..MaxParts -> {0, 1}] /\ Runs[j] = 0
    BY <1>2, <1>7 DEF Runs
  <1>10. Runs' = [Runs EXCEPT ![j] = IF b = 1 THEN 1 ELSE 0]
    <2>1. PICK r : r = IF b = 1 THEN 1 ELSE 0
      OBVIOUS
    <2>2. ASSUME NEW i \in 1..MaxParts
          PROVE  (IF i <= Len(task') /\ task'[i].blocks = 0 THEN 1 ELSE 0) = [Runs EXCEPT ![j] = r][i]
      <3>1. CASE i = j
        BY <1>2, <1>4, <1>5, <1>6, <1>9, <2>1, <3>1
      <3>2. CASE i # j /\ i \in 1..Len(task)
        BY <1>6, <3>2 DEF Runs
      <3>3. CASE i # j /\ i \notin 1..Len(task)
        <4>1. ~(i <= Len(task))
          BY <1>3, <1>4, <3>3
        <4>2. QED
          BY <1>6, <3>3, <4>1 DEF Runs
      <3>4. QED
        BY <3>1, <3>2, <3>3
    <2>3. Runs' = [i \in 1..MaxParts |-> IF i <= Len(task') /\ task'[i].blocks = 0 THEN 1 ELSE 0]
      BY <1>7 DEF Runs
    <2>4. PICK s : s = [Runs EXCEPT ![j] = r]
      OBVIOUS
    <2>5. s = [i \in 1..MaxParts |-> s[i]]
      BY <1>9, <2>4
    <2>6. QED
      BY <2>1, <2>2, <2>3, <2>4, <2>5
  <1>11. CASE b = 1
    <2>1. Runs' = [Runs EXCEPT ![j] = 1]
      BY <1>10, <1>11
    <2>2. FJ!Execute(j)
      BY <1>8, <1>9, <2>1 DEF FJ!Execute, Submitted, Runs, Phase, MaxParts
    <2>3. QED
      BY <1>7, <2>2
  <1>12. CASE b # 1
    <2>1. Runs' = Runs
      BY <1>9, <1>10, <1>12
    <2>2. QED
      BY <1>8, <2>1 DEF FJ!fjvars, Submitted, Runs, Phase, MaxParts
  <1>13. QED
    BY <1>11, <1>12

LEMMA StepSimulation ==
    ASSUME IsFiniteSet(Images), PipelineInv, [Next]_vars
    PROVE  [FJ!Next]_(FJ!fjvars)
  <1>1. MaxParts' = MaxParts
    BY DEF MaxParts, Max, PartsOf
  <1>2. ASSUME task' = task, Phase' = Phase PROVE UNCHANGED FJ!fjvars
    BY <1>1, <1>2 DEF FJ!fjvars, Phase, MaxParts
  <1>3. CASE QueuePart
    <2>1. PICK t \in 1..MaxParts : FJ!Submit(t)
      BY <1>3, QueuePartSubmits
    <2>2. QED
      BY <2>1 DEF FJ!Next, MaxParts
  <1>4. ASSUME NEW j \in 1..Len(task), EncodeBlock(j) PROVE [FJ!Next]_(FJ!fjvars)
    <2>1. (FJ!Execute(j) /\ j \in 1..MaxParts) \/ UNCHANGED FJ!fjvars
      BY <1>4, EncodeBlockExecutes
    <2>2. QED
      BY <2>1 DEF FJ!Next, MaxParts
  <1>5. CASE SyncCall
    <2>1. FJ!Join
      BY <1>1, <1>5 DEF SyncCall, FJ!Join, MaxParts
    <2>2. QED
      BY <2>1 DEF FJ!Next
  <1>6. CASE SyncAndJoin
    <2>1. /\ mpc = "sync" /\ mpc' = "select" /\ AllEncoded /\ UNCHANGED task
      BY <1>6 DEF SyncAndJoin
    <2>2. MainInv /\ img \in Images
      BY DEF PipelineInv, MainInv
    <2>3. Len(task) \in Nat /\ Len(task) <= parts
      BY <2>2 DEF MainInv
    <2>4. parts \in Nat /\ parts <= MaxParts /\ MaxParts \in Nat
      BY <2>2, PartsBounded DEF parts
    <2>5. \A j \in 1..Len(task) : j \in 1..MaxParts /\ j <= Len(task) /\ task[j].blocks = 0
      BY <2>1, <2>3, <2>4 DEF AllEncoded
    <2>6. \A j \in 1..Len(task) : Runs[j] = 1
      BY <2>5 DEF Runs
    <2>7. FJ!AllExecuted
      BY <2>6 DEF FJ!AllExecuted, Runs, MaxParts
    <2>8. FJ!Joined
      BY <1>1, <2>1, <2>7 DEF FJ!Joined, MaxParts
    <2>9. QED
      BY <2>8 DEF FJ!Next
  <1>7. CASE Select \/ RunGpu \/ SaveToOffset \/ Finish \/ Terminated \/ UNCHANGED vars
    <2>1. task' = task /\ Phase' = Phase
      BY <1>7 DEF Select, RunGpu, SaveToOffset, Finish, Terminated, vars, Phase
    <2>2. QED
      BY <1>2, <2>1
  <1>8. QED
    BY <1>3, <1>4, <1>5, <1>6, <1>7 DEF Next, MainStep

(* For finitely many images, the pipeline uses the task dispatcher as        *)
(* ForkJoin describes it.                                                    *)
THEOREM PipelineForksAndJoins ==
    ASSUME IsFiniteSet(Images)
    PROVE  Spec => UsesForkJoin
  <1>1. Init => FJ!Init
    <2> SUFFICES ASSUME Init PROVE FJ!Init
      OBVIOUS
    <2>1. Len(task) = 0 /\ mpc = "queue"
      BY DEF Init
    <2>2. img \in Images
      BY DEF Init
    <2>3. MaxParts \in Nat
      BY <2>2, PartsBounded
    <2>4. Submitted = {} /\ Runs = [j \in 1..MaxParts |-> 0] /\ Phase = "open"
      BY <2>1, <2>3 DEF Submitted, Runs, Phase
    <2>5. QED
      BY <2>4 DEF FJ!Init, Submitted, Runs, Phase, MaxParts
  <1>2. PipelineInv /\ [Next]_vars => [FJ!Next]_(FJ!fjvars)
    BY StepSimulation
  <1>3. QED
    BY PipelineAlways, <1>1, <1>2, PTL DEF Spec, UsesForkJoin, FJ!Spec
=============================================================================
