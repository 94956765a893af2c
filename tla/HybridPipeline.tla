--------------------------- MODULE HybridPipeline ---------------------------
(***************************************************************************)
(* The compression of one file by the CPU and the GPU together (the betsy  *)
(* mode of Application.cpp on a single file).                              *)
(*                                                                         *)
(* The main thread cuts the image into parts of PartLines block rows and   *)
(* queues one task a part.  A task walks over its blocks, writes the word  *)
(* of each one into the output, and copies the blocks that it encoded with *)
(* a high error into the PixBlock array of its part.  After Sync the main  *)
(* thread joins the arrays, keeps the fraction with the highest errors     *)
(* that the quality asks for, tiles their pixels into one square GPU       *)
(* image, and writes the GPU's words over those of the CPU, each through   *)
(* the address that its PixBlock remembers.                                *)
(*                                                                         *)
(* Pixels are their positions in m_data: the row of a block is the         *)
(* position of its first pixel, so that encoding the wrong block, or the   *)
(* rows of a block in the wrong order, gives a different word.             *)
(***************************************************************************)
EXTENDS Integers, Sequences, FiniteSets, SequencesExt, FiniteSetsExt

CONSTANTS Images,      \* set of [bw, lines, rgba]: blocks a row, block rows, --rgba
          Qualities,   \* set of <<num, den>>: the values of qualityRatio
          MaxError,    \* errors are 0 (not high) .. MaxError
          PartLines    \* 32 in the code

ASSUME HybridAssumption ==
    /\ PartLines \in Nat \ {0} /\ MaxError \in Nat
    /\ \A i \in Images : /\ i.bw \in Nat \ {0} /\ i.lines \in Nat \ {0}
                         /\ i.rgba \in BOOLEAN
    /\ \A q \in Qualities : q[2] \in Nat \ {0} /\ q[1] \in 1..q[2]

VARIABLES
    img,        \* the image
    err,        \* the error that encoding a block on the CPU leaves
    quality,    \* qualityRatio
    ptr,        \* the main loop's ptr, a position in m_data
    offset,     \* the main loop's offset, in blocks
    linesLeft,  \* the main loop's linesLeft
    task,       \* the encoder tasks queued so far, see Task
    pixelMat,   \* per part, the PixBlocks of its task; sizeArr is its length
    out,        \* the words of the output file
    pipe,       \* finalPipe
    buf,        \* the PixBlocks that go to the GPU
    result,     \* the words that the GPU computed
    saved,      \* how many of them are written back
    mpc         \* "queue", "sync", "select", "gpu", "save", "done"

vars == <<img, err, quality, ptr, offset, linesLeft, task, pixelMat, out, pipe,
          buf, result, saved, mpc>>

width == 4 * img.bw
numBlocks == img.bw * img.lines
PartsOf(i) == (i.lines + PartLines - 1) \div PartLines
parts == PartsOf(img)
wordsPerBlock == IF img.rgba THEN 2 ELSE 1
Words(i) == 0..((IF i.rgba THEN 2 ELSE 1) * i.bw * i.lines - 1)
unwritten == [by |-> "none", rows |-> <<>>]

Init ==
    /\ img \in Images
    /\ err \in [0..(img.bw * img.lines - 1) -> 0..MaxError]
    /\ quality \in Qualities
    /\ ptr = 0 /\ offset = 0 /\ linesLeft = img.lines
    /\ task = <<>>
    /\ pixelMat = [j \in 1..parts |-> <<>>]
    /\ out = [i \in Words(img) |-> unwritten]
    /\ pipe = <<>> /\ buf = <<>> /\ result = <<>>
    /\ saved = 0
    /\ mpc = "queue"
-----------------------------------------------------------------------------
(* The arguments of Process or ProcessRGBA and the state of the do-while     *)
(* loop of CompressEtc2Rgb(a): src, dst, the column w and the blocks left.   *)
Task_OneWord(src, off, blocks) ==
    [src |-> src, dst |-> off, w |-> 0, blocks |-> blocks]
Task(src, off, blocks) ==
    [src |-> src, dst |-> off * wordsPerBlock, w |-> 0, blocks |-> blocks]

\* ptr += width * lines * 4
NextPtr(p, lines) == p + width * lines * 4

(* taskDispatch.Queue of one part. *)
QueuePart ==
    LET lines == IF PartLines < linesLeft THEN PartLines ELSE linesLeft
    IN  /\ mpc = "queue" /\ Len(task) < parts
        /\ task' = Append(task, Task(ptr, offset, (width * lines) \div 4))
        /\ linesLeft' = linesLeft - lines
        /\ ptr' = NextPtr(ptr, lines)
        /\ offset' = offset + (width * lines) \div 4
        /\ UNCHANGED <<img, err, quality, pixelMat, out, pipe, buf, result, saved, mpc>>

(* The loop is over: taskDispatch.Sync is called. *)
SyncCall ==
    /\ mpc = "queue" /\ Len(task) = parts
    /\ mpc' = "sync"
    /\ UNCHANGED <<img, err, quality, ptr, offset, linesLeft, task, pixelMat, out, pipe,
                   buf, result, saved>>

\* The four rows of the block at src.
Rows(src) == [y \in 1..4 |-> src + width * (y - 1)]

\* The number of the block whose first pixel is at src.
BlockAt(src) == (src \div (4 * width)) * img.bw + (src % width) \div 4

\* src after a block: 4 to the right, or the first block of the next row.
NextSrc(src, w) == src + 4 + (IF w + 1 = width \div 4 THEN 3 * width ELSE 0)

\* srcBuffer is filled from its last row to its first one.
PixelRows(rows) == Reverse(rows)

\* pb.address = dst
PixBlock_PastEnd(address, e, rows) ==
    [address |-> address + 1, error |-> e, bgrData |-> PixelRows(rows)]
PixBlock(address, e, rows) == [address |-> address, error |-> e, bgrData |-> PixelRows(rows)]

(* One turn of the loop of the task of part j: the alpha word comes first,   *)
(* the colour word follows, and a block with a high error is also pushed to  *)
(* the array of the part.                                                    *)
EncodeBlock(j) ==
    LET t == task[j]
        e == err[BlockAt(t.src)]
        word == [by |-> "cpu", rows |-> Rows(t.src)]
        colour == t.dst + wordsPerBlock - 1
    IN  /\ t.blocks > 0
        /\ out' = IF img.rgba
                  THEN [out EXCEPT ![t.dst] = [by |-> "alpha", rows |-> Rows(t.src)],
                                   ![colour] = word]
                  ELSE [out EXCEPT ![colour] = word]
        /\ pixelMat' = IF e > 0
                       THEN [pixelMat EXCEPT ![j] = Append(@, PixBlock(colour, e, Rows(t.src)))]
                       ELSE pixelMat
        /\ task' = [task EXCEPT ![j] = [src |-> NextSrc(t.src, t.w), dst |-> colour + 1,
                                        w |-> (t.w + 1) % (width \div 4),
                                        blocks |-> t.blocks - 1]]
        /\ UNCHANGED <<img, err, quality, ptr, offset, linesLeft, pipe, buf, result, saved, mpc>>

\* Sync returns when every task has run to its end.
AllEncoded_FirstPart == task[1].blocks = 0
AllEncoded == \A j \in 1..Len(task) : task[j].blocks = 0

(* Sync returns, and the memcpy loop joins the arrays of the parts. *)
SyncAndJoin ==
    /\ mpc = "sync" /\ AllEncoded
    /\ pipe' = FlattenSeq(pixelMat)
    /\ mpc' = "select"
    /\ UNCHANGED <<img, err, quality, ptr, offset, linesLeft, task, pixelMat, out, buf, result, saved>>
-----------------------------------------------------------------------------
\* uint64_t limit = pipeSize * quality
Limit(n) == (n * quality[1]) \div quality[2]

\* cmp
Cmp_Ascending(a, b) == a.error < b.error
Cmp(a, b) == a.error > b.error

(* std::sort is not stable: any order without an inversion may come out. *)
Sorted(s) == \A i, k \in 1..Len(s) : i < k => ~Cmp(s[k], s[i])

Shuffles(s) == {[i \in 1..Len(s) |-> s[p[i]]] :
                   p \in {f \in [1..Len(s) -> 1..Len(s)] : IsInjective(f)}}

(* The first lines of ProcessWithGPU: buf is the head of the pipeline, which *)
(* is sorted in place unless everything is taken.                            *)
Select ==
    /\ mpc = "select"
    /\ IF quality[1] < quality[2]
       THEN pipe' \in {s \in Shuffles(pipe) : Sorted(s)}
       ELSE UNCHANGED pipe
    /\ buf' = SubSeq(pipe', 1, Limit(Len(pipe)))
    /\ mpc' = "gpu"
    /\ UNCHANGED <<img, err, quality, ptr, offset, linesLeft, task, pixelMat, out, result, saved>>

\* (int)sqrt( limit ); the GPU image has one block more on each side.
Sqrt(n) == Max({a \in 0..n : a * a <= n})
SideOf_NoSpare(n) == Sqrt(n)
SideOf(n) == Sqrt(n) + 1

\* image_offset_x and image_offset_y, in blocks, of the i-th block.
TileAt(i, side) == [x |-> (i - 1) % side, y |-> (i - 1) \div side]

(* GpuImage: per scanline and block column, the row of a block or 0 (the    *)
(* array is zeroed).  Row y of bgrData lands in row 3 - y of its tile.       *)
GpuImage_Upside(b, side) ==
    [r \in 0..(4 * side - 1) |-> [x \in 0..(side - 1) |->
        LET i == (r \div 4) * side + x + 1
        IN  IF i \in 1..Len(b) THEN b[i].bgrData[(r % 4) + 1] ELSE 0]]
GpuImage(b, side) ==
    [r \in 0..(4 * side - 1) |-> [x \in 0..(side - 1) |->
        LET i == CHOOSE k \in 1..(side * side) : TileAt(k, side) = [x |-> x, y |-> r \div 4]
        IN  IF i \in 1..Len(b) THEN b[i].bgrData[4 - (r % 4)] ELSE 0]]

(* FreeImage keeps a top-down raw image bottom-up, and RGB8toRGBA8 inverts   *)
(* the scanlines once more.                                                  *)
FlipRows(image, side) ==
    [r \in 0..(4 * side - 1) |-> image[4 * side - 1 - r]]
CpuImage(image, side) == FlipRows(FlipRows(image, side), side)

(* The shaders encode every block of the texture on its own, and the staging *)
(* buffer holds the words of the texture row by row.                         *)
DownloadData(image, side) ==
    [k \in 1..(side * side) |->
        [by |-> "gpu", rows |-> [y \in 1..4 |-> image[4 * ((k - 1) \div side) + y - 1][(k - 1) % side]]]]

(* The rest of ProcessWithGPU up to getDownloadData, which ends in glFinish. *)
RunGpu ==
    LET side == SideOf(Len(buf))
    IN  /\ mpc = "gpu"
        /\ result' = DownloadData(CpuImage(GpuImage(buf, side), side), side)
        /\ mpc' = "save"
        /\ UNCHANGED <<img, err, quality, ptr, offset, linesLeft, task, pixelMat, out, pipe, buf, saved>>

(* One turn of the loop with saveToOffset. *)
SaveToOffset ==
    /\ mpc = "save" /\ saved < Len(buf)
    /\ out' = [out EXCEPT ![buf[saved + 1].address] = result[saved + 1]]
    /\ saved' = saved + 1
    /\ UNCHANGED <<img, err, quality, ptr, offset, linesLeft, task, pixelMat, pipe, buf, result, mpc>>

(* The loop is over; buf, GpuImage and the arrays of the parts are deleted. *)
Finish ==
    /\ mpc = "save" /\ saved = Len(buf)
    /\ mpc' = "done"
    /\ UNCHANGED <<img, err, quality, ptr, offset, linesLeft, task, pixelMat, out, pipe, buf, result, saved>>

MainStep == QueuePart \/ SyncCall \/ SyncAndJoin \/ Select \/ RunGpu \/ SaveToOffset \/ Finish

Terminated == mpc = "done" /\ UNCHANGED vars

Next == MainStep \/ (\E j \in 1..Len(task) : EncodeBlock(j)) \/ Terminated

Spec == Init /\ [][Next]_vars
-----------------------------------------------------------------------------
WordSet == [by : {"none", "alpha", "cpu", "gpu"}, rows : Seq(Nat)]
PixBlockSet == [address : Words(img), error : 1..MaxError, bgrData : Seq(Nat)]

(* Every variable ranges over the values the code can give it: positions and *)
(* addresses stay inside their buffers, and the counters never pass zero.    *)
TypeOK ==
    /\ img \in Images /\ quality \in Qualities
    /\ err \in [0..(numBlocks - 1) -> 0..MaxError]
    /\ ptr \in 0..(width * 4 * img.lines) /\ offset \in 0..numBlocks
    /\ linesLeft \in 0..img.lines
    /\ \A j \in 1..Len(task) : /\ task[j].src \in 0..(width * 4 * img.lines)
                               /\ task[j].dst \in 0..(wordsPerBlock * numBlocks)
                               /\ task[j].blocks \in 0..numBlocks
    /\ DOMAIN out = Words(img) /\ \A i \in Words(img) : out[i] \in WordSet
    /\ \A j \in 1..parts : pixelMat[j] \in Seq(PixBlockSet)
    /\ pipe \in Seq(PixBlockSet) /\ buf \in Seq(PixBlockSet)
    /\ result \in Seq(WordSet)
    /\ saved \in 0..Len(buf)
    /\ mpc \in {"queue", "sync", "select", "gpu", "save", "done"}

\* The rows of the block with number b, from the layout of the image alone.
BlockRows(b) == [y \in 1..4 |-> (4 * (b \div img.bw) + y - 1) * width + 4 * (b % img.bw)]

\* The word of the output that holds the colours of block b.
ColourWord(b) == wordsPerBlock * b + wordsPerBlock - 1

(* The words that are in the output always belong there: each one encodes    *)
(* the rows, in their order, of the block whose place it has in the file,    *)
(* whatever tasks are still running and however far the write-back is; an    *)
(* alpha word is never overwritten by a colour.                              *)
WordsBelong ==
    \A b \in 0..(numBlocks - 1) :
        /\ out[ColourWord(b)] # unwritten => /\ out[ColourWord(b)].rows = BlockRows(b)
                                             /\ out[ColourWord(b)].by \in {"cpu", "gpu"}
        /\ img.rgba /\ out[2 * b] # unwritten => out[2 * b] = [by |-> "alpha", rows |-> BlockRows(b)]

(* When the GPU's part begins no word of the file is missing.                *)
NothingMissing == mpc \notin {"queue", "sync"} => \A i \in Words(img) : out[i] # unwritten

(* The file is right at every moment as far as it should be there by then.   *)
FileIsRight == WordsBelong /\ NothingMissing

\* The blocks whose words come from the GPU.
GpuBlocks == {b \in 0..(numBlocks - 1) : out[ColourWord(b)].by = "gpu"}
HighError == {b \in 0..(numBlocks - 1) : err[b] > 0}

(* At the end the GPU has redone exactly the share of the high-error blocks  *)
(* that the quality asks for, each of them once, and no block that it left   *)
(* out is worse than one it redid.                                           *)
WorstBlocksRedone ==
    mpc = "done" =>
        /\ GpuBlocks \subseteq HighError
        /\ Cardinality(GpuBlocks) = (Cardinality(HighError) * quality[1]) \div quality[2]
        /\ \A g \in GpuBlocks, b \in HighError \ GpuBlocks : err[g] >= err[b]

(* The tiles of the GPU image: all selected blocks fit, and there is a word  *)
(* in the download for each of them.                                         *)
TilesFit ==
    mpc = "save" => /\ Len(buf) <= Len(result)
                    /\ \A i \in 1..Len(buf) : TileAt(i, SideOf(Len(buf))).y < SideOf(Len(buf))

(* The GPU gets room for what it is asked to redo, and what it is asked to   *)
(* redo are the worst blocks.                                                *)
RightBlocksRedone == WorstBlocksRedone /\ TilesFit

(* The tasks run in parallel without a lock: until the write-back a step     *)
(* only ever writes words that nobody has written, and after it, only words  *)
(* that the CPU has written.                                                 *)
WrittenOnce ==
    [][\A i \in Words(img) : out'[i] # out[i] =>
          IF mpc = "save" THEN out[i].by = "cpu" ELSE out[i] = unwritten]_vars

(* The pipeline uses the task dispatcher as ForkJoin describes it: a part's  *)
(* task is submitted once, finishes once, and nothing after Sync starts      *)
(* before all of them have finished.                                         *)
FJ == INSTANCE ForkJoin
        WITH Tasks <- 1..Max({PartsOf(i) : i \in Images}),
             submitted <- 1..Len(task),
             runs <- [j \in 1..Max({PartsOf(i) : i \in Images}) |->
                         IF j <= Len(task) /\ task[j].blocks = 0 THEN 1 ELSE 0],
             phase <- IF mpc = "sync" THEN "joining" ELSE "open"

UsesForkJoin == FJ!Spec
=============================================================================
