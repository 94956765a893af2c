---------------------------- MODULE DataProvider ----------------------------
(***************************************************************************)
(* How an image reaches the encoder tasks: DataProvider::NextPart cuts the *)
(* current mip level into parts, while one std::async loader per level     *)
(* decodes (PNG) or downsamples (mip levels) its rows in the background.   *)
(* A loader announces rows through the Semaphore of its Bitmap; NextBlock  *)
(* takes one permit for a part.  The main thread queues one encoder task a *)
(* part, calls Sync, and destroys the DataProvider.                        *)
(*                                                                         *)
(* One level is a record:                                                  *)
(*   x, y     m_size          lines   m_lines        left   m_linesLeft    *)
(*   block    m_block - m_data, in pixels                                  *)
(*   loaded   4-row lines that are in m_data                               *)
(*   acc      the loader's local counter "lines"                           *)
(*   sema     m_sema.m_count                                               *)
(*   load     the loader of m_load: "none" (there is no future), "wait"    *)
(*            (in Data() of the source level), "read", "signal", "end",    *)
(*            "done"                                                       *)
(*   alive    m_data is not deleted                                        *)
(***************************************************************************)
EXTENDS MipGeometry, Sequences, FiniteSets

CONSTANTS Images,   \* set of [x, y, mip, raw]: size, -m given, raw4 or PNG
          Lines     \* the initial m_lines of DataProvider (32 in the code)

(* The constructors assert that both dimensions are multiples of 4. *)
ASSUME ImagesAssumption ==
    /\ Lines \in Nat \ {0}
    /\ \A i \in Images : /\ i.x \in Nat \ {0} /\ i.x % 4 = 0
                         /\ i.y \in Nat \ {0} /\ i.y % 4 = 0
                         /\ i.mip \in BOOLEAN /\ i.raw \in BOOLEAN

VARIABLES
    img,      \* the image that is compressed
    bmp,      \* m_bmp; m_current is the last one
    lines,    \* DataProvider::m_lines
    offset,   \* m_offset, in blocks
    done,     \* m_done
    parts,    \* the parts handed out so far
    pending,  \* the indices of parts whose encoder task is not finished
    mpc,      \* the main thread: "loop", "asleep", "free", "join", "gone"
    freed     \* how many levels the destructor has dealt with

vars == <<img, bmp, lines, offset, done, parts, pending, mpc, freed>>

cur == Len(bmp)
-----------------------------------------------------------------------------
(* Bitmap's constructor, PNG: the rows come from an asynchronous loader. *)
PngBitmap(x, y, m) ==
    [x |-> x, y |-> y, lines |-> m, left |-> y \div 4, block |-> 0,
     loaded |-> 0, acc |-> 0, sema |-> 0, load |-> "read", alive |-> TRUE]

(* Bitmap's constructor, raw4: all rows are there, one permit a line. *)
RawBitmap(x, y, m) ==
    [PngBitmap(x, y, m) EXCEPT !.loaded = y \div 4, !.sema = y \div 4, !.load = "none"]

(* BitmapDownsampled's constructor: a level below the block size is cleared  *)
(* at once, any other one is filled by a loader that first waits for src.    *)
BitmapDownsampled(src, m) ==
    LET x == Half(src.x)
        y == Half(src.y)
        level == [PngBitmap(x, y, m) EXCEPT !.left = LinesOf(y)]
    IN  IF x < 4 \/ y < 4
        THEN [level EXCEPT !.loaded = LinesOf(y), !.load = "none",
                           !.sema = SmallLevelPermits(AtLeast4(y), m)]
        ELSE [level EXCEPT !.load = "wait"]

Init ==
    /\ img \in Images
    /\ lines = Lines
    /\ bmp = <<IF img.raw THEN RawBitmap(img.x, img.y, Lines)
                          ELSE PngBitmap(img.x, img.y, Lines)>>
    /\ offset = 0
    /\ done = FALSE
    /\ parts = <<>>
    /\ pending = {}
    /\ mpc = "loop"
    /\ freed = 0

\* The bound of the application's loop, computed before the first NextPart.
Num == NumberOfParts(img.x, img.y, Lines, img.mip)

(* m_offset += m_current->Size().x / 4 * lines, before m_current changes. *)
NextOffset_AfterSwitch(b, n) == offset + (Half(b.x) \div 4) * n
NextOffset(b, n) == offset + (b.x \div 4) * n

(* Semaphore::lock finds no permit: the main thread waits on m_cv. *)
SemaphoreWait ==
    /\ mpc = "loop" /\ Len(parts) < Num
    /\ bmp[cur].sema = 0
    /\ mpc' = "asleep"
    /\ UNCHANGED <<img, bmp, lines, offset, done, parts, pending, freed>>

(* NextPart with the NextBlock it calls, then Queue of the part's task. *)
NextPart ==
    LET b == bmp[cur]
        n == IF b.lines < b.left THEN b.lines ELSE b.left
        drained == b.left = n
        more == img.mip /\ (b.x # 1 \/ b.y # 1)
        taken == [bmp EXCEPT ![cur].sema = @ - 1, ![cur].left = @ - n,
                             ![cur].block = @ + b.x * 4 * n]
    IN  /\ mpc = "loop" /\ Len(parts) < Num
        /\ b.sema > 0
        /\ parts' = Append(parts, [level |-> cur, src |-> b.block, width |-> AtLeast4(b.x),
                                   lines |-> n, offset |-> offset])
        /\ pending' = pending \cup {Len(parts) + 1}
        /\ offset' = NextOffset(b, n)
        /\ bmp' = IF drained /\ more THEN Append(taken, BitmapDownsampled(b, 2 * lines))
                                     ELSE taken
        /\ lines' = IF drained /\ more THEN 2 * lines ELSE lines
        /\ done' = (done \/ (drained /\ ~more))
        /\ UNCHANGED <<img, mpc, freed>>

(* A worker encodes a part: it reads part.src and writes at part.offset. *)
EncodePart(p) ==
    /\ p \in pending
    /\ pending' = pending \ {p}
    /\ UNCHANGED <<img, bmp, lines, offset, done, parts, mpc, freed>>

(* The loop is over and Sync returns. *)
Sync_NotWaiting ==
    /\ mpc = "loop" /\ Len(parts) = Num
    /\ mpc' = "free"
    /\ UNCHANGED <<img, bmp, lines, offset, done, parts, pending, freed>>
Sync ==
    /\ mpc = "loop" /\ Len(parts) = Num
    /\ pending = {}
    /\ mpc' = "free"
    /\ UNCHANGED <<img, bmp, lines, offset, done, parts, pending, freed>>

(* ~Bitmap, level by level: delete[] m_data comes first, *)
FreeData ==
    /\ mpc = "free" /\ freed < Len(bmp)
    /\ bmp' = [bmp EXCEPT ![freed + 1].alive = FALSE]
    /\ mpc' = "join"
    /\ UNCHANGED <<img, lines, offset, done, parts, pending, freed>>

(* and the destructor of m_load waits for the loader afterwards. *)
JoinLoader ==
    /\ mpc = "join"
    /\ bmp[freed + 1].load \in {"none", "done"}
    /\ freed' = freed + 1
    /\ mpc' = IF freed' = Len(bmp) THEN "gone" ELSE "free"
    /\ UNCHANGED <<img, bmp, lines, offset, done, parts, pending>>
-----------------------------------------------------------------------------
(* Semaphore::unlock: one more permit, and notify_one under its mutex. *)
Unlock(level) == [level EXCEPT !.sema = @ + 1]
WakeMain(k) == mpc' = IF mpc = "asleep" /\ k = cur THEN "loop" ELSE mpc

(* bmp.Data() in the downsampling loader waits for the loader of the source. *)
LoadStart(k) ==
    /\ bmp[k].load = "wait"
    /\ bmp[k - 1].load \in {"none", "done"}
    /\ bmp' = [bmp EXCEPT ![k].load = "read"]
    /\ UNCHANGED <<img, lines, offset, done, parts, pending, mpc, freed>>

\* Whether enough lines have come in for a whole part.
PartComplete_OneEarly(acc, m) == acc >= m - 1
PartComplete(acc, m) == acc >= m

(* Four rows are decoded or downsampled into m_data; lines++. *)
LoadRows_OneMore(k) ==
    /\ bmp[k].load = "read" /\ bmp[k].loaded <= LinesOf(bmp[k].y)
    /\ bmp' = [bmp EXCEPT ![k].loaded = @ + 1, ![k].acc = @ + 1,
                          ![k].load = IF PartComplete(bmp[k].acc + 1, bmp[k].lines)
                                      THEN "signal" ELSE "read"]
    /\ UNCHANGED <<img, lines, offset, done, parts, pending, mpc, freed>>
LoadRows(k) ==
    /\ bmp[k].load = "read" /\ bmp[k].loaded < LinesOf(bmp[k].y)
    /\ bmp' = [bmp EXCEPT ![k].loaded = @ + 1, ![k].acc = @ + 1,
                          ![k].load = IF PartComplete(bmp[k].acc + 1, bmp[k].lines)
                                      THEN "signal" ELSE "read"]
    /\ UNCHANGED <<img, lines, offset, done, parts, pending, mpc, freed>>

(* A whole part is there: lines = 0, m_sema.unlock(). *)
LoadSignal(k) ==
    /\ bmp[k].load = "signal"
    /\ bmp' = [bmp EXCEPT ![k] = [Unlock(@) EXCEPT !.acc = 0, !.load = "read"]]
    /\ WakeMain(k)
    /\ UNCHANGED <<img, lines, offset, done, parts, pending, freed>>

(* All rows are there; the last, shorter part needs a permit of its own. *)
LoadTail_Forgotten(k) ==
    /\ bmp[k].load = "read" /\ bmp[k].loaded = LinesOf(bmp[k].y)
    /\ bmp' = [bmp EXCEPT ![k].load = "end"]
    /\ UNCHANGED <<img, lines, offset, done, parts, pending, mpc, freed>>
LoadTail(k) ==
    /\ bmp[k].load = "read" /\ bmp[k].loaded = LinesOf(bmp[k].y)
    /\ IF bmp[k].acc # 0
       THEN bmp' = [bmp EXCEPT ![k] = [Unlock(@) EXCEPT !.load = "end"]] /\ WakeMain(k)
       ELSE bmp' = [bmp EXCEPT ![k].load = "end"] /\ UNCHANGED mpc
    /\ UNCHANGED <<img, lines, offset, done, parts, pending, freed>>

(* The loader closes the file (level 0) and returns; its future is ready. *)
LoadEnd(k) ==
    /\ bmp[k].load = "end"
    /\ bmp' = [bmp EXCEPT ![k].load = "done"]
    /\ UNCHANGED <<img, lines, offset, done, parts, pending, mpc, freed>>

LoaderStep(k) == LoadStart(k) \/ LoadRows(k) \/ LoadSignal(k) \/ LoadTail(k) \/ LoadEnd(k)

MainStep == SemaphoreWait \/ NextPart \/ Sync \/ FreeData \/ JoinLoader

(* The wait of Semaphore::lock may end without a notification. *)
SpuriousWakeup ==
    /\ mpc = "asleep"
    /\ mpc' = "loop"
    /\ UNCHANGED <<img, bmp, lines, offset, done, parts, pending, freed>>

Terminated == mpc = "gone" /\ UNCHANGED vars

Next ==
    \/ MainStep
    \/ \E k \in 1..Len(bmp) : LoaderStep(k)
    \/ \E p \in pending : EncodePart(p)
    \/ SpuriousWakeup
    \/ Terminated

Spec == Init /\ [][Next]_vars

(* Threads that can step do; spurious wakeups are finitely many. *)
Fairness ==
    /\ WF_vars(MainStep)
    /\ WF_vars(\E k \in 1..Len(bmp) : LoaderStep(k))
    /\ WF_vars(\E p \in pending : EncodePart(p))
    /\ <>[][~SpuriousWakeup]_vars

FairSpec == Spec /\ Fairness
-----------------------------------------------------------------------------
LoadPC == {"none", "wait", "read", "signal", "end", "done"}

(* Every variable ranges over the values the code can give it; the unsigned  *)
(* m_linesLeft and m_count never wrap.                                       *)
TypeOK ==
    /\ img \in Images
    /\ lines \in Nat /\ offset \in Nat /\ freed \in 0..Len(bmp)
    /\ done \in BOOLEAN
    /\ mpc \in {"loop", "asleep", "free", "join", "gone"}
    /\ pending \subseteq 1..Len(parts)
    /\ \A k \in 1..Len(bmp) :
          /\ {bmp[k].x, bmp[k].y, bmp[k].lines} \subseteq Nat \ {0}
          /\ {bmp[k].left, bmp[k].block, bmp[k].acc, bmp[k].sema} \subseteq Nat
          /\ bmp[k].loaded \in 0..LinesOf(bmp[k].y)
          /\ bmp[k].load \in LoadPC
          /\ bmp[k].alive \in BOOLEAN

(* A task is only ever given rows that its loader has finished: the permits  *)
(* never run ahead of the rows, for any part, on any level.                  *)
PartsAreLoaded ==
    \A p \in 1..Len(parts) :
        LET b == bmp[parts[p].level]
        IN  parts[p].src + parts[p].width * 4 * parts[p].lines
               <= AtLeast4(b.x) * 4 * b.loaded

(* No lost wakeup, no missing permit: while NextBlock sleeps in Semaphore::  *)
(* lock the loader of the current level has an unlock still to come.         *)
SleeperWillBeWoken ==
    mpc = "asleep" =>
        /\ bmp[cur].sema = 0
        /\ \/ bmp[cur].load \in {"wait", "signal"}
           \/ bmp[cur].load = "read" /\ (bmp[cur].loaded < LinesOf(bmp[cur].y) \/ bmp[cur].acc # 0)

(* NumberOfParts, computed up front from the sizes alone, is the number of   *)
(* parts that NextPart hands out: assert( !m_done ) never fails, and when    *)
(* the loop ends the last level has been handed out.                         *)
PartsMatchDone == (Len(parts) = Num) <=> done

(* No pixel buffer is deleted while a loader still has rows to write into it *)
(* or to read from it, or a task still has to read it.                       *)
NoUseAfterFree ==
    /\ \A k \in 1..Len(bmp) :
          \/ bmp[k].load \in {"none", "end", "done"}
          \/ bmp[k].load \in {"read", "signal"} /\ bmp[k].loaded = LinesOf(bmp[k].y)
          \/ bmp[k].alive /\ (k > 1 => bmp[k - 1].alive)
    /\ \A p \in pending : bmp[parts[p].level].alive

(* A task may read its part from the moment NextPart hands it out until it   *)
(* has run: the rows are loaded by then and the buffer is not yet deleted.   *)
ReadsAreSafe == PartsAreLoaded /\ NoUseAfterFree

\* The blocks of the output that the task of a part writes.
Written(p) == p.offset .. (p.offset + (p.width \div 4) * p.lines - 1)

(* No task writes past the bytes that BlockData reserved for the levels. *)
WritesInBounds ==
    \A p \in 1..Len(parts) :
        8 * (parts[p].offset + (parts[p].width \div 4) * parts[p].lines)
           <= DataBytes(img.x, img.y, img.mip)

(* The tasks run in parallel and in any order, so two parts of levels that   *)
(* are at least one block wide must never be written to the same block.      *)
WideLevelsDisjoint ==
    \A p, q \in 1..Len(parts) :
        p # q /\ bmp[parts[p].level].x >= 4 /\ bmp[parts[q].level].x >= 4
           => Written(parts[p]) \cap Written(parts[q]) = {}

(* The tasks write without a lock into one mapping: inside it, and apart.    *)
WritesAreSafe == WritesInBounds /\ WideLevelsDisjoint

(* The header promises every level ("levels; // mipmap count"): the parts of *)
(* two levels never share a block of the output.                             *)
LevelsDisjoint ==
    \A p, q \in 1..Len(parts) :
        parts[p].level # parts[q].level
           => Written(parts[p]) \cap Written(parts[q]) = {}

(* Every part is handed out, encoded, and the provider is torn down. *)
ProviderFinishes == <>(mpc = "gone")
=============================================================================
