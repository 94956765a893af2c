# A TLA+ model of HETC2

HETC2 compresses images to ETC1/ETC2 (and DXT) textures. It is etcpak, which
encodes on all CPU cores, plus a hybrid mode in which the blocks that the CPU
encoded badly are encoded again by betsy's compute shaders on the GPU. This
directory holds TLA+ modules of its control logic, TLC runs that check them on
small instances, and TLAPS proofs of all their safety properties, for every
value of the constants.

## 1. The system and its parts

| Part | State | Operations | Interacts with |
|---|---|---|---|
| `TaskDispatch` | `m_queue`, `m_jobs`, `m_exit`, one mutex, two condition variables | `Queue`, `Sync`, `Worker`, destructor | the application queues closures and waits in `Sync`; workers run them |
| `Semaphore` | a count, a mutex, a condition variable | `lock`, `unlock`, (`try_lock`, unused) | loaders unlock, `NextBlock` locks |
| `Bitmap` | pixels, position of the next part, lines left, semaphore, the future of its loader | constructors, `NextBlock`, `Data`, destructor | a `std::async` loader fills the pixels in the background |
| `BitmapDownsampled` | the same, one mip level smaller | constructor | its loader waits for the loader of the level above |
| `DataProvider` | the levels, the output offset, lines a part, done flag | `NumberOfParts`, `NextPart` | the application's main loop |
| `BlockData` | the mapped output file | constructors, `Process`, `ProcessRGBA`, `Decode` | encoder tasks write disjoint ranges |
| hybrid pipeline (`Application.cpp`, `BlockDataGPU`) | per-part arrays of `PixBlock`, the joined array, the GPU image | queue parts, sync, select, run GPU, write back | tasks of the pool, betsy encoder |
| betsy `CpuImage`, `EncoderGL/ETC1/ETC2` | GL textures, staging buffer | `initResources`, `execute00..02`, `getDownloadData`, `saveToOffset` | main thread only |
| `ErrorBlockData` | a shared pipe | push, get | directory mode |
| `ProcessRGB`, `ProcessDxtc`, the decoder | none | one 4x4 block to a 64-bit word and back | called by tasks |
| `Application` | options | parse, then benchmark / view / hybrid / CPU mode | everything |

What is hard: the pool's wakeups (who notifies whom, what is checked under the
lock and used after it), the permits that are the only order between a loader
and the encoder, the sizes and offsets that are computed in three places and
have to agree, tasks that write one mapping without a lock, and the path of a
block through sorting, tiling and four flips to the GPU and back to its place
in the file; words whose mode is told only by bits that happen to be unused; GL
bindings and barriers that outlive the call they were made for; and option
variables that each mode tests in its own way. `PROJECT.json` lists these as
hazards with the lines where they bite.

What makes each part correct: every task runs exactly once and `Sync` is a
barrier (pool); no part is handed out before its rows are there, nobody sleeps
for ever, the predicted number of parts is the real one, buffers outlive their
users (provider); writes stay in the mapping and do not overlap (storage); every
word of the file encodes the block whose place it has, and the GPU redoes the
worst blocks (hybrid); a word is decoded in the mode and to the pixels that the
encoder had in mind (encoders, decoder); no candidate word is used uninitialised
and no bad block goes unreported (choice of mode); no order of options makes a
file whose header lies, but for DXT1 with `-a` in the betsy mode (driver, see
section 5); no task outlives what it refers to (directory mode); each shader sees the textures it means, finished (betsy).

## 2. Modules

The theorems about module `M` are in `MProofs`, which extends it.

### `ForkJoin`, `TaskDispatch`, `MCTaskDispatch`, `TaskDispatchProofs`

`ForkJoin` is what an application needs from a pool: submit, execute in any
order and once, join only when all is executed, close. `TaskDispatch` is the
code of `TaskDispatch.cpp`. Variables: `queue` (`m_queue`), `jobs`, `exit`,
`owner` (who holds `m_queueLock`), `pc` and `mpc` (where each worker and the
main thread is), `held` (the closure a thread has popped), and the histories
`submitted`, `runs`, `synced`, `batches`. The steps are the regions between two
points at which another thread may act: `Queue` is the locked part and
`QueueNotify` the notification after it; `SyncTake` / `SyncRun` / `SyncChecks` /
`SyncWait` / `SyncReturn` are the loop and the wait of `Sync`; `DtorSetExit`,
`DtorNotifyAll`, `DtorJoin` the destructor, whose first assignment is outside
the lock; `WorkerLock` ... `WorkerNotify` the worker. A wait evaluates its
predicate and blocks in two steps, both under the lock, because `m_exit` can
change between them. A notification of `m_cvWork` wakes any one sleeper, or
none; `SpuriousWakeup` wakes a thread for no reason.

### `MipGeometry`, `DataProvider`, `MCDataProvider`

`MipGeometry` has the shared arithmetic: level sizes and counts, lines, parts,
length of the mapping, permits of small levels. `DataProvider` is the concurrent
part: one record a level with the bitmap's fields, its loader's position and its
semaphore; the main thread (`NextPart` together with the `NextBlock` it calls,
`SemaphoreWait` when there is no permit, `Sync`, then the destructor level by
level: `FreeData`, `JoinLoader`); loaders (`LoadStart` waits for the source
level, `LoadRows`, `LoadSignal`, `LoadTail`, `LoadEnd`; the PNG loader and the
two downsampling loaders have the same control); encoder tasks (`EncodePart`).
`LoadRows` and the `unlock` that follows are separate steps.

### `MipWalk`, `MCMipWalk`

The same levels as pixels. `NextMipLevel` is the halving loop of
`NumberOfParts`; `LoadRow` and `Loaded` are the downsampling loader, `TakePart`
(what `NextPart` hands out) and `EncodeBlock` a task of the encoder. Both loops add to a running pointer, which is a position
in `m_data` here; `reads` holds, for the last step, each position that is read
with the position that is meant. Most sizes only go through the loop over the
levels (`phase = "skip"`); those in `WalkSizes` are walked over pixel by pixel.
`WalksInBounds` is the half of the safety of reads that `DataProvider` does not
see: there a part handed out has its lines loaded, here the pointers of its task
never pass the end of the part.

### `HybridPipeline`, `MCHybridPipeline`

The hybrid mode for one file. A pixel is its position in the image, so the
word of a block is the list of the four row positions it was made of, tagged
with its maker; a wrong block, wrong rows or a wrong order are then visible.
`QueuePart` is the main loop; `EncodeBlock(j)` one turn of `CompressEtc2Rgb` or
`CompressEtc2Rgba` in the task of part j (with `--rgba` two words a block);
`SyncAndJoin`, `Select` (the unstable sort picks any sorted order, limit
`size * quality` rounded down), `RunGpu` (tiling, the flip in the `PixBlock`,
the flip back in the tile, FreeImage's bottom-up order and its inversion,
row-by-row download), `SaveToOffset`, `Finish`. Which blocks have a high error,
and how high, is chosen freely in `Init` for every block; the ETC1 and DXT
types, and builds without AVX2, never mark a block and are the case without
errors.

### `BitWords`, `EacWord`, `DxtWord`, `BlockWord`, `MCBlockWord`

One 4x4 block from the result of the encoder's search to the decoded pixels. A
word is a function from bit positions to bits (`BitWords`). `BlockWord` packs
the T and H words (`compressBlockTH`: the pixels sorted by luma, the cut
`minSumRangeIdx` where the two ranges and `diffBonus` add up to least, the choice
of the mode, the middle or mean colours of the two parts; `stuff59bits`,
`stuff58bits`, the order of colours that holds a bit of the distance), planar
words (`g_flags`), both kinds of ETC1 word and solid ones, and decodes them with
`DecodeRGBPart`; `EacWord` is the alpha word of ETC2, `DxtWord` both words of
DXT, where the alpha byte of a pixel takes part in its rank. Each `Encode...` action picks an input and a result of the search, puts the
word into `file` and the pixels for which the error was counted into `made`;
`Decode` reads `file` into `read`.

### `BlockChoice`, `MCBlockChoice`

`ProcessRGB_ETC2` from `CheckSolid` to `EncodeSelectors`, in the CPU's and in the
hybrid variant: which searches run, which `Plane` is left uninitialised, which
word is returned, which error is reported. Each candidate has the error by which
it is compared and the error that is reported; `ChoiceInit` chooses them freely.

### `Formats`, `Driver`, `MCDriver`

`Formats`: the two ways to choose a type, the encoder that `Process` and
`ProcessRGBA` run for a type, the format codes of the header and their reading.
`Driver`: one `Option` a turn of the getopt loop, `EndOptions` (dithering,
quality, the number of arguments, missing files, the mode), then `Cpu`, `Betsy`,
`Benchmark`, `View`; `Again` starts the program once more, with any input
including the file it wrote before. An image is a PNG, whose channels the loader
puts into the order it is asked for, or raw4, which stays as it is stored. `Abort` stands for an exception or a failed
assertion on an input that the mode cannot read. All blocks of a file are written
in one step here; the loops are in the other modules.

### `DirectoryMode`, `MCDirectoryMode`

The betsy mode on a directory: images one after the other, with the tasks of one
image overlapping the GPU's pass over the image before. `bd`, `bda` and `priorBd`
are the `shared_ptr` variables; a task looks its `BlockData` up through the
variable when it starts, because the lambda holds a reference. `disk` says which
`BlockData` opened a path last; the alpha files of all images have one path.
`Threads` is the
size of the pool plus, inside `Sync`, the main thread. The pool is used as
`ForkJoin` describes it, with starting and ending of a task as separate steps.

### `GpuEncoder`, `MCGpuEncoder`

betsy's `EncoderETC2` as `BlockDataGPU` calls it. The CPU creates textures, binds
them, dispatches, issues barriers, downloads; the GPU (`Fetch`, `LoadAndStore`,
`Download`) runs the commands at any later time, in any order that the barriers
allow. `Shaders` lists which units each shader samples, loads and stores. `seen`
collects the accesses with the texture they reached and what had been stored in
it by then; `live`, `buffers` and `progs` are the GL objects not deleted yet, and
the CPU goes on after `glFinish` only when all commands are done. How GL orders shader stores is not in the repository and is taken
from the meaning of the barrier bits that the code uses.

## 3. Runs

| Run | Shows | Bounds |
|---|---|---|
| `task_dispatch` | every task once (`ExactlyOnce`), `QueueIsSound`, `NobodyLeftAsleep`, `SyncIsBarrier`, `ImplementsForkJoin`, and that Sync and the destructor return (`CallsReturn`) | 3 workers, 4 tasks, 2 batches |
| `data_provider` | tasks read loaded, live pixels (`ReadsAreSafe`), no lost permit (`SleeperWillBeWoken`), `PartsMatchDone`, writes inside the mapping and apart (`WritesAreSafe`), `ProviderFinishes` | 7 images, 2 lines a part |
| `data_provider_narrow` | **violation**: two levels in one block | 8x8 with mip levels |
| `mip_walk` | the loop's assertions (`ChainEndsAtOne`), `PermitsSuffice`, `WalksInBounds`, `RegularLevelsRight` | 36 x 36 sizes, 7 x 7 of them pixel by pixel; m_lines 1, 2, 3, 32 |
| `hybrid_pipeline` | `FileIsRight`, `RightBlocksRedone`, `WrittenOnce`, `UsesForkJoin` | up to 6 blocks and 3 parts, every error assignment, three qualities |
| `block_word` | `ModeRecognised`, `PixelsAsPainted`, `AlphaWithinStep` | see below |
| `block_choice` | `ReturnsACandidate`, `ReportsAreRight`, `BestWithoutHeuristics` | errors below, at and above each limit, luma ranges on both sides of each threshold |
| `block_choice_hybrid` | **violation**: without heuristics the hybrid variant always returns planar | the same |
| `driver` | `NoTypeRejected`, `FormatTold`, `OrderFits`, `ReadAsWritten` | up to five different options in any order, two invocations |
| `directory_mode` | `TasksInScope`, `ClosedComplete`, `PriorIsOpen`, `Completes` | up to three images of up to two parts, all options, pools of 0 and 2 threads |
| `gpu_encoder` | `RightTexture`, `LoadsAreWritten`, `SavedIsDownload`, `TeardownIsSafe` | up to three GPU images |
| `gpu_encoder_fetch` | **violation**: the selector samples unfinished textures | one GPU image |

Several invariants are conjunctions of named parts (`ReadsAreSafe` of
`PartsAreLoaded` and `NoUseAfterFree`, and so on); the parts are stated and
explained one by one in the modules.

Why the bounds are enough. Three workers and two batches let one worker sleep,
one run and one be between unlock and notify while `Sync` goes round again. The
code's 32 lines a part are 2 in the model, so that an image of 5 or 6 block rows
has several parts and a short last one; widths include one that is not a power
of two, one block row, and one block column. `--fast` (a tenth) selects nothing
from six blocks, which is the empty GPU image; `--normal` and `--best` cover one
to six. `mip_walk` has widths with odd levels above downsampled ones (36) and
levels that are no multiple of 4 (12, 20, 28). The T and H blocks of `block_word`
(`THBlocks`) are made of 13 colours on equal and on unequal numbers of pixels, of
one pixel among fifteen others, and of pixels that rise in nearly equal steps, so
that the parts of an H block are as little as 8 apart in luma; they are cut at
both ends and in the middle, give T words every value of the first red and H words
15 of the 16 bit patterns that decide their padding; the planar corners have every pattern of the bits of
blue by which `g_flags` is indexed; the alpha blocks lie on both sides of the values at which a multiplier
changes or a division table is cut off; the DXT blocks include colours that
differ by the last bit that 565 keeps. Five options are the one that chooses the
mode and all four that a mode's tests for type and channel look at (`--rgba`,
`--etc1`, `--dxtc`, `-a`), in every order.
Two images show everything that passes from one GPU image to the next, a third
one the replaced buffer. Deadlock is checked in every run: the only states without
another step are those in which the program has finished.

Fairness. `TaskDispatch` and `DataProvider`: weak fairness of the main thread's
and of each worker's steps (the operating system schedules runnable threads), and
of loaders and tasks; spurious wakeups happen only finitely often.
`DirectoryMode`: weak fairness of the main thread and of the pool as a whole.
Nothing stronger is needed, and no other run has a liveness property.

## 4. What is proved

Each theorem says of a property that a run checks on a small instance that it
holds for every value of the constants. The assumptions on the constants are
those stated with the constants, and TLC evaluates them in the runs.

| Proofs | Theorems | Assumed of the constants |
|---|---|---|
| `TaskDispatchProofs` | `TypeCorrect`, `ExactlyOnceHolds`, `QueueDiscipline`, `NoLostWakeup`, `Barrier`, `Refinement` (of `ForkJoin`) | finitely many workers; `Main` and `None` are none of them |
| `DataProviderProofs` | `ProviderTypes`, `ReadsSafe`, `SleeperWoken`, `PartsCounted`, `WritesSafe` | sides are positive multiples of 4, at least one line a part |
| `HybridPipelineProofs` | `PipelineTypes`, `FileRight`, `EachWordOnce`, `WorstFirst`, `PipelineForksAndJoins` | sides and lines a part are positive, a quality is a fraction in (0, 1]; for the last theorem, finitely many images |
| `BlockWordProofs` | `ModeKept`, `PixelsKept`, `AlphaKept` | colours and alphas are bytes, indices and corners fit their fields |
| `EncoderTaskProofs`, of `MipWalk` | `ChainEnds`, `PermitsAreEnough`, `WalksStayInBounds`, `RegularWalksExact`, `LevelsAgree`, `WholeLevelEncoded` | sides are positive multiples of 4, at least one line a part |
| `EncoderTaskProofs`, of `BlockChoice` | `CandidateReturned`, `ReportsCorrect`, `BestOfBoth` | errors are natural numbers below `MaxError` |
| `DriverProofs` | `NeverRejects`, `HeaderTells`, `ColoursInOrder`, `WrittenIsRead` | any number of options and invocations |
| `DirectoryModeProofs` | `TasksStayInScope`, `ClosedFilesComplete`, `PriorStaysOpen` | images have at least one part; any pool, any directory |
| `GpuEncoderProofs` | `AccessesRight`, `LoadsWritten`, `SavedDownload`, `TeardownSafe` | any number of GPU images |

`EncoderTaskProofs` is about what an encoder task does with a part: which pixels
it reads, which word it chooses. It extends both modules, hence the prefixes
`Walk` and `Choice` of their specifications, and `DataProviderProofs`, from which
it has the arithmetic of the levels. `LevelsAgree` and `WholeLevelEncoded` state
no property of a run: the level reached by halving is the one that `NumberOfParts`
and `AdjustSizeForMipmaps` have counted with, and the parts of a level cover all
of its blocks.

None of the properties is inductive by itself; the arguments are these.

* **Pool** (`IndInv`). That a worker may decrement `jobs` follows only if it is
  counted: `HeldInv` (who holds a closure and is counted), `LockInv` (who is
  inside the lock). That `Sync` is woken follows only if the last worker still
  sees an empty queue: `SyncInv` (while the main thread waits, the queue is empty
  and nobody queues). `ExitInv` and `DtorInv` relate the exit flag to the
  destructor's progress, `TasksInv` says where each submitted task is,
  which is most of `ExactlyOnce`. Counting
  is done with lemmas about adding an element to a finite set and removing it.
* **Provider** (`ProviderInv`). For each level, `LevelInv` relates the rows that
  are loaded, the permits given so far (those taken as parts and those left in
  the semaphore) and the loader's accumulator; from it follow both that a part
  handed out is loaded and that a sleeper has an unlock to come. `GeometryInv`
  says that level k has both sides of the image halved k - 1 times;
  `CountInv` compares `parts` with the sums of `PartsUpTo`, which `NumberOfParts`
  computes from the sizes alone, `WritesInv` the offset with the bytes of
  `BytesUpTo`, which `BlockData` has reserved: what is left to write of the level
  still fits. `ControlInv` says when buffers are freed.
* **Hybrid pipeline** (`PipelineInv`). `TaskInv`: a task has walked from the edge
  of the part before to its current block, and its three running positions are
  those of that block; hence the tasks' ranges are apart, which is what
  `WrittenOnce` needs. `OutInv`: exactly the words of blocks that no task has
  reached are unwritten. `PixInv` and `PipeInv`: the array of a part, and then
  the joined and sorted one, hold each high-error block of their range once.
  `ResultInv`: the downloaded word i was made from the rows of block i of the
  buffer, through the tiles and the four flips. The refinement maps the parts to
  the tasks of `ForkJoin`.
* **Words** (`BlockInv`, `StepInv`). The word in the file means to the decoder
  what the encoder had made, from the moment it is written; there is one lemma an
  `Encode...` action (`THRead`, `PlanarRead`, `Etc1Read`, `SolidRead`, `AlphaRead`,
  `DxtColourRead`, `DxtAlphaRead`). They rest on lemmas about words:
  fields that do not overlap are read as they were written (`FieldIsRead`,
  `PixelWord`), byte swaps cancel out, and `StuffedT`, `StuffedH` and `PlanarMode`
  show by cases of four bits that the padding makes the right channel overflow.
  `HColoursDiffer` shows that the two colours of a high-contrast H block differ, so
  that their order can hold a bit: it needs only that the pixels are in order of
  luma and span at least 97, so it holds for a cut at any place; `SameMultiplier` that the six-element vector has
  the multiplier of all sixteen tables, and that it fits 4 bits; `InsetKeepsOrder`
  that neither the inset nor the cut to 565 makes the colours of a DXT block equal;
  `Divided` that a rank by table stays below 4 or 8; `RankBounds` that it is about
  8 t / (range + 1), which gives `AlphaWithinStep`.
* **Walks** (`WalkInv`). `HalvedInv`: the level is the image halved i times, which
  with the lemma `LastLevel` about log2 gives `ChainEndsAtOne`. The pointers have
  no closed form, because a row of blocks adds 4 * perRow + 3 * width, which is
  less than 4 * width at most widths, and a new part starts exact again. So
  `EncoderInv` bounds the encoder's pointer by the place of the next block, with
  equality where 4 divides the width; together with `n + blocks = perRow * row`
  (every block not yet done is in a line handed out, `LineHandedOut`) that bounds
  what is read. `LoaderInv` gives the loader's pointer, 4 * x * row; that x and y
  are at least 4 makes them exactly half of the level above, and a pair of
  rows ends before the last multiple of 4 above.
* **Choice of mode** (`ChoiceInv`): what the `Plane` may hold at each step
  (`PlaneInv`), and that a bad candidate has been reported before it is compared
  (`OfferReported`).
* **Driver** (`DriverInv`): flags against the options given (`FlagsInv`), and
  what a file on the disk may be, whichever invocation wrote it (`FilesInv`).
* **Directory mode** (`DirectoryInv`): what `bd`, `bda` and `priorBd` name at each
  point of the main thread, that tasks exist only between the start of their image
  and `Sync`, that each part taken is written or in a task that will, and that every
  open file is the last one opened at its path (`DiskInv`): `bda` is gone before
  the next image opens the alpha path, and `priorBd` is never an alpha file.
* **GPU** (`GpuInv`): the bindings that each issued command was given (`CmdsInv`),
  and what one call leaves for a later one: a barrier and the binding of unit 0
  (`LeftInv`); for the teardown, which object each member names (`MembersInv`)
  and which programs exist (`ProgsInv`).

Induction over numbers is not available as a rule with these provers. Where it is
needed (sums over the levels in `DataProvider`, smallest elements in `BlockWord`
and `HybridPipeline`) it is derived from a library theorem about finite sets,
that strict inclusion is well-founded on them (`LeastNumber`).

Only model-checked: liveness (`CallsReturn`, `ProviderFinishes`, `Completes`),
because the prover has no reasoning about fairness or `ENABLED`; and, of course,
the three violations.

## 5. What the model says about the code

Three disagreements have a run of their own.

* `NextPart` does not advance the output offset after a level that is less than
  a block wide (`DataProvider.cpp:61` divides the width by 4 without the
  `max(4, ...)` that the part itself gets). The last levels of a mip chain are
  written over each other, by tasks that run in parallel
  (`data_provider_narrow`). For levels of at least one block
  `WideLevelsDisjoint` holds.
* In the hybrid variant the sum of the planar error is commented out
  (`ProcessRGB.cpp:1273`): without heuristics planar always wins
  (`block_choice_hybrid`). `--disable-heuristics` reaches this variant by itself,
  because its case falls through into that of `--betsy-mode`
  (`Application.cpp:187`).
* The barrier before the selector leaves out texture fetches, by which the
  selector reads (`EncoderETC2.cpp:154`, `gpu_encoder_fetch`).

What the properties had to leave out, or make room for:

* Levels of odd width skew the level below (`BitmapDownsampled.cpp:343`), and the
  blocks of a level whose width is no multiple of 4 are cut from the wrong
  columns (`ProcessRGB.cpp:5252`); `RegularLevelsRight` says it is right
  elsewhere, `WalksInBounds` that it never leaves the pixels.
* Directory mode: the task for RGB is commented out (`Application.cpp:534`), so
  ETC1, ETC2 RGB and DXT1 files stay zeros and the GPU always gets an empty image;
  `m_Pipeline` grows by one an image. `ClosedComplete` is about the other types and
  says nothing of these files. All images of a directory write their alpha channel
  to one path (`Application.cpp:517`), so the file of the last one remains.
* Not all GL objects are deleted: nine textures for each GPU image but the last,
  and, although members still name them, `m_thModesC0C1` (`EncoderETC2.cpp:95-110`)
  and `m_stitchPso`, which `EncoderETC1.cpp:297` deletes only together with a
  program that the RGB mode never makes. `OnlyTheseLeft` says that this is all.
* `-a` with a DXT5 output leaves the alpha file zeros; in the betsy mode alpha
  replaces the colours of the output (`Application.cpp:731`), and
  `-a --dxtc` then puts ETC2 words into a file announced as DXT1
  (`BlockData.cpp:330`). `FormatTold` leaves out just that file, a DXT1 output of
  the betsy mode with `-a`.
* `--dxtc --rgba` encodes ETC2 from an image loaded red first; `OrderFits` leaves
  this case out, but not DXT with the two options. A raw4 image keeps the order it
  was stored in, whatever the encoder expects (`Bitmap.cpp:22-54`). `-s` compares a BGR image with an RGB one for ETC files. `--fast`
  wins over a later `--normal` or `--best`.
* The T/H shader loads from an image that is bound write-only
  (`EncoderETC2.cpp:137`); `RightTexture` makes that exception.
* Reported errors may belong to a candidate that was not returned, so the hybrid
  mode may report too many blocks, never too few. A T/H search that finds nothing
  leaves indices uninitialised; its word is never returned, because the ETC1
  search counts luma only and stays below its limit.
* In DXT5 alpha blocks with a range below 8 the division table saturates at
  0xffff and the ranks are too low: alphas 0 to 3 all become 0. `AlphaWithinStep`
  allows for it.

And what turned out right although it looks doubtful: small levels get enough
permits, although their constructor counts rows where the loaders count lines;
the early `delete[]` in `~Bitmap` is safe, because the last part of a level is
handed out only when its loader has written all rows; the EAC multiplier is
at most 15, so that it fits its unmasked 4 bits; H words can tell a bit by the
order of their colours, because high-contrast blocks never have two equal ones;
the two byte shuffles of `saveToOffset` cancel out.

## 6. Not modelled

* The searches of the encoders (SIMD minimisation of errors) and the arithmetic
  of the shaders: their results are chosen freely in the models above.
* ARM variants; a build without AVX2 does not compile the hybrid variant.
* Dithering, colour spaces, the error measures of `-s`: per-pixel arithmetic
  without state. Filters of the downsampling loader.
* The bounds of local arrays in the SIMD code: stores of 32 bytes into arrays of 16
  (`ProcessRGB.cpp:1238-1240`), a copy of 96 bytes into one of 12
  (`ProcessRGB.cpp:2878`); and the wrap of the 32-bit sum of errors
  (`ProcessRGB.cpp:2580`). Errors are natural numbers in the models.
* DXT1 blocks whose four ranges add up to more than 765, the end of `DivTable`
  (`ProcessDxtc.cpp:68`, `241`, `561`). The loaders set the alpha of an image
  without alpha to 255, so only a raw4 file can have them; `CompressDxt5` clears
  the alpha first.
* PNG and LZ4 decoding, KTX files, the header fields besides the format and the
  level count, operating-system and logging wrappers. Failures of file operations
  are assertions in the code.
* `size * quality` in float beyond 2^24 blocks (`BlockDataGPU.cpp:154`), and the
  coherence of the persistently mapped download buffer (`EncoderGL.cpp:263`),
  about which the repository states no expectation.
* The multi-threaded benchmark's pixels (`Application.cpp:345` advances by a
  quarter of a part); it throws its words away.
* betsy encoders without a caller, and the vendored libraries (FreeImage, SDL,
  libpng, zlib, lz4, tracy, getopt, GL headers). These are nearly all of the
  lines in the repository: the program's own code is about 11,300 lines, betsy
  2,900, of 800,000.

## 7. What is left

1. Liveness for every value of the constants: the safety half is proved
   (`NobodyLeftAsleep`, `SleeperWillBeWoken`, `PermitsSuffice`: whoever waits has
   somebody left who wakes it), the rest needs rules for fairness.
2. Lemmas that several proof modules state for themselves (`LeastNumber`, bounds
   of quotients, powers of two) could move to a module of their own.
