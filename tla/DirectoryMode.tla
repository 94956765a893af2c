--------------------------- MODULE DirectoryMode ---------------------------
(***************************************************************************)
(* The betsy mode on a directory: one image after the other, the parts of  *)
(* an image as tasks of the pool, and the GPU at work on the blocks that   *)
(* the image before left, while the pool is at work on this one.           *)
(*                                                                         *)
(* The tasks hold references to the local variables bd and bda of the loop *)
(* and pointers into the bitmaps of its DataProvider; an output file is    *)
(* complete when the last shared_ptr to its BlockData goes.  The pool runs *)
(* tasks as ForkJoin says; the loading of parts is in DataProvider.        *)
(***************************************************************************)
EXTENDS Formats, Sequences, FiniteSets

CONSTANTS
    Directories,    \* set of sequences of [alpha, parts]
    OptionSets,     \* set of [etc2, rgba, dxtc, alpha], main's option variables
    PoolSizes       \* numbers of worker threads, cpus - 1

ASSUME DirectoryAssumption ==
    /\ \A d \in Directories : d \in Seq([alpha : BOOLEAN, parts : Nat \ {0}])
    /\ OptionSets \subseteq [etc2 : BOOLEAN, rgba : BOOLEAN, dxtc : BOOLEAN, alpha : BOOLEAN]
    /\ PoolSizes \subseteq Nat

VARIABLES
    dir, f,     \* imagePathList and the options
    workers,    \* size of the pool
    mpc,        \* "image", "parts", "gpu", "sync", "push", "residual", "end", "exit"
    t,          \* image of this turn, from 1
    i,          \* parts taken
    dp,         \* the image whose DataProvider is alive, 0 for none
    bd, bda,    \* the loop's variables: names of BlockData or None
    priorBd,
    type,       \* BlockData name -> its type; the domain is all that were made
    wrote,      \* BlockData name -> parts that are in it
    disk,       \* path -> the BlockData that opened it last, and cut it
    queue,      \* tasks that nobody has taken
    running,    \* tasks that a thread runs, with the BlockData that they found
    pipeline,   \* length of m_Pipeline
    gpu         \* blocks that each call of ProcessWithGPU got

vars == <<dir, f, workers, mpc, t, i, dp, bd, bda, priorBd, type, wrote, disk, queue, running,
          pipeline, gpu>>
poolVars == <<queue, running, wrote>>

None == <<"none", 0>>
Out(n) == <<"out", n>>
Alpha(n) == <<"alpha", n>>

\* The output file is named after its image, the alpha file by the option -a.
Path(o) == IF o[1] = "alpha" THEN <<"alpha", 0>> ELSE o

Init ==
    /\ dir \in Directories /\ f \in OptionSets /\ workers \in PoolSizes
    /\ mpc = "image" /\ t = 1 /\ i = 0 /\ dp = 0
    /\ bd = None /\ bda = None /\ priorBd = None
    /\ type = [o \in {} |-> "none"] /\ wrote = [o \in {} |-> {}] /\ disk = [p \in {} |-> None]
    /\ queue = {} /\ running = {}
    /\ pipeline = 0 /\ gpu = <<>>

\* BlockData that some shared_ptr still names: their files are open.
Open == {bd, bda, priorBd} \ {None}
InOneWord == {"Etc2_RGBA", "Dxt5"}
-----------------------------------------------------------------------------
(* The main thread                                                         *)

\* DataProvider, the type, bd and, if asked for, bda.  The constructor of
\* BlockData opens its file anew; that of the alpha channel is the same one for
\* every image.
BeginImage ==
    LET img == dir[t]
        ty  == PlainType(f, img.alpha)
        own == IF f.alpha /\ img.alpha /\ ~f.rgba THEN {Alpha(t)} ELSE {}
        new == {Out(t)} \union own
    IN  /\ mpc = "image" /\ t <= Len(dir)
        /\ dp' = t /\ i' = 0
        /\ bd' = Out(t)
        /\ bda' = IF own # {} THEN Alpha(t) ELSE None
        /\ type' = [o \in DOMAIN type \union new |-> IF o \in new THEN ty ELSE type[o]]
        /\ wrote' = [o \in DOMAIN wrote \union new |-> IF o \in new THEN {} ELSE wrote[o]]
        /\ disk' = [p \in DOMAIN disk \union {Path(o) : o \in new} |->
                      IF \E o \in new : Path(o) = p THEN CHOOSE o \in new : Path(o) = p ELSE disk[p]]
        /\ mpc' = "parts"
        /\ UNCHANGED <<dir, f, workers, t, priorBd, queue, running, pipeline, gpu>>

\* The tasks of a part: the one for the colours of RGB formats is commented out.
TasksOf(n, p) ==
    IF type[bd] \in InOneWord THEN {[image |-> n, part |-> p, to |-> "bd"]}
    ELSE IF bda # None THEN {[image |-> n, part |-> p, to |-> "bda"]}
    ELSE {}

TakePart ==
    /\ mpc = "parts" /\ i < dir[t].parts
    /\ i' = i + 1
    /\ queue' = queue \union TasksOf(t, i + 1)
    /\ UNCHANGED <<dir, f, workers, mpc, t, dp, bd, bda, priorBd, type, wrote, disk, running, pipeline, gpu>>

\* if( once ): the blocks of the images before, with the tasks of this one queued
PartsTaken ==
    /\ mpc = "parts" /\ i = dir[t].parts
    /\ mpc' = IF t > 1 /\ pipeline > 0 THEN "gpu" ELSE "sync"
    /\ UNCHANGED <<dir, f, workers, t, i, dp, bd, bda, priorBd, type, disk, poolVars, pipeline, gpu>>

\* m_pipe: what fills it is called from the task that is commented out.
PipeSize == 0

\* ProcessWithGPU takes a copy of m_pipe and leaves m_Pipeline alone.
GpuPrior ==
    /\ mpc = "gpu"
    /\ gpu' = Append(gpu, PipeSize)
    /\ mpc' = "sync"
    /\ UNCHANGED <<dir, f, workers, t, i, dp, bd, bda, priorBd, type, disk, poolVars, pipeline>>

AllRun_QueueEmpty == queue = {}
AllRun == queue = {} /\ running = {}

PriorAfter_Kept == priorBd
PriorAfter_Alpha == IF bda = None THEN bd ELSE bda
PriorAfter == bd

\* Sync returns; pushHighErrorBlocks; priorBd = bd
SyncAndPush ==
    /\ mpc = "sync" /\ AllRun
    /\ pipeline' = pipeline + 1
    /\ priorBd' = PriorAfter
    /\ mpc' = IF t = Len(dir) THEN "residual" ELSE "end"
    /\ UNCHANGED <<dir, f, workers, t, i, dp, bd, bda, type, disk, poolVars, gpu>>

GpuResidual ==
    /\ mpc = "residual"
    /\ gpu' = IF pipeline > 0 THEN Append(gpu, PipeSize) ELSE gpu
    /\ priorBd' = None
    /\ mpc' = "end"
    /\ UNCHANGED <<dir, f, workers, t, i, dp, bd, bda, type, disk, poolVars, pipeline>>

\* The variables of the loop's body go: bda, bd, dp.
EndImage ==
    /\ mpc = "end"
    /\ bd' = None /\ bda' = None /\ dp' = 0
    /\ t' = t + 1
    /\ mpc' = "image"
    /\ UNCHANGED <<dir, f, workers, i, priorBd, type, disk, poolVars, pipeline, gpu>>

Exit ==
    /\ mpc = "image" /\ t > Len(dir)
    /\ mpc' = "exit"
    /\ UNCHANGED <<dir, f, workers, t, i, dp, bd, bda, priorBd, type, disk, poolVars, pipeline, gpu>>
-----------------------------------------------------------------------------
(* The pool                                                                *)

\* The main thread helps in Sync.
Threads_NoHelp == workers
Threads == workers + (IF mpc = "sync" THEN 1 ELSE 0)

\* A thread takes a task; the task finds its BlockData through the variable.
StartTask(k) ==
    /\ k \in queue
    /\ Cardinality(running) < Threads
    /\ queue' = queue \ {k}
    /\ running' = running \union {[task |-> k, at |-> IF k.to = "bd" THEN bd ELSE bda]}
    /\ UNCHANGED <<dir, f, workers, mpc, t, i, dp, bd, bda, priorBd, type, wrote, disk, pipeline, gpu>>

EndTask(r) ==
    /\ r \in running
    /\ running' = running \ {r}
    /\ wrote' = [o \in DOMAIN wrote |-> wrote[o] \union (IF o = r.at THEN {r.task.part} ELSE {})]
    /\ UNCHANGED <<dir, f, workers, mpc, t, i, dp, bd, bda, priorBd, type, disk, queue, pipeline, gpu>>

Finished == mpc = "exit" /\ UNCHANGED vars

MainStep ==
    \/ BeginImage \/ TakePart \/ PartsTaken \/ GpuPrior \/ SyncAndPush \/ GpuResidual
    \/ EndImage \/ Exit
PoolStep == (\E k \in queue : StartTask(k)) \/ (\E r \in running : EndTask(r))
Next == MainStep \/ PoolStep \/ Finished

Spec == Init /\ [][Next]_vars

\* The threads of the pool are started with the program and never held up, and
\* neither is the main thread.
FairSpec == Spec /\ WF_vars(MainStep) /\ WF_vars(PoolStep)
-----------------------------------------------------------------------------
(* Properties                                                              *)

\* The tasks capture bd and bda by reference and pixels by pointer: while a
\* task is queued or runs, the variables are those of its image, the BlockData
\* that it writes to is open and the bitmaps are there.
TasksInScope ==
    /\ \A k \in queue : dp = k.image /\ bd = Out(k.image)
    /\ \A r \in running :
         /\ dp = r.task.image
         /\ r.at \in Open /\ r.at[2] = r.task.image

\* A file that has tasks is closed with all of its parts, however the tasks of
\* the images and the GPU passes lie in between, and as long as it is open, and
\* mapped, no other BlockData opens and cuts it: the alpha file of an image is
\* closed before the next image opens the same path.  (The files of Etc1,
\* Etc2_RGB and Dxt1 have no tasks and stay as they were opened, all zeros; and
\* the alpha file in the end holds the alpha channel of one image only.)
HasTasks(o) == IF o[1] = "out" THEN type[o] \in InOneWord ELSE type[o] \notin InOneWord
ClosedComplete ==
    /\ \A o \in DOMAIN type \ Open :
         HasTasks(o) => wrote[o] = 1..dir[o[2]].parts
    /\ \A o \in Open : disk[Path(o)] = o

\* While the GPU writes blocks of the image before, through the addresses in
\* that image's file, the file is open: priorBd is there "for maintaining data
\* address".
PriorIsOpen ==
    /\ mpc = "gpu" => Out(t - 1) \in Open
    /\ mpc = "residual" => Out(t) \in Open

\* Every image of the directory comes to its end, on a machine with one core,
\* where the pool has no thread, too.
Completes == <>(mpc = "exit")
=============================================================================
