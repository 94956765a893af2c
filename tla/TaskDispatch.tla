---------------------------- MODULE TaskDispatch ----------------------------
(***************************************************************************)
(* The thread pool of TaskDispatch.cpp: a LIFO queue of closures guarded   *)
(* by one mutex, two condition variables (m_cvWork for the workers,        *)
(* m_cvJobs for Sync), a count m_jobs of the closures the workers have     *)
(* taken and not finished, and an atomic flag m_exit that the destructor   *)
(* raises without holding the mutex.                                       *)
(*                                                                         *)
(* A critical section of the main thread is one step, taken when no worker *)
(* owns the mutex.  A worker keeps the mutex over several steps where it   *)
(* reads m_exit, because that is the one shared variable that changes      *)
(* without the mutex.  A condition variable is the set of threads whose pc *)
(* says that they wait on it; a wait may end without a notification.       *)
(***************************************************************************)
EXTENDS Naturals, Sequences, FiniteSets

CONSTANTS Workers,     \* the spawned threads: cpus - 1 of them, maybe none
          Main,        \* the thread that owns the pool and calls Queue, Sync
          Tasks,       \* the closures the application may queue
          None,        \* no thread, no closure
          MaxBatches   \* bound: how often the application calls Sync

ASSUME ConstantsAssumption ==
    /\ IsFiniteSet(Workers)
    /\ Main \notin Workers
    /\ None \notin Workers \cup Tasks
    /\ MaxBatches \in Nat

VARIABLES
    queue,      \* m_queue, the back of the vector is the end of the sequence
    jobs,       \* m_jobs
    exit,       \* m_exit
    owner,      \* the worker that owns m_queueLock, or None
    pc,         \* where each worker is
    mpc,        \* where the main thread is
    held,       \* the closure f that a thread has taken, or None
    submitted,  \* the closures handed to Queue so far
    runs,       \* how often each closure has been executed
    synced,     \* nothing was queued since Sync last returned
    batches     \* the number of calls of Sync that have returned

vars == <<queue, jobs, exit, owner, pc, mpc, held, submitted, runs, synced, batches>>

Threads == Workers \cup {Main}

WorkerPC == {"lock", "pred", "block", "wait", "take", "run", "finish", "notify", "exited"}
MainPC   == {"app", "queue_notify", "sync", "sync_run", "sync_wait", "sync_woken",
             "dtor", "join", "gone"}

\* The workers between m_jobs++ and m_jobs--.
Busy == {w \in Workers : pc[w] \in {"run", "finish"}}

\* The workers that own the mutex.
Inside == {w \in Workers : pc[w] \in {"pred", "block", "take"}}

(* m_queue.pop_back(), after the copy of m_queue.back(). *)
PopBack_Forgotten(q) == q
PopBack(q) == SubSeq(q, 1, Len(q) - 1)

(* The predicate of the workers' wait on m_cvWork. *)
HasWorkOrExit_Unchecked == TRUE
HasWorkOrExit == queue # <<>> \/ exit

(* The predicate of Sync's wait on m_cvJobs. *)
NoJobs_QueueInstead == queue = <<>>
NoJobs == jobs = 0

(* m_jobs++ and m_jobs--. *)
JobsTaken_Uncounted == jobs
JobsTaken == jobs + 1
JobsFinished_Twice == jobs - 2
JobsFinished == jobs - 1

(* Whether a worker that finishes its closure notifies Sync. *)
LastJob_BeforeDecrement(left) == jobs = 0 /\ queue = <<>>
LastJob(left) == left = 0 /\ queue = <<>>
-----------------------------------------------------------------------------
(* The constructor has spawned every worker; none has taken the mutex yet. *)
Init ==
    /\ queue = <<>>
    /\ jobs = 0
    /\ exit = FALSE
    /\ owner = None
    /\ pc = [w \in Workers |-> "lock"]
    /\ mpc = "app"
    /\ held = [t \in Threads |-> None]
    /\ submitted = {}
    /\ runs = [t \in Tasks |-> 0]
    /\ synced = TRUE
    /\ batches = 0

(* TaskDispatch::Queue: append under the mutex, remember the size, unlock. *)
Queue(t) ==
    /\ mpc = "app" /\ batches < MaxBatches
    /\ t \notin submitted
    /\ owner = None
    /\ queue' = Append(queue, t)
    /\ submitted' = submitted \cup {t}
    /\ synced' = FALSE
    /\ mpc' = IF Len(queue') > 1 THEN "queue_notify" ELSE "app"
    /\ UNCHANGED <<jobs, exit, owner, pc, held, runs, batches>>

(* The tail of Queue, after the unlock: notify_one on m_cvWork. *)
QueueNotify ==
    /\ mpc = "queue_notify"
    /\ mpc' = "app"
    /\ \/ \E w \in Workers : pc[w] = "wait" /\ pc' = [pc EXCEPT ![w] = "lock"]
       \/ (\A w \in Workers : pc[w] # "wait") /\ UNCHANGED pc
    /\ UNCHANGED <<queue, jobs, exit, owner, held, submitted, runs, synced, batches>>

(* The application calls Sync. *)
SyncCall ==
    /\ mpc = "app" /\ batches < MaxBatches
    /\ mpc' = "sync"
    /\ UNCHANGED <<queue, jobs, exit, owner, pc, held, submitted, runs, synced, batches>>

(* Sync's loop: take the back of the queue and unlock.  m_jobs is not touched. *)
SyncTake ==
    /\ mpc = "sync" /\ owner = None
    /\ queue # <<>>
    /\ held' = [held EXCEPT ![Main] = queue[Len(queue)]]
    /\ queue' = PopBack(queue)
    /\ mpc' = "sync_run"
    /\ UNCHANGED <<jobs, exit, owner, pc, submitted, runs, synced, batches>>

(* Sync runs the closure without the mutex. *)
SyncRun ==
    /\ mpc = "sync_run"
    /\ runs' = [runs EXCEPT ![held[Main]] = @ + 1]
    /\ held' = [held EXCEPT ![Main] = None]
    /\ mpc' = "sync"
    /\ UNCHANGED <<queue, jobs, exit, owner, pc, submitted, synced, batches>>

\* Sync is past its loop and evaluates the predicate of its wait.
SyncChecks ==
    /\ owner = None
    /\ \/ mpc = "sync" /\ queue = <<>>
       \/ mpc = "sync_woken"

SyncWait ==
    /\ SyncChecks
    /\ ~NoJobs
    /\ mpc' = "sync_wait"
    /\ UNCHANGED <<queue, jobs, exit, owner, pc, held, submitted, runs, synced, batches>>

SyncReturn ==
    /\ SyncChecks
    /\ NoJobs
    /\ mpc' = "app"
    /\ synced' = TRUE
    /\ batches' = batches + 1
    /\ UNCHANGED <<queue, jobs, exit, owner, pc, held, submitted, runs>>

(* ~TaskDispatch: m_exit is raised before the mutex is taken.  The           *)
(* application destroys the pool only where a Sync, or nothing, precedes it. *)
DtorSetExit ==
    /\ mpc = "app" /\ synced
    /\ exit' = TRUE
    /\ mpc' = "dtor"
    /\ UNCHANGED <<queue, jobs, owner, pc, held, submitted, runs, synced, batches>>

(* Then lock, notify_all on m_cvWork, unlock. *)
DtorNotifyAll_WithoutLock ==
    /\ mpc = "dtor"
    /\ pc' = [w \in Workers |-> IF pc[w] = "wait" THEN "lock" ELSE pc[w]]
    /\ mpc' = "join"
    /\ UNCHANGED <<queue, jobs, exit, owner, held, submitted, runs, synced, batches>>
DtorNotifyAll ==
    /\ mpc = "dtor" /\ owner = None
    /\ pc' = [w \in Workers |-> IF pc[w] = "wait" THEN "lock" ELSE pc[w]]
    /\ mpc' = "join"
    /\ UNCHANGED <<queue, jobs, exit, owner, held, submitted, runs, synced, batches>>

(* Every worker is joined. *)
DtorJoin ==
    /\ mpc = "join"
    /\ \A w \in Workers : pc[w] = "exited"
    /\ mpc' = "gone"
    /\ UNCHANGED <<queue, jobs, exit, owner, pc, held, submitted, runs, synced, batches>>
-----------------------------------------------------------------------------
(* Worker(): take the mutex, on entering the loop or on leaving a wait. *)
WorkerLock(w) ==
    /\ pc[w] = "lock" /\ owner = None
    /\ owner' = w
    /\ pc' = [pc EXCEPT ![w] = "pred"]
    /\ UNCHANGED <<queue, jobs, exit, mpc, held, submitted, runs, synced, batches>>

(* The predicate of the wait on m_cvWork. *)
WorkerPredicate(w) ==
    /\ pc[w] = "pred"
    /\ pc' = [pc EXCEPT ![w] = IF HasWorkOrExit THEN "take" ELSE "block"]
    /\ UNCHANGED <<queue, jobs, exit, owner, mpc, held, submitted, runs, synced, batches>>

(* The wait itself: release the mutex and join the waiters, atomically. *)
WorkerBlock(w) ==
    /\ pc[w] = "block"
    /\ owner' = None
    /\ pc' = [pc EXCEPT ![w] = "wait"]
    /\ UNCHANGED <<queue, jobs, exit, mpc, held, submitted, runs, synced, batches>>

(* if( m_exit ) return, whatever is left in the queue. *)
WorkerExit(w) ==
    /\ pc[w] = "take" /\ exit
    /\ owner' = None
    /\ pc' = [pc EXCEPT ![w] = "exited"]
    /\ UNCHANGED <<queue, jobs, exit, mpc, held, submitted, runs, synced, batches>>

(* Take the back of the queue, m_jobs++, unlock. *)
WorkerTake(w) ==
    /\ pc[w] = "take" /\ ~exit
    /\ queue # <<>>
    /\ held' = [held EXCEPT ![w] = queue[Len(queue)]]
    /\ queue' = PopBack(queue)
    /\ jobs' = JobsTaken
    /\ owner' = None
    /\ pc' = [pc EXCEPT ![w] = "run"]
    /\ UNCHANGED <<exit, mpc, submitted, runs, synced, batches>>

WorkerRun(w) ==
    /\ pc[w] = "run"
    /\ runs' = [runs EXCEPT ![held[w]] = @ + 1]
    /\ held' = [held EXCEPT ![w] = None]
    /\ pc' = [pc EXCEPT ![w] = "finish"]
    /\ UNCHANGED <<queue, jobs, exit, owner, mpc, submitted, synced, batches>>

(* m_jobs--, and decide under the mutex whether to notify Sync. *)
WorkerFinish(w) ==
    /\ pc[w] = "finish" /\ owner = None
    /\ jobs' = JobsFinished
    /\ pc' = [pc EXCEPT ![w] = IF LastJob(JobsFinished) THEN "notify" ELSE "lock"]
    /\ UNCHANGED <<queue, exit, owner, mpc, held, submitted, runs, synced, batches>>

(* notify_all on m_cvJobs, after the unlock. *)
WorkerNotify(w) ==
    /\ pc[w] = "notify"
    /\ pc' = [pc EXCEPT ![w] = "lock"]
    /\ mpc' = IF mpc = "sync_wait" THEN "sync_woken" ELSE mpc
    /\ UNCHANGED <<queue, jobs, exit, owner, held, submitted, runs, synced, batches>>

WorkerStep(w) ==
    \/ WorkerLock(w) \/ WorkerPredicate(w) \/ WorkerBlock(w) \/ WorkerExit(w)
    \/ WorkerTake(w) \/ WorkerRun(w) \/ WorkerFinish(w) \/ WorkerNotify(w)

MainStep ==
    \/ \E t \in Tasks : Queue(t)
    \/ QueueNotify
    \/ SyncCall \/ SyncTake \/ SyncRun \/ SyncWait \/ SyncReturn
    \/ DtorSetExit \/ DtorNotifyAll \/ DtorJoin

(* A wait on a condition variable may end without a notification. *)
SpuriousWakeup ==
    \/ /\ mpc = "sync_wait"
       /\ mpc' = "sync_woken"
       /\ UNCHANGED <<queue, jobs, exit, owner, pc, held, submitted, runs, synced, batches>>
    \/ \E w \in Workers :
          /\ pc[w] = "wait"
          /\ pc' = [pc EXCEPT ![w] = "lock"]
          /\ UNCHANGED <<queue, jobs, exit, owner, mpc, held, submitted, runs, synced, batches>>

\* The pool is gone; nothing is left to run.
Terminated == mpc = "gone" /\ UNCHANGED vars

Next ==
    \/ MainStep
    \/ \E w \in Workers : WorkerStep(w)
    \/ SpuriousWakeup
    \/ Terminated

Spec == Init /\ [][Next]_vars

(***************************************************************************)
(* Every thread that can step does, and spurious wakeups are finitely many *)
(* (std::condition_variable allows them and promises none).  Weak fairness *)
(* is enough for the mutex as well: with finitely many closures and        *)
(* wakeups a thread that waits for it finds it free for good in the end.   *)
(***************************************************************************)
Fairness ==
    /\ WF_vars(MainStep)
    /\ \A w \in Workers : WF_vars(WorkerStep(w))
    /\ <>[][~SpuriousWakeup]_vars

FairSpec == Spec /\ Fairness
-----------------------------------------------------------------------------
(* Every variable ranges over the values the code can give it. *)
TypeOK ==
    /\ queue \in Seq(Tasks)
    /\ jobs \in Nat
    /\ exit \in BOOLEAN
    /\ owner \in Workers \cup {None}
    /\ pc \in [Workers -> WorkerPC]
    /\ mpc \in MainPC
    /\ held \in [Threads -> Tasks \cup {None}]
    /\ submitted \in SUBSET Tasks
    /\ runs \in [Tasks -> Nat]
    /\ synced \in BOOLEAN
    /\ batches \in Nat

\* The closures a thread has taken and not run yet.
Taken == {t \in Tasks : \E h \in Threads : held[h] = t}

\* The closures in m_queue, and those that have been executed.
Queued == {queue[i] : i \in 1..Len(queue)}
Executed == {t \in Tasks : runs[t] # 0}

(* A closure that was handed to Queue is in one place: m_queue, once, or the *)
(* hands of one thread, or it has been executed, once.  So none is lost and  *)
(* none runs twice, although workers and Sync pop the same queue: the copy   *)
(* of m_queue.back() and the pop_back that follows it are one transfer.      *)
ExactlyOnce ==
    /\ submitted = Queued \cup Taken \cup Executed
    /\ Queued \cap Taken = {} /\ Queued \cap Executed = {} /\ Taken \cap Executed = {}
    /\ \A i, j \in 1..Len(queue) : queue[i] = queue[j] => i = j
    /\ \A g, h \in Threads : held[g] = held[h] /\ g # h => held[g] = None
    /\ \A t \in Executed : runs[t] = 1

(* m_jobs counts exactly the workers between their m_jobs++ and m_jobs--,    *)
(* so the unsigned counter never wraps below zero.                           *)
JobsCountsBusy == jobs = Cardinality(Busy)

(* pop_back is never reached on an empty m_queue: a worker that passed its   *)
(* wait predicate and then reads m_exit as false still finds a closure.      *)
PopNeverEmpty == \A w \in Workers : pc[w] = "take" /\ ~exit => queue # <<>>

(* What every worker relies on when it leaves its wait: the queue and the    *)
(* count of jobs are as the code between the locks assumes.                  *)
QueueIsSound == JobsCountsBusy /\ PopNeverEmpty

(* No lost wakeup of Sync: while it waits on m_cvJobs some worker has yet to *)
(* bring m_jobs down, or is between its unlock and its notify_all.           *)
SyncWillBeWoken ==
    mpc = "sync_wait" => jobs # 0 \/ \E w \in Workers : pc[w] = "notify"

(* No lost wakeup at exit: once the destructor has sent its notify_all and   *)
(* joins, no worker waits on m_cvWork or is about to, although m_exit was    *)
(* raised without the mutex.                                                 *)
ExitReachesAll ==
    mpc \in {"join", "gone"} => \A w \in Workers : pc[w] \notin {"wait", "block"}

(* Nobody is left asleep, be it Sync on m_cvJobs or a worker on m_cvWork,    *)
(* with no notification to come.                                             *)
NobodyLeftAsleep == SyncWillBeWoken /\ ExitReachesAll

(* Sync is a barrier: in the step in which it returns, every closure ever    *)
(* queued has been executed, the ones that workers took included.            *)
SyncIsBarrier ==
    [][(mpc \in {"sync", "sync_woken"} /\ mpc' = "app")
          => \A t \in submitted : runs[t] = 1]_vars

(* The pool implements ForkJoin: what the main thread is doing is the phase. *)
Phase ==
    CASE mpc \in {"app", "queue_notify"} -> "open"
      [] mpc \in {"sync", "sync_run", "sync_wait", "sync_woken"} -> "joining"
      [] mpc \in {"dtor", "join"} -> "closing"
      [] mpc = "gone" -> "closed"

FJ == INSTANCE ForkJoin WITH phase <- Phase

(* Queue, Sync and the destructor, with all their interleavings with the     *)
(* workers, do nothing that a fork-join pool may not do: no closure is run   *)
(* twice or out of phase, no join or shutdown overtakes a closure.           *)
ImplementsForkJoin == FJ!Spec

(* Every call of Sync returns. *)
SyncReturns == (mpc = "sync") ~> (mpc = "app")

(* The destructor returns: every worker sees m_exit and is joined. *)
DtorReturns == (mpc = "dtor") ~> (mpc = "gone")

(* Neither call of the main thread blocks for ever, although both wait for   *)
(* the workers: notifications, spurious wakeups and raised m_exit included.  *)
CallsReturn == SyncReturns /\ DtorReturns
-----------------------------------------------------------------------------
(***************************************************************************)
(* The inductive invariant behind the theorems of TaskDispatchProofs.      *)
(***************************************************************************)
\* A worker is between its lock and its unlock exactly when it owns the mutex.
LockInv == \A w \in Workers : w \in Inside <=> owner = w

\* A thread holds a closure exactly while it is about to run it.
HeldInv ==
    /\ \A w \in Workers : held[w] # None <=> pc[w] = "run"
    /\ held[Main] # None <=> mpc = "sync_run"

\* Every submitted closure is queued, taken or executed, in one place only.
TasksInv ==
    /\ \A i, j \in 1..Len(queue) : queue[i] = queue[j] => i = j
    /\ \A i \in 1..Len(queue), h \in Threads : queue[i] # held[h]
    /\ \A i \in 1..Len(queue) : queue[i] \in submitted
    /\ \A h \in Threads : held[h] # None => held[h] \in submitted
    /\ \A t \in Tasks : runs[t] # 0 => t \in submitted
    /\ \A t \in submitted : \/ runs[t] = 1
                            \/ \E i \in 1..Len(queue) : queue[i] = t
                            \/ \E h \in Threads : held[h] = t

\* No closure is executed twice, nor before it is taken, nor taken twice.
AtMostOnce ==
    /\ \A t \in Tasks : runs[t] <= 1
    /\ \A i \in 1..Len(queue) : runs[queue[i]] = 0
    /\ \A t \in Taken : runs[t] = 0
    /\ \A g, h \in Threads : held[g] = held[h] /\ g # h => held[g] = None

\* Past its loop Sync has emptied the queue, and nobody else fills it.
SyncInv ==
    /\ mpc \in {"sync_wait", "sync_woken"} => queue = <<>>
    /\ synced => \A t \in submitted : runs[t] = 1

\* m_exit is raised by the destructor, after a Sync, and never lowered.
ExitInv == exit <=> mpc \in {"dtor", "join", "gone"}
DtorInv == exit => synced

IndInv ==
    /\ TypeOK /\ LockInv /\ HeldInv
    /\ TasksInv /\ AtMostOnce
    /\ JobsCountsBusy /\ PopNeverEmpty
    /\ SyncInv /\ SyncWillBeWoken
    /\ ExitInv /\ DtorInv /\ ExitReachesAll
=============================================================================
