------------------------- MODULE TaskDispatchProofs -------------------------
(***************************************************************************)
(* TaskDispatch for any number of workers, closures and batches: IndInv is *)
(* an inductive invariant; Sync is a barrier; no wakeup is lost; the pool  *)
(* implements ForkJoin.                                                    *)
(***************************************************************************)
EXTENDS TaskDispatch, FiniteSetTheorems, SequenceTheorems, TLAPS

(* What the back of a non-empty queue and the rest of it are. *)
LEMMA PopBackFacts ==
    ASSUME NEW S, NEW q \in Seq(S), q # <<>>
    PROVE  /\ Len(q) \in Nat /\ Len(q) > 0
           /\ q[Len(q)] \in S
           /\ PopBack(q) \in Seq(S)
           /\ Len(PopBack(q)) = Len(q) - 1
           /\ \A i \in 1..(Len(q) - 1) : PopBack(q)[i] = q[i]
  <1>1. Len(q) \in Nat /\ Len(q) > 0
    BY EmptySeq, LenProperties
  <1>2. q[Len(q)] \in S
    BY <1>1, ElementOfSeq
  <1> DEFINE n == Len(q) - 1
  <1>3. n \in Nat /\ 1 \in Int /\ n \in Int /\ n - 1 + 1 = n
    BY <1>1
  <1>4. \A i \in 1..n : q[i] \in S
    BY <1>1, ElementOfSeq
  <1> HIDE DEF n
  <1>5. /\ SubSeq(q, 1, n) \in Seq(S)
        /\ Len(SubSeq(q, 1, n)) = IF 1 <= n THEN n - 1 + 1 ELSE 0
        /\ \A i \in 1..(n - 1 + 1) : SubSeq(q, 1, n)[i] = q[1 + i - 1]
    BY ONLY <1>3, <1>4, SubSeqProperties
  <1>6. /\ SubSeq(q, 1, n) \in Seq(S)
        /\ Len(SubSeq(q, 1, n)) = n
        /\ \A i \in 1..n : SubSeq(q, 1, n)[i] = q[i]
    BY <1>3, <1>5
  <1>7. QED
    BY <1>1, <1>2, <1>6 DEF PopBack, n

(* What the queue is after emplace_back. *)
LEMMA AppendFacts ==
    ASSUME NEW S, NEW q \in Seq(S), NEW e \in S
    PROVE  /\ Append(q, e) \in Seq(S)
           /\ Len(Append(q, e)) = Len(q) + 1
           /\ Len(q) \in Nat
           /\ \A i \in 1..Len(q) : Append(q, e)[i] = q[i]
           /\ Append(q, e)[Len(q) + 1] = e
  OBVIOUS

(* Any subset of the workers is finite; only the empty one has no element. *)
LEMMA BusyFinite ==
    /\ IsFiniteSet(Busy)
    /\ Cardinality(Busy) \in Nat
    /\ Cardinality(Busy) = 0 <=> Busy = {}
  <1>1. Busy \in SUBSET Workers
    BY DEF Busy
  <1>2. IsFiniteSet(Busy)
    BY <1>1, FS_Subset, ConstantsAssumption
  <1>3. QED
    BY <1>2, FS_CardinalityType, FS_EmptySet

(* The initial state satisfies the invariant. *)
LEMMA InitInv == Init => IndInv
  <1> SUFFICES ASSUME Init PROVE IndInv
    OBVIOUS
  <1> USE DEF Init
  <1>1. TypeOK
    <2>1. exit \in BOOLEAN /\ synced \in BOOLEAN
      OBVIOUS
    <2>2. queue \in Seq(Tasks)
      BY EmptySeq
    <2>3. QED
      BY <2>1, <2>2 DEF TypeOK, WorkerPC, MainPC
  <1>2. LockInv /\ HeldInv
    BY ConstantsAssumption DEF LockInv, HeldInv, Inside, Threads
  <1>3. TasksInv /\ AtMostOnce
    BY ConstantsAssumption DEF TasksInv, AtMostOnce, Taken, Threads
  <1>4. JobsCountsBusy
    <2>1. Busy = {}
      BY DEF Busy
    <2>2. QED
      BY <2>1, FS_EmptySet DEF JobsCountsBusy
  <1>5. PopNeverEmpty /\ SyncInv /\ SyncWillBeWoken
    BY DEF PopNeverEmpty, SyncInv, SyncWillBeWoken
  <1>6. ExitInv /\ DtorInv /\ ExitReachesAll
    BY DEF ExitInv, DtorInv, ExitReachesAll
  <1>7. QED
    BY <1>1, <1>2, <1>3, <1>4, <1>5, <1>6 DEF IndInv
-----------------------------------------------------------------------------
(* Who owns the mutex, and who holds a closure. *)
LEMMA LockStep == IndInv /\ [Next]_vars => LockInv' /\ HeldInv'
  <1> SUFFICES ASSUME IndInv, [Next]_vars PROVE LockInv' /\ HeldInv'
    OBVIOUS
  <1> USE ConstantsAssumption DEF IndInv, TypeOK, LockInv, HeldInv, Inside, Threads
  <1>1. ASSUME NEW t \in Tasks, Queue(t) PROVE LockInv' /\ HeldInv'
    BY <1>1 DEF Queue
  <1>2. CASE QueueNotify
    BY <1>2 DEF QueueNotify
  <1>3. CASE SyncCall
    BY <1>3 DEF SyncCall
  <1>4. CASE SyncTake
    BY <1>4, PopBackFacts DEF SyncTake
  <1>5. CASE SyncRun
    BY <1>5 DEF SyncRun
  <1>6. CASE SyncWait
    BY <1>6 DEF SyncWait, SyncChecks
  <1>7. CASE SyncReturn
    BY <1>7 DEF SyncReturn, SyncChecks
  <1>8. CASE DtorSetExit \/ DtorNotifyAll \/ DtorJoin
    BY <1>8 DEF DtorSetExit, DtorNotifyAll, DtorJoin
  <1>9. ASSUME NEW w \in Workers, WorkerStep(w) PROVE LockInv' /\ HeldInv'
    <2>1. CASE WorkerLock(w)
      BY <2>1 DEF WorkerLock
    <2>2. CASE WorkerPredicate(w)
      BY <2>2 DEF WorkerPredicate
    <2>3. CASE WorkerBlock(w)
      BY <2>3 DEF WorkerBlock
    <2>4. CASE WorkerExit(w)
      BY <2>4 DEF WorkerExit
    <2>5. CASE WorkerTake(w)
      BY <2>5, PopBackFacts DEF WorkerTake
    <2>6. CASE WorkerRun(w)
      BY <2>6 DEF WorkerRun
    <2>7. CASE WorkerFinish(w)
      BY <2>7 DEF WorkerFinish
    <2>8. CASE WorkerNotify(w)
      BY <2>8 DEF WorkerNotify
    <2>9. QED
      BY <1>9, <2>1, <2>2, <2>3, <2>4, <2>5, <2>6, <2>7, <2>8 DEF WorkerStep
  <1>10. CASE SpuriousWakeup
    BY <1>10 DEF SpuriousWakeup
  <1>11. CASE UNCHANGED vars
    BY <1>11 DEF vars
  <1>12. QED
    BY <1>1, <1>2, <1>3, <1>4, <1>5, <1>6, <1>7, <1>8, <1>9, <1>10, <1>11
       DEF Next, MainStep, Terminated

(* A worker that is about to decrement m_jobs is counted in it. *)
LEMMA FinishCounted ==
    ASSUME IndInv, NEW w \in Workers, pc[w] = "finish"
    PROVE  jobs \in Nat /\ jobs > 0
  <1>1. w \in Busy
    BY DEF Busy
  <1>2. QED
    BY <1>1, BusyFinite DEF IndInv, JobsCountsBusy

(* Types: the decrement of m_jobs is the one that needs the invariant. *)
LEMMA TypeStep == IndInv /\ [Next]_vars => TypeOK'
  <1> SUFFICES ASSUME IndInv, [Next]_vars PROVE TypeOK'
    OBVIOUS
  <1> USE ConstantsAssumption DEF IndInv, TypeOK, WorkerPC, MainPC, Threads
  <1>1. ASSUME NEW t \in Tasks, Queue(t) PROVE TypeOK'
    BY <1>1, AppendFacts DEF Queue
  <1>2. CASE QueueNotify
    BY <1>2 DEF QueueNotify
  <1>3. CASE SyncCall
    BY <1>3 DEF SyncCall
  <1>4. CASE SyncTake
    BY <1>4, PopBackFacts DEF SyncTake
  <1>5. CASE SyncRun
    <2>1. held[Main] \in Tasks
      BY <1>5 DEF SyncRun, HeldInv
    <2>2. runs[held[Main]] + 1 \in Nat
      BY <2>1
    <2>3. runs' \in [Tasks -> Nat]
      BY <1>5, <2>1, <2>2 DEF SyncRun
    <2>4. QED
      BY <1>5, <2>3 DEF SyncRun
  <1>6. CASE SyncWait
    BY <1>6 DEF SyncWait
  <1>7. CASE SyncReturn
    <2>1. synced' \in BOOLEAN
      BY <1>7 DEF SyncReturn
    <2>2. batches' \in Nat
      BY <1>7 DEF SyncReturn
    <2>3. QED
      BY <1>7, <2>1, <2>2 DEF SyncReturn
  <1>8. CASE DtorSetExit \/ DtorNotifyAll \/ DtorJoin
    BY <1>8 DEF DtorSetExit, DtorNotifyAll, DtorJoin
  <1>9. ASSUME NEW w \in Workers, WorkerStep(w) PROVE TypeOK'
    <2>1. CASE WorkerLock(w) \/ WorkerPredicate(w) \/ WorkerBlock(w) \/ WorkerExit(w)
      BY <2>1 DEF WorkerLock, WorkerPredicate, WorkerBlock, WorkerExit
    <2>2. CASE WorkerTake(w)
      BY <2>2, PopBackFacts DEF WorkerTake, JobsTaken
    <2>3. CASE WorkerRun(w)
      <3>1. held[w] \in Tasks
        BY <2>3 DEF WorkerRun, HeldInv
      <3>2. runs[held[w]] + 1 \in Nat
        BY <3>1
      <3>3. runs' \in [Tasks -> Nat]
        BY <2>3, <3>1, <3>2 DEF WorkerRun
      <3>4. QED
        BY <2>3, <3>3 DEF WorkerRun
    <2>4. CASE WorkerFinish(w)
      BY <2>4, FinishCounted DEF WorkerFinish, JobsFinished
    <2>5. CASE WorkerNotify(w)
      BY <2>5 DEF WorkerNotify
    <2>6. QED
      BY <1>9, <2>1, <2>2, <2>3, <2>4, <2>5 DEF WorkerStep
  <1>10. CASE SpuriousWakeup
    BY <1>10 DEF SpuriousWakeup
  <1>11. CASE UNCHANGED vars
    BY <1>11 DEF vars
  <1>12. QED
    BY <1>1, <1>2, <1>3, <1>4, <1>5, <1>6, <1>7, <1>8, <1>9, <1>10, <1>11
       DEF Next, MainStep, Terminated

(* m_jobs is the number of busy workers: only a take and a finish move either. *)
LEMMA JobsStep == IndInv /\ [Next]_vars => JobsCountsBusy'
  <1> SUFFICES ASSUME IndInv, [Next]_vars PROVE JobsCountsBusy'
    OBVIOUS
  <1> USE DEF IndInv, TypeOK, JobsCountsBusy
  <1>1. ASSUME jobs' = jobs, Busy' = Busy PROVE JobsCountsBusy'
    BY <1>1
  <1>2. CASE MainStep
    <2>1. jobs' = jobs /\ Busy' = Busy
      BY <1>2 DEF MainStep, Queue, QueueNotify, SyncCall, SyncTake, SyncRun, SyncWait,
                  SyncReturn, DtorSetExit, DtorNotifyAll, DtorJoin, Busy
    <2>2. QED
      BY <2>1, <1>1
  <1>3. ASSUME NEW w \in Workers, WorkerStep(w) PROVE JobsCountsBusy'
    <2>1. CASE \/ WorkerLock(w) \/ WorkerPredicate(w) \/ WorkerBlock(w)
               \/ WorkerExit(w) \/ WorkerRun(w) \/ WorkerNotify(w)
      <3>1. jobs' = jobs /\ Busy' = Busy
        BY <2>1 DEF WorkerLock, WorkerPredicate, WorkerBlock, WorkerExit, WorkerRun,
                    WorkerNotify, Busy
      <3>2. QED
        BY <3>1, <1>1
    <2>2. CASE WorkerTake(w)
      <3>1. w \notin Busy /\ Busy' = Busy \cup {w}
        BY <2>2 DEF WorkerTake, Busy
      <3>2. Cardinality(Busy') = Cardinality(Busy) + 1
        BY <3>1, BusyFinite, FS_AddElement
      <3>3. QED
        BY <2>2, <3>2 DEF WorkerTake, JobsTaken
    <2>3. CASE WorkerFinish(w)
      <3>1. w \in Busy /\ Busy' = Busy \ {w}
        BY <2>3 DEF WorkerFinish, Busy
      <3>2. Cardinality(Busy') = Cardinality(Busy) - 1
        BY <3>1, BusyFinite, FS_RemoveElement
      <3>3. QED
        BY <2>3, <3>2 DEF WorkerFinish, JobsFinished
    <2>4. QED
      BY <1>3, <2>1, <2>2, <2>3 DEF WorkerStep
  <1>4. CASE SpuriousWakeup \/ UNCHANGED vars
    <2>1. jobs' = jobs /\ Busy' = Busy
      BY <1>4 DEF SpuriousWakeup, vars, Busy
    <2>2. QED
      BY <2>1, <1>1
  <1>5. QED
    BY <1>2, <1>3, <1>4 DEF Next, Terminated

(* A worker between its predicate and its pop owns the mutex: nobody else pops. *)
LEMMA PopStep == IndInv /\ [Next]_vars => PopNeverEmpty'
  <1> SUFFICES ASSUME IndInv, [Next]_vars, NEW v \in Workers, (pc[v] = "take" /\ ~exit)'
               PROVE  (queue # <<>>)'
    BY DEF PopNeverEmpty
  <1> USE ConstantsAssumption DEF IndInv, TypeOK, LockInv, Inside, PopNeverEmpty
  <1>1. CASE MainStep
    <2>1. ASSUME NEW t \in Tasks, Queue(t) PROVE (queue # <<>>)'
      BY <2>1 DEF Queue
    <2>2. CASE \/ QueueNotify \/ SyncCall \/ SyncTake \/ SyncRun \/ SyncWait
               \/ SyncReturn \/ DtorSetExit \/ DtorNotifyAll \/ DtorJoin
      BY <2>2 DEF QueueNotify, SyncCall, SyncTake, SyncRun, SyncWait,
                  SyncReturn, DtorSetExit, DtorNotifyAll, DtorJoin
    <2>3. QED
      BY <1>1, <2>1, <2>2 DEF MainStep
  <1>2. ASSUME NEW w \in Workers, WorkerStep(w) PROVE (queue # <<>>)'
    BY <1>2 DEF WorkerStep, WorkerLock, WorkerPredicate, WorkerBlock, WorkerExit, WorkerTake,
                WorkerRun, WorkerFinish, WorkerNotify, HasWorkOrExit
  <1>3. CASE SpuriousWakeup \/ UNCHANGED vars
    BY <1>3 DEF SpuriousWakeup, vars
  <1>4. QED
    BY <1>1, <1>2, <1>3 DEF Next, Terminated

(* The destructor: m_exit, the notify_all, and the workers that must see them. *)
LEMMA ExitStep == IndInv /\ [Next]_vars => ExitInv' /\ DtorInv' /\ ExitReachesAll'
  <1> SUFFICES ASSUME IndInv, [Next]_vars
               PROVE  ExitInv' /\ DtorInv' /\ ExitReachesAll'
    OBVIOUS
  <1> USE ConstantsAssumption DEF IndInv, TypeOK, LockInv, Inside, ExitInv, DtorInv, ExitReachesAll
  <1>1. CASE MainStep
    BY <1>1 DEF MainStep, Queue, QueueNotify, SyncCall, SyncTake, SyncRun, SyncWait, SyncChecks,
                SyncReturn, DtorSetExit, DtorNotifyAll, DtorJoin
  <1>2. ASSUME NEW w \in Workers, WorkerStep(w) PROVE ExitInv' /\ DtorInv' /\ ExitReachesAll'
    BY <1>2 DEF WorkerStep, WorkerLock, WorkerPredicate, WorkerBlock, WorkerExit, WorkerTake,
                WorkerRun, WorkerFinish, WorkerNotify, HasWorkOrExit
  <1>3. CASE SpuriousWakeup \/ UNCHANGED vars
    BY <1>3 DEF SpuriousWakeup, vars
  <1>4. QED
    BY <1>1, <1>2, <1>3 DEF Next, Terminated

(* Moving the back of the queue into the hands of a thread loses nothing. *)
LEMMA TakeStep ==
    ASSUME IndInv, NEW h \in Threads, held[h] = None, queue # <<>>,
           held' = [held EXCEPT ![h] = queue[Len(queue)]], queue' = PopBack(queue),
           runs' = runs, submitted' = submitted
    PROVE  TasksInv' /\ AtMostOnce'
  <1> DEFINE n == Len(queue)
  <1>1. /\ n \in Nat /\ n > 0 /\ queue[n] \in Tasks
        /\ Len(queue') = n - 1
        /\ \A i \in 1..(n - 1) : queue'[i] = queue[i]
    BY PopBackFacts DEF IndInv, TypeOK
  <1>2. /\ held'[h] = queue[n]
        /\ \A g \in Threads \ {h} : held'[g] = held[g]
    BY DEF IndInv, TypeOK
  <1> HIDE DEF n
  <1> USE DEF IndInv, TypeOK
  <1>3. \A i \in 1..n : queue[i] # None /\ runs[queue[i]] = 0 /\ queue[i] \in submitted
    BY <1>1, ConstantsAssumption DEF AtMostOnce, TasksInv, n
  <1>4. \A i, j \in 1..n : queue[i] = queue[j] => i = j
    BY DEF TasksInv, n
  <1>5. \A i \in 1..n, g \in Threads : queue[i] # held[g]
    BY DEF TasksInv, n
  <1>6. TasksInv'
    <2>1. /\ \A i, j \in 1..Len(queue') : queue'[i] = queue'[j] => i = j
          /\ \A i \in 1..Len(queue'), g \in Threads : queue'[i] # held'[g]
          /\ \A i \in 1..Len(queue') : queue'[i] \in submitted'
      <3>1. \A i \in 1..Len(queue') : i \in 1..n /\ i # n /\ queue'[i] = queue[i]
        BY <1>1
      <3>2. n \in 1..n
        BY <1>1
      <3>3. QED
        BY ONLY <3>1, <3>2, <1>2, <1>3, <1>4, <1>5, submitted' = submitted
    <2>2. /\ \A g \in Threads : held'[g] # None => held'[g] \in submitted'
          /\ \A t \in Tasks : runs'[t] # 0 => t \in submitted'
      BY <1>1, <1>2, <1>3 DEF TasksInv
    <2>3. ASSUME NEW t \in submitted'
          PROVE  \/ runs'[t] = 1
                 \/ \E i \in 1..Len(queue') : queue'[i] = t
                 \/ \E g \in Threads : held'[g] = t
      <3>1. CASE runs[t] = 1
        BY <3>1
      <3>2. ASSUME NEW i \in 1..n, queue[i] = t
            PROVE  \/ \E j \in 1..Len(queue') : queue'[j] = t
                   \/ \E g \in Threads : held'[g] = t
        <4>1. i = n \/ (i \in 1..Len(queue') /\ queue'[i] = queue[i])
          BY <1>1
        <4>2. QED
          BY <4>1, <3>2, <1>2
      <3>3. ASSUME NEW g \in Threads, held[g] = t PROVE held'[g] = t
        <4>1. t # None
          BY ConstantsAssumption
        <4>2. QED
          BY <4>1, <3>3, <1>2
      <3>4. QED
        BY <3>1, <3>2, <3>3 DEF TasksInv, n
    <2>4. QED
      BY <2>1, <2>2, <2>3 DEF TasksInv
  <1>7. AtMostOnce'
    <2>1. \A t \in Tasks : runs'[t] <= 1
      BY DEF AtMostOnce
    <2>2. \A i \in 1..Len(queue') : runs'[queue'[i]] = 0
      BY <1>1, <1>3
    <2>3. \A t \in Taken' : runs'[t] = 0
      BY <1>1, <1>2, <1>3 DEF Taken, AtMostOnce
    <2>4. \A f, g \in Threads : held'[f] = held'[g] /\ f # g => held'[f] = None
      BY <1>1, <1>2, <1>5 DEF AtMostOnce
    <2>5. QED
      BY <2>1, <2>2, <2>3, <2>4 DEF AtMostOnce
  <1>8. QED
    BY <1>6, <1>7

(* Running the closure a thread holds is its only execution. *)
LEMMA RunStep ==
    ASSUME IndInv, NEW h \in Threads, held[h] # None,
           runs' = [runs EXCEPT ![held[h]] = @ + 1], held' = [held EXCEPT ![h] = None],
           queue' = queue, submitted' = submitted
    PROVE  TasksInv' /\ AtMostOnce'
  <1> DEFINE f == held[h]
  <1> USE DEF IndInv, TypeOK
  <1>1. f \in Tasks /\ f \in submitted /\ runs[f] = 0
    BY DEF TasksInv, AtMostOnce, Taken
  <1>2. /\ runs'[f] = 1
        /\ \A t \in Tasks \ {f} : runs'[t] = runs[t]
    BY <1>1
  <1>3. /\ held'[h] = None
        /\ \A g \in Threads \ {h} : held'[g] = held[g] /\ held[g] # f
    BY <1>1 DEF AtMostOnce
  <1>4. \A i \in 1..Len(queue) : queue[i] # f /\ queue[i] \in Tasks
    BY ElementOfSeq DEF TasksInv
  <1> HIDE DEF f
  <1>5. TasksInv'
    <2>1. /\ \A i, j \in 1..Len(queue') : queue'[i] = queue'[j] => i = j
          /\ \A i \in 1..Len(queue') : queue'[i] \in submitted'
      BY DEF TasksInv
    <2>2. \A i \in 1..Len(queue'), g \in Threads : queue'[i] # held'[g]
      BY <1>3, <1>4, ConstantsAssumption DEF TasksInv
    <2>3. /\ \A g \in Threads : held'[g] # None => held'[g] \in submitted'
          /\ \A t \in Tasks : runs'[t] # 0 => t \in submitted'
      BY <1>1, <1>2, <1>3 DEF TasksInv
    <2>4. ASSUME NEW t \in submitted'
          PROVE  \/ runs'[t] = 1
                 \/ \E i \in 1..Len(queue') : queue'[i] = t
                 \/ \E g \in Threads : held'[g] = t
      BY <1>1, <1>2, <1>3 DEF TasksInv, f
    <2>5. QED
      BY <2>1, <2>2, <2>3, <2>4 DEF TasksInv
  <1>6. AtMostOnce'
    <2>1. \A t \in Tasks : runs'[t] <= 1
      BY <1>2 DEF AtMostOnce
    <2>2. \A i \in 1..Len(queue') : runs'[queue'[i]] = 0
      BY <1>2, <1>4 DEF AtMostOnce
    <2>3. \A t \in Taken' : runs'[t] = 0
      BY <1>2, <1>3, ConstantsAssumption DEF Taken, AtMostOnce
    <2>4. \A e, g \in Threads : held'[e] = held'[g] /\ e # g => held'[e] = None
      BY <1>3 DEF AtMostOnce
    <2>5. QED
      BY <2>1, <2>2, <2>3, <2>4 DEF AtMostOnce
  <1>7. QED
    BY <1>5, <1>6

(* A closure that enters the queue is new. *)
LEMMA QueueStep ==
    ASSUME IndInv, NEW t \in Tasks, Queue(t)
    PROVE  TasksInv' /\ AtMostOnce'
  <1> USE DEF IndInv, TypeOK
  <1>1. /\ Len(queue) \in Nat
        /\ Len(queue') = Len(queue) + 1
        /\ \A i \in 1..Len(queue) : queue'[i] = queue[i]
        /\ queue'[Len(queue) + 1] = t
    BY AppendFacts DEF Queue
  <1>2. /\ t \notin submitted /\ submitted' = submitted \cup {t}
        /\ runs' = runs /\ held' = held
    BY DEF Queue
  <1>3. runs[t] = 0 /\ t # None /\ \A h \in Threads : held[h] # t
    BY <1>2, ConstantsAssumption DEF TasksInv
  <1>4. TasksInv'
    <2>1. /\ \A i, j \in 1..Len(queue') : queue'[i] = queue'[j] => i = j
          /\ \A i \in 1..Len(queue'), h \in Threads : queue'[i] # held'[h]
          /\ \A i \in 1..Len(queue') : queue'[i] \in submitted'
      <3>1. \A i \in 1..Len(queue') : \/ i \in 1..Len(queue) /\ queue'[i] = queue[i]
                                      \/ i = Len(queue) + 1 /\ queue'[i] = t
        BY <1>1
      <3>2. \A i \in 1..Len(queue) : queue[i] # t /\ queue[i] \in submitted
        BY <1>2 DEF TasksInv
      <3>3. \A i, j \in 1..Len(queue) : queue[i] = queue[j] => i = j
        BY DEF TasksInv
      <3>4. \A i \in 1..Len(queue), h \in Threads : queue[i] # held[h]
        BY DEF TasksInv
      <3>5. QED
        BY ONLY <3>1, <3>2, <3>3, <3>4, <1>2, <1>3
    <2>2. /\ \A h \in Threads : held'[h] # None => held'[h] \in submitted'
          /\ \A u \in Tasks : runs'[u] # 0 => u \in submitted'
      BY <1>2 DEF TasksInv
    <2>3. ASSUME NEW u \in submitted'
          PROVE  \/ runs'[u] = 1
                 \/ \E i \in 1..Len(queue') : queue'[i] = u
                 \/ \E h \in Threads : held'[h] = u
      BY <1>1, <1>2 DEF TasksInv
    <2>4. QED
      BY <2>1, <2>2, <2>3 DEF TasksInv
  <1>5. AtMostOnce'
    BY <1>1, <1>2, <1>3 DEF AtMostOnce, Taken
  <1>6. QED
    BY <1>4, <1>5

(* Where every submitted closure is, and that none is executed twice. *)
LEMMA TasksStep == IndInv /\ [Next]_vars => TasksInv' /\ AtMostOnce'
  <1> SUFFICES ASSUME IndInv, [Next]_vars PROVE TasksInv' /\ AtMostOnce'
    OBVIOUS
  <1>1. ASSUME UNCHANGED <<queue, held, runs, submitted>> PROVE TasksInv' /\ AtMostOnce'
    BY <1>1 DEF IndInv, TasksInv, AtMostOnce, Taken
  <1>2. CASE MainStep
    <2>1. ASSUME NEW t \in Tasks, Queue(t) PROVE TasksInv' /\ AtMostOnce'
      BY <2>1, QueueStep
    <2>2. CASE SyncTake
      <3>1. Main \in Threads /\ held[Main] = None
        BY <2>2 DEF SyncTake, IndInv, HeldInv, Threads
      <3>2. QED
        BY <2>2, <3>1, TakeStep DEF SyncTake
    <2>3. CASE SyncRun
      <3>1. Main \in Threads /\ held[Main] # None
        BY <2>3 DEF SyncRun, IndInv, HeldInv, Threads
      <3>2. QED
        BY <2>3, <3>1, RunStep DEF SyncRun
    <2>4. CASE \/ QueueNotify \/ SyncCall \/ SyncWait \/ SyncReturn
               \/ DtorSetExit \/ DtorNotifyAll \/ DtorJoin
      BY <2>4, <1>1 DEF QueueNotify, SyncCall, SyncWait, SyncReturn, DtorSetExit,
                        DtorNotifyAll, DtorJoin
    <2>5. QED
      BY <1>2, <2>1, <2>2, <2>3, <2>4 DEF MainStep
  <1>3. ASSUME NEW w \in Workers, WorkerStep(w) PROVE TasksInv' /\ AtMostOnce'
    <2>1. CASE WorkerTake(w)
      <3>1. w \in Threads /\ held[w] = None
        BY <2>1 DEF WorkerTake, IndInv, HeldInv, Threads
      <3>2. QED
        BY <2>1, <3>1, TakeStep DEF WorkerTake
    <2>2. CASE WorkerRun(w)
      <3>1. w \in Threads /\ held[w] # None
        BY <2>2 DEF WorkerRun, IndInv, HeldInv, Threads
      <3>2. QED
        BY <2>2, <3>1, RunStep DEF WorkerRun
    <2>3. CASE \/ WorkerLock(w) \/ WorkerPredicate(w) \/ WorkerBlock(w)
               \/ WorkerExit(w) \/ WorkerFinish(w) \/ WorkerNotify(w)
      BY <2>3, <1>1 DEF WorkerLock, WorkerPredicate, WorkerBlock, WorkerExit,
                        WorkerFinish, WorkerNotify
    <2>4. QED
      BY <1>3, <2>1, <2>2, <2>3 DEF WorkerStep
  <1>4. CASE SpuriousWakeup \/ UNCHANGED vars
    BY <1>4, <1>1 DEF SpuriousWakeup, vars
  <1>5. QED
    BY <1>2, <1>3, <1>4 DEF Next, Terminated

(* The heart of the matter: past its loop, with m_jobs at zero, Sync knows   *)
(* that every closure is executed although it never looks at the closures.   *)
LEMMA BarrierFact ==
    ASSUME IndInv, SyncChecks, NoJobs
    PROVE  \A t \in submitted : runs[t] = 1
  <1>1. queue = <<>> /\ mpc # "sync_run"
    BY DEF SyncChecks, IndInv, SyncInv
  <1>2. \A w \in Workers : pc[w] # "run"
    <2>1. Busy = {}
      BY BusyFinite DEF IndInv, JobsCountsBusy, NoJobs
    <2>2. QED
      BY <2>1 DEF Busy
  <1>3. \A h \in Threads : held[h] = None
    BY <1>1, <1>2 DEF IndInv, HeldInv, Threads
  <1>4. \A i \in 1..Len(queue) : FALSE
    BY <1>1
  <1>5. \A t \in submitted : t # None
    BY ConstantsAssumption DEF IndInv, TypeOK
  <1>6. QED
    BY <1>3, <1>4, <1>5 DEF IndInv, TasksInv

(* Sync: what it knows about the queue, and who will wake it. *)
LEMMA SyncStep == IndInv /\ [Next]_vars => SyncInv' /\ SyncWillBeWoken'
  <1> SUFFICES ASSUME IndInv, [Next]_vars PROVE SyncInv' /\ SyncWillBeWoken'
    OBVIOUS
  <1> USE ConstantsAssumption DEF IndInv, TypeOK, SyncInv, SyncWillBeWoken
  <1>1. CASE MainStep
    <2>1. ASSUME NEW t \in Tasks, Queue(t) PROVE SyncInv' /\ SyncWillBeWoken'
      BY <2>1 DEF Queue
    <2>2. CASE QueueNotify \/ SyncCall \/ SyncTake
      BY <2>2 DEF QueueNotify, SyncCall, SyncTake
    <2>3. CASE SyncRun
      <3>1. held[Main] \in Taken /\ held[Main] \in submitted
        BY <2>3 DEF SyncRun, HeldInv, TasksInv, Taken, Threads
      <3>2. ~synced
        BY <3>1 DEF AtMostOnce
      <3>3. QED
        BY <2>3, <3>2 DEF SyncRun
    <2>4. CASE SyncWait
      BY <2>4 DEF SyncWait, SyncChecks, NoJobs
    <2>5. CASE SyncReturn
      BY <2>5, BarrierFact DEF SyncReturn
    <2>6. CASE DtorSetExit \/ DtorNotifyAll \/ DtorJoin
      BY <2>6 DEF DtorSetExit, DtorNotifyAll, DtorJoin
    <2>7. QED
      BY <1>1, <2>1, <2>2, <2>3, <2>4, <2>5, <2>6 DEF MainStep
  <1>2. ASSUME NEW w \in Workers, WorkerStep(w) PROVE SyncInv' /\ SyncWillBeWoken'
    <2>1. CASE WorkerLock(w) \/ WorkerPredicate(w) \/ WorkerBlock(w) \/ WorkerExit(w)
      BY <2>1 DEF WorkerLock, WorkerPredicate, WorkerBlock, WorkerExit
    <2>2. CASE WorkerTake(w)
      BY <2>2 DEF WorkerTake
    <2>3. CASE WorkerRun(w)
      <3>1. held[w] \in Taken /\ held[w] \in submitted
        BY <2>3 DEF WorkerRun, HeldInv, TasksInv, Taken, Threads
      <3>2. ~synced
        BY <3>1 DEF AtMostOnce
      <3>3. QED
        BY <2>3, <3>2 DEF WorkerRun
    <2>4. CASE WorkerFinish(w)
      BY <2>4 DEF WorkerFinish, LastJob
    <2>5. CASE WorkerNotify(w)
      BY <2>5 DEF WorkerNotify
    <2>6. QED
      BY <1>2, <2>1, <2>2, <2>3, <2>4, <2>5 DEF WorkerStep
  <1>3. CASE SpuriousWakeup \/ UNCHANGED vars
    BY <1>3 DEF SpuriousWakeup, vars
  <1>4. QED
    BY <1>1, <1>2, <1>3 DEF Next, Terminated
-----------------------------------------------------------------------------
(* IndInv holds in every reachable state of the pool. *)
THEOREM Invariance == Spec => []IndInv
  <1>1. IndInv /\ [Next]_vars => IndInv'
    BY LockStep, TypeStep, JobsStep, PopStep, ExitStep, TasksStep, SyncStep DEF IndInv
  <1>2. QED
    BY InitInv, <1>1, PTL DEF Spec

(* Type correctness; in particular m_jobs never drops below zero. *)
THEOREM TypeCorrect == Spec => []TypeOK
  <1>1. IndInv => TypeOK
    BY DEF IndInv
  <1>2. QED
    BY Invariance, <1>1, PTL

(* A closure that was handed to Queue is never lost and never run twice: it is *)
(* queued once, or held by one thread, or it has been executed once.           *)
THEOREM ExactlyOnceHolds == Spec => []ExactlyOnce
  <1>1. ASSUME IndInv PROVE ExactlyOnce
    <2>1. TypeOK /\ TasksInv /\ AtMostOnce
      BY <1>1 DEF IndInv
    <2>2. submitted \subseteq Queued \cup Taken \cup Executed
      BY <2>1 DEF TypeOK, TasksInv, Queued, Taken, Executed
    <2>3. Queued \cup Taken \cup Executed \subseteq submitted
      BY <2>1, ConstantsAssumption DEF TypeOK, TasksInv, Queued, Taken, Executed
    <2>4. Queued \cap Taken = {} /\ Queued \cap Executed = {} /\ Taken \cap Executed = {}
      BY <2>1 DEF TypeOK, TasksInv, AtMostOnce, Queued, Taken, Executed
    <2>5. \A t \in Executed : runs[t] = 1
      BY <2>1 DEF TypeOK, AtMostOnce, Executed
    <2>6. QED
      BY <2>1, <2>2, <2>3, <2>4, <2>5 DEF ExactlyOnce, TasksInv, AtMostOnce
  <1>2. QED
    BY Invariance, <1>1, PTL

(* pop_back is never called on an empty queue, and m_jobs counts the busy workers. *)
THEOREM QueueDiscipline == Spec => []QueueIsSound
  <1>1. IndInv => QueueIsSound
    BY DEF IndInv, QueueIsSound
  <1>2. QED
    BY Invariance, <1>1, PTL

(* Neither Sync nor a worker that must exit is left asleep. *)
THEOREM NoLostWakeup == Spec => []NobodyLeftAsleep
  <1>1. IndInv => NobodyLeftAsleep
    BY DEF IndInv, NobodyLeftAsleep
  <1>2. QED
    BY Invariance, <1>1, PTL

(* When Sync returns, every closure queued so far has been executed. *)
THEOREM Barrier == Spec => SyncIsBarrier
  <1>1. ASSUME IndInv, [Next]_vars, mpc \in {"sync", "sync_woken"}, mpc' = "app"
        PROVE  \A t \in submitted : runs[t] = 1
    <2>1. SyncReturn
      <3>1. ~UNCHANGED vars
        BY <1>1 DEF vars
      <3>2. \A w \in Workers : ~WorkerStep(w)
        BY <1>1 DEF WorkerStep, WorkerLock, WorkerPredicate, WorkerBlock, WorkerExit,
                    WorkerTake, WorkerRun, WorkerFinish, WorkerNotify
      <3>3. ~SpuriousWakeup /\ ~Terminated
        BY <1>1 DEF SpuriousWakeup, Terminated
      <3>4. MainStep
        BY <1>1, <3>1, <3>2, <3>3 DEF Next
      <3>5. QED
        BY <1>1, <3>4 DEF MainStep, Queue, QueueNotify, SyncCall, SyncTake, SyncRun,
                          SyncWait, DtorSetExit, DtorNotifyAll, DtorJoin
    <2>2. QED
      BY <1>1, <2>1, BarrierFact DEF SyncReturn
  <1>2. IndInv /\ [Next]_vars
          => [(mpc \in {"sync", "sync_woken"} /\ mpc' = "app")
                 => \A t \in submitted : runs[t] = 1]_vars
    BY <1>1
  <1>3. QED
    BY Invariance, <1>2, PTL DEF Spec, SyncIsBarrier
-----------------------------------------------------------------------------
(* Every step of a thread is a step of ForkJoin or changes nothing there. *)
LEMMA StepSimulation ==
    ASSUME IndInv, [Next]_vars
    PROVE  [FJ!Next]_(FJ!fjvars)
  <1> USE DEF FJ!fjvars, Phase
  <1>1. ASSUME submitted' = submitted, runs' = runs, Phase' = Phase
        PROVE  UNCHANGED FJ!fjvars
    BY <1>1
  <1>2. ASSUME NEW h \in Threads, held[h] # None,
               runs' = [runs EXCEPT ![held[h]] = @ + 1],
               submitted' = submitted, Phase' = Phase, Phase \in {"open", "joining"}
        PROVE  FJ!Next
    <2>1. held[h] \in Tasks /\ held[h] \in submitted /\ runs[held[h]] = 0
      BY <1>2 DEF IndInv, TypeOK, TasksInv, AtMostOnce, Taken
    <2>2. runs' = [runs EXCEPT ![held[h]] = 1]
      BY <1>2, <2>1 DEF IndInv, TypeOK
    <2>3. FJ!Execute(held[h])
      BY <1>2, <2>1, <2>2 DEF FJ!Execute
    <2>4. QED
      BY <2>1, <2>3 DEF FJ!Next
  <1>3. ASSUME NEW t \in Tasks, Queue(t) PROVE FJ!Next
    BY <1>3 DEF Queue, FJ!Next, FJ!Submit
  <1>4. CASE QueueNotify \/ SyncTake \/ SyncWait \/ DtorNotifyAll
    BY <1>4, <1>1 DEF QueueNotify, SyncTake, SyncWait, SyncChecks, DtorNotifyAll
  <1>5. CASE SyncCall
    BY <1>5 DEF SyncCall, FJ!Next, FJ!Join
  <1>6. CASE SyncRun
    <2>1. Main \in Threads /\ held[Main] # None
      BY <1>6 DEF SyncRun, IndInv, HeldInv, Threads
    <2>2. QED
      BY <1>6, <2>1, <1>2 DEF SyncRun
  <1>7. CASE SyncReturn
    BY <1>7, BarrierFact DEF SyncReturn, SyncChecks, FJ!Next, FJ!Joined, FJ!AllExecuted
  <1>8. CASE DtorSetExit
    BY <1>8 DEF DtorSetExit, IndInv, SyncInv, FJ!Next, FJ!Close, FJ!AllExecuted
  <1>9. CASE DtorJoin
    BY <1>9 DEF DtorJoin, FJ!Next, FJ!Closed
  <1>10. ASSUME NEW w \in Workers, WorkerStep(w) PROVE [FJ!Next]_(FJ!fjvars)
    <2>1. CASE WorkerRun(w)
      <3>1. w \in Threads /\ held[w] # None
        BY <2>1 DEF WorkerRun, IndInv, HeldInv, Threads
      <3>2. ~synced
        BY <3>1 DEF IndInv, TypeOK, TasksInv, AtMostOnce, Taken, SyncInv
      <3>3. mpc \notin {"dtor", "join", "gone"} /\ mpc \in MainPC
        BY <3>2 DEF IndInv, TypeOK, ExitInv, DtorInv
      <3>4. Phase' = Phase /\ Phase \in {"open", "joining"}
        BY <2>1, <3>3 DEF WorkerRun, MainPC
      <3>5. QED
        BY <2>1, <3>1, <3>4, <1>2 DEF WorkerRun
    <2>2. CASE WorkerNotify(w)
      BY <2>2, <1>1 DEF WorkerNotify
    <2>3. CASE \/ WorkerLock(w) \/ WorkerPredicate(w) \/ WorkerBlock(w)
               \/ WorkerExit(w) \/ WorkerTake(w) \/ WorkerFinish(w)
      BY <2>3, <1>1 DEF WorkerLock, WorkerPredicate, WorkerBlock, WorkerExit,
                        WorkerTake, WorkerFinish
    <2>4. QED
      BY <1>10, <2>1, <2>2, <2>3 DEF WorkerStep
  <1>11. CASE SpuriousWakeup \/ UNCHANGED vars
    BY <1>11, <1>1 DEF SpuriousWakeup, vars
  <1>12. QED
    BY <1>3, <1>4, <1>5, <1>6, <1>7, <1>8, <1>9, <1>10, <1>11 DEF Next, MainStep, Terminated

(* The pool implements ForkJoin. *)
THEOREM Refinement == Spec => ImplementsForkJoin
  <1>1. Init => FJ!Init
    BY DEF Init, FJ!Init, Phase
  <1>2. IndInv /\ [Next]_vars => [FJ!Next]_(FJ!fjvars)
    BY StepSimulation
  <1>3. QED
    BY Invariance, <1>1, <1>2, PTL DEF Spec, ImplementsForkJoin, FJ!Spec
=============================================================================
