------------------------ MODULE DirectoryModeProofs ------------------------
(***************************************************************************)
(* In the directory mode no task outlives what it refers to and files are  *)
(* closed complete, for every directory, all options and every pool.       *)
(***************************************************************************)
EXTENDS DirectoryMode, TLAPS

\* From the tasks' first moment to the return of Sync, and to the loop's end.
Working == {"parts", "gpu", "sync"}
InImage == Working \union {"residual", "end"}

Parts(n) == 1..dir[n].parts

ControlInv ==
    /\ dir \in Directories
    /\ mpc \in InImage \union {"image", "exit"}
    /\ t \in Nat \ {0} /\ i \in Nat
    /\ mpc \in InImage => t <= Len(dir) /\ i <= dir[t].parts
    /\ mpc \in InImage \ {"parts"} => i = dir[t].parts
    /\ mpc = "gpu" => t > 1
    /\ mpc = "residual" => t = Len(dir)

\* Which BlockData and which DataProvider the variables name.
VariablesInv ==
    /\ dp = IF mpc \in InImage THEN t ELSE 0
    /\ bd = IF mpc \in InImage THEN Out(t) ELSE None
    /\ bda = None \/ (mpc \in InImage /\ bda = Alpha(t))
    /\ mpc \in Working /\ t > 1 => priorBd = Out(t - 1)
    /\ mpc = "image" /\ 1 < t /\ t <= Len(dir) => priorBd = Out(t - 1)
    /\ mpc = "residual" => priorBd = Out(t)
    /\ mpc = "end" /\ t < Len(dir) => priorBd = Out(t)

\* The BlockData made so far: those of this image are the ones in the variables.
MadeInv ==
    /\ DOMAIN type = DOMAIN wrote
    /\ \A o \in DOMAIN type :
         /\ o \in {"out", "alpha"} \X (Nat \ {0})
         /\ o[2] < t \/ (o[2] = t /\ o \in {bd, bda})
    /\ mpc \in InImage => bd \in DOMAIN type
    /\ bda # None => bda \in DOMAIN type /\ type[bda] = type[bd]

\* Tasks exist only between BeginImage and Sync, and only those of this image.
TaskOK(k) ==
    /\ mpc \in Working /\ k.image = t /\ k.part \in 1..i /\ k.to \in {"bd", "bda"}
    /\ k.to = "bda" => bda # None
TasksInv ==
    /\ \A k \in queue : TaskOK(k)
    /\ \A r \in running : TaskOK(r.task) /\ r.at = IF r.task.to = "bd" THEN bd ELSE bda

\* Every part taken so far is written, or it is in a task that will write it.
Underway(o, p) ==
    \/ \E k \in queue : k.part = p /\ o = IF k.to = "bd" THEN bd ELSE bda
    \/ \E r \in running : r.task.part = p /\ r.at = o
PartsInv ==
    \A o \in DOMAIN type :
        /\ wrote[o] \subseteq Parts(o[2])
        /\ HasTasks(o) /\ o[2] < t => wrote[o] = Parts(o[2])
        /\ HasTasks(o) /\ o[2] = t => \A p \in 1..i : p \in wrote[o] \/ Underway(o, p)

\* priorBd names the output of an earlier image, or of this one after Sync, and
\* an open BlockData is the last to have opened its file.
PriorInv ==
    \/ priorBd = None
    \/ \E n \in Nat : priorBd = Out(n) /\ (n < t \/ (n = t /\ mpc \in {"residual", "end"}))
Holds(o) == Path(o) \in DOMAIN disk /\ disk[Path(o)] = o
DiskInv == PriorInv /\ \A o \in Open : Holds(o)

DirectoryInv == ControlInv /\ VariablesInv /\ MadeInv /\ TasksInv /\ PartsInv
-----------------------------------------------------------------------------
\* A directory is a sequence of images with a number of parts each.
LEMMA DirectoryFacts ==
    ASSUME dir \in Directories
    PROVE  /\ Len(dir) \in Nat
           /\ \A n \in 1..Len(dir) : dir[n].parts \in Nat \ {0}
  <1> DEFINE Images == [alpha : BOOLEAN, parts : Nat \ {0}]
  <1>1. dir \in Seq(Images)
    BY DirectoryAssumption
  <1>2. Len(dir) \in Nat /\ \A n \in 1..Len(dir) : dir[n] \in Images
    <2> HIDE DEF Images
    <2> QED BY <1>1
  <1>3. QED
    BY <1>2

\* The names of BlockData of different kinds or of different images differ.
LEMMA Names ==
    ASSUME NEW n \in Nat
    PROVE  /\ Out(n)[1] = "out" /\ Out(n)[2] = n /\ Alpha(n)[1] = "alpha" /\ Alpha(n)[2] = n
           /\ Out(n) # None /\ Alpha(n) # None /\ Out(n) # Alpha(n)
           /\ n # 0 => Out(n) \in {"out", "alpha"} \X (Nat \ {0}) /\ Alpha(n) \in {"out", "alpha"} \X (Nat \ {0})
  BY DEF Out, Alpha, None

LEMMA DirectoryInit == Init => DirectoryInv
  <1> SUFFICES ASSUME Init PROVE DirectoryInv
    OBVIOUS
  <1>1. ControlInv /\ VariablesInv /\ TasksInv
    BY DEF Init, ControlInv, VariablesInv, TasksInv, InImage, Working
  <1>2. DOMAIN type = {} /\ DOMAIN wrote = {} /\ mpc \notin InImage /\ bda = None
    BY DEF Init, InImage, Working
  <1>3. MadeInv /\ PartsInv
    BY <1>2 DEF MadeInv, PartsInv
  <1>4. QED
    BY <1>1, <1>3 DEF DirectoryInv

LEMMA BeginImageStep == DirectoryInv /\ BeginImage => DirectoryInv'
  <1> SUFFICES ASSUME DirectoryInv, BeginImage PROVE DirectoryInv'
    OBVIOUS
  <1> DEFINE own == IF f.alpha /\ dir[t].alpha /\ ~f.rgba THEN {Alpha(t)} ELSE {}
             new == {Out(t)} \union own
             ty  == PlainType(f, dir[t].alpha)
  <1>1. /\ mpc = "image" /\ mpc' = "parts" /\ t <= Len(dir) /\ t \in Nat \ {0}
        /\ dp' = t /\ i' = 0 /\ bd' = Out(t) /\ bda' = IF own # {} THEN Alpha(t) ELSE None
        /\ UNCHANGED <<dir, t, priorBd, queue, running>>
    BY DEF BeginImage, DirectoryInv, ControlInv
  <1>2. /\ type' = [o \in DOMAIN type \union new |-> IF o \in new THEN ty ELSE type[o]]
        /\ wrote' = [o \in DOMAIN wrote \union new |-> IF o \in new THEN {} ELSE wrote[o]]
    BY DEF BeginImage
  <1>3. DOMAIN type = DOMAIN wrote /\ bd = None /\ bda = None
    BY <1>1 DEF DirectoryInv, MadeInv, VariablesInv, InImage, Working
  <1>4. \A o \in DOMAIN type : o[2] < t /\ o \notin new /\ o \in {"out", "alpha"} \X (Nat \ {0})
    <2> TAKE o \in DOMAIN type
    <2>1. o \in {"out", "alpha"} \X (Nat \ {0}) /\ (o[2] < t \/ o = None)
      BY <1>3 DEF DirectoryInv, MadeInv
    <2>2. o[2] < t
      BY <2>1 DEF None
    <2>3. o # Out(t) /\ o # Alpha(t)
      BY <2>1, <2>2, <1>1, Names
    <2>4. QED
      BY <2>1, <2>2, <2>3
  <1>5. queue = {} /\ running = {}
    BY <1>1 DEF DirectoryInv, TasksInv, TaskOK, Working
  <1>6. dir[t].parts \in Nat /\ dir \in Directories
    BY <1>1, DirectoryFacts DEF DirectoryInv, ControlInv
  <1>7. ControlInv'
    BY <1>1, <1>6 DEF ControlInv, InImage, Working
  <1>8. VariablesInv'
    BY <1>1, <1>3 DEF DirectoryInv, VariablesInv, InImage, Working
  <1>9. new \subseteq {bd', bda'} /\ (bda' # None => bda' \in new) /\ bd' \in new
    BY <1>1, Names
  <1>10. \A o \in new : o[2] = t /\ o \in {"out", "alpha"} \X (Nat \ {0})
    BY <1>1, Names
  <1>11. MadeInv'
    <2> HIDE DEF new, own, ty
    <2>1. DOMAIN type' = DOMAIN wrote' /\ DOMAIN type' = DOMAIN type \union new
      BY <1>2, <1>3
    <2>2. \A o \in DOMAIN type' : /\ o \in {"out", "alpha"} \X (Nat \ {0})
                                  /\ o[2] < t' \/ (o[2] = t' /\ o \in {bd', bda'})
      BY <2>1, <1>1, <1>4, <1>9, <1>10
    <2>3. \A o \in new : o \in DOMAIN type' /\ type'[o] = ty
      BY <1>2
    <2>4. QED
      BY <2>1, <2>2, <2>3, <1>9 DEF MadeInv
  <1>12. TasksInv'
    BY <1>1, <1>5 DEF TasksInv
  <1>13. PartsInv'
    <2> HIDE DEF new, own, ty
    <2> SUFFICES ASSUME NEW o \in DOMAIN type'
                 PROVE  /\ wrote'[o] \subseteq Parts(o[2])'
                        /\ HasTasks(o)' /\ o[2] < t' => wrote'[o] = Parts(o[2])'
                        /\ HasTasks(o)' /\ o[2] = t' => \A p \in 1..i' : p \in wrote'[o] \/ Underway(o, p)'
      BY DEF PartsInv
    <2>1. CASE o \in new
      <3>1. wrote'[o] = {} /\ o[2] = t /\ t \in Nat
        BY <2>1, <1>1, <1>2, <1>10
      <3>2. 1..i' = {}
        BY <1>1
      <3>3. QED
        BY <3>1, <3>2, <1>1
    <2>2. CASE o \notin new
      <3>1. o \in DOMAIN type
        BY <2>2, <1>2
      <3>2. o[2] < t /\ o[2] \in Nat
        BY <3>1, <1>4
      <3>3. wrote'[o] = wrote[o] /\ type'[o] = type[o]
        BY <2>2, <3>1, <1>2, <1>3
      <3>4. HasTasks(o)' = HasTasks(o) /\ Parts(o[2])' = Parts(o[2])
        BY <3>3, <1>1 DEF HasTasks, Parts
      <3>5. wrote[o] \subseteq Parts(o[2]) /\ (HasTasks(o) /\ o[2] < t => wrote[o] = Parts(o[2]))
        BY <3>1 DEF DirectoryInv, PartsInv
      <3>6. QED
        BY <1>1, <3>2, <3>3, <3>4, <3>5
    <2>3. QED
      BY <2>1, <2>2
  <1>14. QED
    BY <1>7, <1>8, <1>11, <1>12, <1>13 DEF DirectoryInv

\* TasksOf queues, for each of the two files of the image, the task that the
\* file has.
LEMMA TakePartStep == DirectoryInv /\ TakePart => DirectoryInv'
  <1> SUFFICES ASSUME DirectoryInv, TakePart PROVE DirectoryInv'
    OBVIOUS
  <1> DEFINE new == TasksOf(t, i + 1)
  <1>1. /\ mpc = "parts" /\ i < dir[t].parts /\ i' = i + 1 /\ queue' = queue \union new
        /\ UNCHANGED <<dir, mpc, t, dp, bd, bda, priorBd, type, wrote, running>>
    BY DEF TakePart
  <1>2. /\ dir \in Directories /\ t \in Nat \ {0} /\ t <= Len(dir) /\ i \in Nat
        /\ dir[t].parts \in Nat
    BY <1>1, DirectoryFacts DEF DirectoryInv, ControlInv, InImage, Working
  <1>3. bd = Out(t) /\ (bda = None \/ bda = Alpha(t)) /\ bd \in DOMAIN type
    BY <1>1 DEF DirectoryInv, VariablesInv, MadeInv, InImage, Working
  <1>4. ControlInv'
    BY <1>1, <1>2 DEF DirectoryInv, ControlInv, InImage, Working
  <1>5. VariablesInv' /\ MadeInv'
    BY <1>1 DEF DirectoryInv, VariablesInv, MadeInv
  <1>6. \A k \in new : /\ k.image = t /\ k.part = i + 1 /\ k.to \in {"bd", "bda"}
                       /\ k.to = "bda" => bda # None
    BY DEF TasksOf
  <1>7. TasksInv'
    <2>1. \A k : TaskOK(k) => TaskOK(k)'
      <3> SUFFICES ASSUME NEW k, TaskOK(k) PROVE TaskOK(k)'
        OBVIOUS
      <3>1. k.part \in 1..i'
        BY <1>1, <1>2 DEF TaskOK
      <3>2. QED
        BY <1>1, <3>1 DEF TaskOK
    <2>2. \A k \in new : TaskOK(k)'
      <3> TAKE k \in new
      <3>1. k.part \in 1..i'
        BY <1>1, <1>2, <1>6
      <3>2. QED
        BY <1>1, <1>6, <3>1 DEF TaskOK, Working
    <2> HIDE DEF new
    <2>3. QED
      BY <1>1, <2>1, <2>2 DEF DirectoryInv, TasksInv
  <1>8. PartsInv'
    <2> SUFFICES ASSUME NEW o \in DOMAIN type
                 PROVE  /\ wrote[o] \subseteq Parts(o[2])
                        /\ HasTasks(o) /\ o[2] < t => wrote[o] = Parts(o[2])
                        /\ HasTasks(o) /\ o[2] = t => \A p \in 1..i' : p \in wrote[o] \/ Underway(o, p)'
      BY <1>1 DEF PartsInv, HasTasks, Parts
    <2>1. /\ wrote[o] \subseteq Parts(o[2])
          /\ HasTasks(o) /\ o[2] < t => wrote[o] = Parts(o[2])
          /\ HasTasks(o) /\ o[2] = t => \A p \in 1..i : p \in wrote[o] \/ Underway(o, p)
      BY DEF DirectoryInv, PartsInv
    <2>2. ASSUME HasTasks(o), o[2] = t, NEW p \in 1..i' PROVE p \in wrote[o] \/ Underway(o, p)'
      <3>1. CASE p \in 1..i
        <4>1. p \in wrote[o] \/ Underway(o, p)
          BY <2>1, <2>2, <3>1
        <4>2. Underway(o, p) => Underway(o, p)'
          BY <1>1 DEF Underway
        <4>3. QED
          BY <4>1, <4>2
      <3>2. CASE p = i + 1
        <4>1. o = bd \/ o = bda
          BY <2>2, <1>2 DEF DirectoryInv, MadeInv
        <4>2. CASE o = bd
          <5>1. type[bd] \in InOneWord
            BY <2>2, <4>2, <1>2, <1>3, Names DEF HasTasks
          <5>2. [image |-> t, part |-> i + 1, to |-> "bd"] \in queue'
            BY <1>1, <5>1 DEF TasksOf
          <5>3. QED
            BY <5>2, <4>2, <3>2, <1>1 DEF Underway
        <4>3. CASE o = bda
          <5>1. bda # None
            BY <4>3 DEF DirectoryInv, MadeInv, None
          <5>2. type[bda] = type[bd] /\ bda[1] = "alpha"
            BY <5>1, <1>2, <1>3, Names DEF DirectoryInv, MadeInv
          <5>3. type[bd] \notin InOneWord
            BY <2>2, <4>3, <5>2 DEF HasTasks
          <5>4. [image |-> t, part |-> i + 1, to |-> "bda"] \in queue'
            BY <1>1, <5>1, <5>3 DEF TasksOf
          <5>5. QED
            BY <5>4, <4>3, <3>2, <1>1 DEF Underway
        <4>4. QED
          BY <4>1, <4>2, <4>3
      <3>3. QED
        BY <3>1, <3>2, <1>1, <1>2
    <2>3. QED
      BY <2>1, <2>2
  <1>9. QED
    BY <1>4, <1>5, <1>7, <1>8 DEF DirectoryInv

\* The steps of the main thread that neither make BlockData nor queue tasks
\* leave the last two parts of the invariant as they are, in the same image.
LEMMA SameImage ==
    ASSUME DirectoryInv, t' = t, i' = i,
           UNCHANGED <<dir, bd, bda, type, poolVars>>,
           (mpc \in Working /\ mpc' \in Working) \/ (queue = {} /\ running = {})
    PROVE  TasksInv' /\ PartsInv'
  <1>1. TasksInv'
    <2>1. \A k : TaskOK(k) => TaskOK(k)' \/ (queue = {} /\ running = {})
      BY DEF TaskOK
    <2>2. QED
      BY <2>1 DEF DirectoryInv, TasksInv, poolVars
  <1>2. PartsInv'
    BY DEF DirectoryInv, PartsInv, HasTasks, Parts, Underway, poolVars
  <1>3. QED
    BY <1>1, <1>2

LEMMA MainOrderStep ==
    DirectoryInv /\ (PartsTaken \/ GpuPrior \/ SyncAndPush \/ GpuResidual) => DirectoryInv'
  <1> SUFFICES ASSUME DirectoryInv, PartsTaken \/ GpuPrior \/ SyncAndPush \/ GpuResidual
               PROVE  DirectoryInv'
    OBVIOUS
  <1>1. t' = t /\ i' = i /\ UNCHANGED <<dir, dp, bd, bda, type, wrote, poolVars>>
    BY DEF PartsTaken, GpuPrior, SyncAndPush, GpuResidual, poolVars
  <1>2. mpc \in InImage /\ mpc' \in InImage
    BY DEF PartsTaken, GpuPrior, SyncAndPush, GpuResidual, InImage, Working
  <1>3. (mpc \in Working /\ mpc' \in Working) \/ (queue = {} /\ running = {})
    <2>1. CASE PartsTaken \/ GpuPrior
      <3>1. mpc \in {"parts", "gpu"} /\ (mpc' = "gpu" \/ mpc' = "sync")
        BY <2>1 DEF PartsTaken, GpuPrior
      <3>2. QED
        BY <3>1 DEF Working
    <2>2. CASE SyncAndPush
      BY <2>2 DEF SyncAndPush, AllRun
    <2>3. CASE GpuResidual
      BY <2>3 DEF GpuResidual, DirectoryInv, TasksInv, TaskOK, Working
    <2>4. QED
      BY <2>1, <2>2, <2>3
  <1>4. TasksInv' /\ PartsInv'
    BY <1>1, <1>3, SameImage
  <1>5. MadeInv'
    BY <1>1, <1>2 DEF DirectoryInv, MadeInv
  <1>6. t \in Nat /\ Len(dir) \in Nat /\ t <= Len(dir)
    BY <1>2, DirectoryFacts DEF DirectoryInv, ControlInv
  <1>7. ControlInv'
    BY <1>1, <1>2, <1>6 DEF DirectoryInv, ControlInv, PartsTaken, GpuPrior, SyncAndPush, GpuResidual,
                            InImage, Working
  <1>8. VariablesInv'
    BY <1>1, <1>2, <1>6 DEF DirectoryInv, ControlInv, VariablesInv, PartsTaken, GpuPrior, SyncAndPush,
                            GpuResidual, PriorAfter, InImage, Working
  <1>9. QED
    BY <1>4, <1>5, <1>7, <1>8 DEF DirectoryInv

\* When the variables go out of scope the queue is empty: what was under way is written.
LEMMA EndImageStep == DirectoryInv /\ EndImage => DirectoryInv'
  <1> SUFFICES ASSUME DirectoryInv, EndImage PROVE DirectoryInv'
    OBVIOUS
  <1>1. /\ mpc = "end" /\ mpc' = "image" /\ t' = t + 1 /\ bd' = None /\ bda' = None /\ dp' = 0
        /\ UNCHANGED <<dir, i, priorBd, type, wrote, queue, running>>
    BY DEF EndImage, poolVars
  <1>2. /\ t \in Nat \ {0} /\ t <= Len(dir) /\ i = dir[t].parts /\ Len(dir) \in Nat
    BY <1>1, DirectoryFacts DEF DirectoryInv, ControlInv, InImage, Working
  <1>3. queue = {} /\ running = {}
    BY <1>1 DEF DirectoryInv, TasksInv, TaskOK, Working
  <1>4. ControlInv'
    BY <1>1, <1>2 DEF DirectoryInv, ControlInv, InImage, Working
  <1>5. VariablesInv'
    BY <1>1, <1>2 DEF DirectoryInv, VariablesInv, InImage, Working
  <1>6. \A o \in DOMAIN type : o[2] \in Nat /\ o[2] < t' /\ (o[2] < t \/ o[2] = t)
    BY <1>1, <1>2 DEF DirectoryInv, MadeInv
  <1>7. MadeInv'
    BY <1>1, <1>6 DEF DirectoryInv, MadeInv, InImage, Working
  <1>8. TasksInv'
    BY <1>1, <1>3 DEF TasksInv
  <1>9. PartsInv'
    <2> SUFFICES ASSUME NEW o \in DOMAIN type
                 PROVE  wrote[o] \subseteq Parts(o[2]) /\ (HasTasks(o) => wrote[o] = Parts(o[2]))
      BY <1>1, <1>6 DEF PartsInv, HasTasks, Parts
    <2>1. /\ wrote[o] \subseteq Parts(o[2])
          /\ HasTasks(o) /\ o[2] < t => wrote[o] = Parts(o[2])
          /\ HasTasks(o) /\ o[2] = t => \A p \in 1..i : p \in wrote[o] \/ Underway(o, p)
      BY DEF DirectoryInv, PartsInv
    <2>2. \A p : ~Underway(o, p)
      BY <1>3 DEF Underway
    <2>3. o[2] = t => Parts(o[2]) = 1..i
      BY <1>2 DEF Parts
    <2>4. QED
      BY <2>1, <2>2, <2>3, <1>6
  <1>10. QED
    BY <1>4, <1>5, <1>7, <1>8, <1>9 DEF DirectoryInv

LEMMA StartTaskStep ==
    ASSUME DirectoryInv, NEW k \in queue, StartTask(k)
    PROVE  DirectoryInv'
  <1> DEFINE r == [task |-> k, at |-> IF k.to = "bd" THEN bd ELSE bda]
  <1>1. /\ queue' = queue \ {k} /\ running' = running \union {r}
        /\ UNCHANGED <<dir, mpc, t, i, dp, bd, bda, priorBd, type, wrote>>
    BY DEF StartTask
  <1>2. ControlInv' /\ VariablesInv' /\ MadeInv'
    BY <1>1 DEF DirectoryInv, ControlInv, VariablesInv, MadeInv
  <1>3. r.task = k /\ r.at = IF k.to = "bd" THEN bd ELSE bda
    OBVIOUS
  <1> HIDE DEF r
  <1>4. TasksInv'
    <2>1. \A x : TaskOK(x) => TaskOK(x)'
      BY <1>1 DEF TaskOK
    <2>2. QED
      BY <1>1, <1>3, <2>1 DEF DirectoryInv, TasksInv
  <1>5. PartsInv'
    <2>1. ASSUME NEW o, NEW p, Underway(o, p) PROVE Underway(o, p)'
      <3>1. CASE \E x \in running : x.task.part = p /\ x.at = o
        BY <3>1, <1>1 DEF Underway
      <3>2. CASE \E x \in queue : x.part = p /\ o = IF x.to = "bd" THEN bd ELSE bda
        <4>1. PICK x \in queue : x.part = p /\ o = IF x.to = "bd" THEN bd ELSE bda
          BY <3>2
        <4>2. CASE x = k
          BY <4>1, <4>2, <1>1, <1>3 DEF Underway
        <4>3. CASE x # k
          BY <4>1, <4>3, <1>1 DEF Underway
        <4>4. QED
          BY <4>2, <4>3
      <3>3. QED
        BY <2>1, <3>1, <3>2 DEF Underway
    <2>2. QED
      BY <1>1, <2>1 DEF DirectoryInv, PartsInv, HasTasks, Parts
  <1>6. QED
    BY <1>2, <1>4, <1>5 DEF DirectoryInv

LEMMA EndTaskStep ==
    ASSUME DirectoryInv, NEW r \in running, EndTask(r)
    PROVE  DirectoryInv'
  <1>1. /\ running' = running \ {r}
        /\ wrote' = [o \in DOMAIN wrote |-> wrote[o] \union (IF o = r.at THEN {r.task.part} ELSE {})]
        /\ UNCHANGED <<dir, mpc, t, i, dp, bd, bda, priorBd, type, queue>>
    BY DEF EndTask
  <1>2. ControlInv' /\ VariablesInv'
    BY <1>1 DEF DirectoryInv, ControlInv, VariablesInv
  <1>3. MadeInv' /\ DOMAIN type = DOMAIN wrote
    BY <1>1 DEF DirectoryInv, MadeInv
  <1>4. TasksInv'
    <2>1. \A x : TaskOK(x) => TaskOK(x)'
      BY <1>1 DEF TaskOK
    <2>2. QED
      BY <1>1, <2>1 DEF DirectoryInv, TasksInv
  <1>5. /\ TaskOK(r.task) /\ r.at \in {bd, bda} /\ r.at # None /\ r.at[2] = t
        /\ t \in Nat \ {0} /\ i \in Nat /\ dir[t].parts \in Nat /\ i <= dir[t].parts
    <2>1. TaskOK(r.task) /\ r.at = IF r.task.to = "bd" THEN bd ELSE bda
      BY DEF DirectoryInv, TasksInv
    <2>2. mpc \in InImage /\ (r.task.to = "bda" => bda # None) /\ r.task.to \in {"bd", "bda"}
      BY <2>1 DEF TaskOK, InImage
    <2>3. t \in Nat \ {0} /\ i \in Nat /\ dir[t].parts \in Nat /\ i <= dir[t].parts
      BY <2>2, DirectoryFacts DEF DirectoryInv, ControlInv
    <2>4. bd = Out(t) /\ (bda = None \/ bda = Alpha(t))
      BY <2>2 DEF DirectoryInv, VariablesInv
    <2>5. QED
      BY <2>1, <2>2, <2>3, <2>4, Names
  <1>6. PartsInv'
    <2> SUFFICES ASSUME NEW o \in DOMAIN type
                 PROVE  /\ wrote'[o] \subseteq Parts(o[2])
                        /\ HasTasks(o) /\ o[2] < t => wrote'[o] = Parts(o[2])
                        /\ HasTasks(o) /\ o[2] = t => \A p \in 1..i : p \in wrote'[o] \/ Underway(o, p)'
      BY <1>1 DEF PartsInv, HasTasks, Parts
    <2>1. /\ wrote[o] \subseteq Parts(o[2])
          /\ HasTasks(o) /\ o[2] < t => wrote[o] = Parts(o[2])
          /\ HasTasks(o) /\ o[2] = t => \A p \in 1..i : p \in wrote[o] \/ Underway(o, p)
      BY DEF DirectoryInv, PartsInv
    <2>2. CASE o = r.at
      <3>1. wrote'[o] = wrote[o] \union {r.task.part}
        BY <2>2, <1>1, <1>3
      <3>2. o[2] = t /\ r.task.part \in 1..i /\ t \in Nat
        BY <2>2, <1>5 DEF TaskOK
      <3>3. r.task.part \in Parts(o[2])
        BY <3>2, <1>5 DEF Parts
      <3>4. ASSUME NEW p, Underway(o, p) PROVE p = r.task.part \/ Underway(o, p)'
        BY <3>4, <1>1 DEF Underway
      <3>5. QED
        BY <2>1, <3>1, <3>2, <3>3, <3>4
    <2>3. CASE o # r.at
      <3>1. wrote'[o] = wrote[o]
        BY <2>3, <1>1, <1>3
      <3>2. ASSUME NEW p, Underway(o, p) PROVE Underway(o, p)'
        BY <3>2, <2>3, <1>1 DEF Underway
      <3>3. QED
        BY <2>1, <3>1, <3>2
    <2>4. QED
      BY <2>2, <2>3
  <1>7. QED
    BY <1>2, <1>3, <1>4, <1>6 DEF DirectoryInv

LEMMA DirectoryStep == DirectoryInv /\ [Next]_vars => DirectoryInv'
  <1> SUFFICES ASSUME DirectoryInv, [Next]_vars PROVE DirectoryInv'
    OBVIOUS
  <1>1. CASE BeginImage
    BY <1>1, BeginImageStep
  <1>2. CASE TakePart
    BY <1>2, TakePartStep
  <1>3. CASE PartsTaken \/ GpuPrior \/ SyncAndPush \/ GpuResidual
    BY <1>3, MainOrderStep
  <1>4. CASE EndImage
    BY <1>4, EndImageStep
  <1>5. CASE Exit
    <2>1. /\ mpc = "image" /\ mpc' = "exit"
          /\ UNCHANGED <<dir, t, i, dp, bd, bda, priorBd, type, wrote, queue, running>>
      BY <1>5 DEF Exit, poolVars
    <2>2. queue = {} /\ running = {}
      BY <2>1 DEF DirectoryInv, TasksInv, TaskOK, Working
    <2>3. TasksInv' /\ PartsInv'
      BY <2>1, <2>2, SameImage DEF poolVars
    <2>4. QED
      BY <2>1, <2>3 DEF DirectoryInv, ControlInv, VariablesInv, MadeInv, InImage, Working
  <1>6. CASE PoolStep
    BY <1>6, StartTaskStep, EndTaskStep DEF PoolStep
  <1>7. CASE UNCHANGED vars
    BY <1>7 DEF vars, DirectoryInv, ControlInv, VariablesInv, MadeInv, TasksInv, TaskOK, PartsInv,
                HasTasks, Parts, Underway
  <1>8. QED
    BY <1>1, <1>2, <1>3, <1>4, <1>5, <1>6, <1>7 DEF Next, MainStep, Finished

LEMMA DirectoryInvariance == Spec => []DirectoryInv
  <1>1. QED
    BY DirectoryInit, DirectoryStep, PTL DEF Spec
-----------------------------------------------------------------------------
(* The files on disk                                                       *)

LEMMA Paths ==
    ASSUME NEW n \in Nat
    PROVE  Path(Out(n)) = Out(n) /\ Path(Alpha(n)) = <<"alpha", 0>> /\ Out(n) # <<"alpha", 0>>
  BY DEF Path, Out, Alpha

LEMMA DiskBegin == DirectoryInv /\ DiskInv /\ BeginImage => DiskInv'
  <1> SUFFICES ASSUME DirectoryInv, DiskInv, BeginImage PROVE DiskInv'
    OBVIOUS
  <1> DEFINE own == IF f.alpha /\ dir[t].alpha /\ ~f.rgba THEN {Alpha(t)} ELSE {}
             new == {Out(t)} \union own
             at(p) == \E o \in new : Path(o) = p
  <1>1. /\ mpc = "image" /\ mpc' = "parts" /\ t \in Nat /\ t' = t /\ priorBd' = priorBd
        /\ bd' = Out(t) /\ bda' = IF own # {} THEN Alpha(t) ELSE None
    BY DEF BeginImage, DirectoryInv, ControlInv
  <1>2. disk' = [p \in DOMAIN disk \union {Path(o) : o \in new} |->
                    IF at(p) THEN CHOOSE o \in new : Path(o) = p ELSE disk[p]]
    BY DEF BeginImage
  <1>3. /\ Path(Out(t)) = Out(t) /\ Path(Alpha(t)) = <<"alpha", 0>> /\ Out(t) # <<"alpha", 0>>
        /\ Out(t) # Alpha(t)
    BY <1>1, Paths, Names
  <1>4. \A o, q \in new : Path(o) = Path(q) => o = q
    BY <1>3
  <1>5. bd' \in new /\ (bda' = None \/ bda' \in new)
    BY <1>1
  <1>6. \A o \in new : o = Out(t) \/ o = Alpha(t)
    OBVIOUS
  <1> HIDE DEF new
  <1>7. \A o \in new : Holds(o)'
    <2> TAKE o \in new
    <2>1. at(Path(o)) /\ Path(o) \in {Path(q) : q \in new}
      OBVIOUS
    <2>2. (CHOOSE q \in new : Path(q) = Path(o)) = o
      BY <1>4
    <2> HIDE DEF at
    <2>3. Path(o) \in DOMAIN disk' /\ disk'[Path(o)] = o
      BY <1>2, <2>1, <2>2
    <2>4. QED
      BY <2>3 DEF Holds, Path
  <1>8. priorBd = None \/ Holds(priorBd)'
    <2>1. ASSUME priorBd # None PROVE Holds(priorBd)'
      <3>1. PICK n \in Nat : priorBd = Out(n) /\ n < t
        BY <1>1, <2>1 DEF DiskInv, PriorInv
      <3>2. Path(priorBd) = priorBd /\ priorBd # Out(t) /\ priorBd # <<"alpha", 0>>
        BY <1>1, <3>1, Paths, Names
      <3>3. ~at(Path(priorBd))
        BY <1>3, <1>6, <3>2
      <3>4. priorBd \in DOMAIN disk /\ disk[priorBd] = priorBd
        BY <2>1, <3>2 DEF DiskInv, Open, Holds
      <3> HIDE DEF at
      <3>5. priorBd \in DOMAIN disk' /\ disk'[priorBd] = priorBd
        BY <1>2, <3>2, <3>3, <3>4
      <3>6. QED
        BY <1>1, <3>2, <3>5 DEF Holds
    <2>2. QED
      BY <2>1
  <1>9. PriorInv'
    BY <1>1 DEF DiskInv, PriorInv
  <1>10. QED
    BY <1>1, <1>5, <1>7, <1>8, <1>9 DEF DiskInv, Open

LEMMA DiskStep == DirectoryInv /\ DiskInv /\ [Next]_vars => DiskInv'
  <1> SUFFICES ASSUME DirectoryInv, DiskInv, [Next]_vars PROVE DiskInv'
    OBVIOUS
  <1>1. CASE BeginImage
    BY <1>1, DiskBegin
  <1>2. CASE TakePart \/ PartsTaken \/ GpuPrior \/ Exit \/ PoolStep \/ UNCHANGED vars
    <2>1. UNCHANGED <<bd, bda, priorBd, disk, t>>
      BY <1>2 DEF TakePart, PartsTaken, GpuPrior, Exit, PoolStep, StartTask, EndTask, vars
    <2>2. mpc \in {"residual", "end"} => mpc' = mpc
      BY <1>2 DEF TakePart, PartsTaken, GpuPrior, Exit, PoolStep, StartTask, EndTask, vars
    <2>3. QED
      BY <2>1, <2>2 DEF DiskInv, PriorInv, Open, Holds
  <1>3. CASE SyncAndPush
    <2>1. /\ priorBd' = bd /\ mpc' \in {"residual", "end"} /\ UNCHANGED <<bd, bda, disk, t>>
      BY <1>3 DEF SyncAndPush, PriorAfter
    <2>2. bd = Out(t) /\ t \in Nat
      BY <1>3 DEF SyncAndPush, DirectoryInv, ControlInv, VariablesInv, InImage, Working
    <2>3. PriorInv'
      BY <2>1, <2>2 DEF PriorInv
    <2>4. QED
      BY <2>1, <2>3 DEF DiskInv, Open, Holds
  <1>4. CASE GpuResidual
    BY <1>4 DEF GpuResidual, DiskInv, PriorInv, Open, Holds
  <1>5. CASE EndImage
    <2>1. /\ bd' = None /\ bda' = None /\ t' = t + 1 /\ t \in Nat /\ UNCHANGED <<priorBd, disk>>
      BY <1>5 DEF EndImage, DirectoryInv, ControlInv
    <2>2. PriorInv'
      BY <2>1 DEF DiskInv, PriorInv
    <2>3. QED
      BY <2>1, <2>2 DEF DiskInv, Open, Holds
  <1>6. QED
    BY <1>1, <1>2, <1>3, <1>4, <1>5 DEF Next, MainStep, Finished

LEMMA DiskInvariance == Spec => []DiskInv
  <1>1. Init => DiskInv
    BY DEF Init, DiskInv, PriorInv, Open
  <1>2. QED
    BY <1>1, DiskStep, DirectoryInvariance, PTL DEF Spec
-----------------------------------------------------------------------------
\* No task of the pool, queued or running, ever sees variables or bitmaps of
\* the loop that have gone out of scope or are of another image.
THEOREM TasksStayInScope == Spec => []TasksInScope
  <1>1. DirectoryInv => TasksInScope
    <2> SUFFICES ASSUME DirectoryInv PROVE TasksInScope
      OBVIOUS
    <2>1. ASSUME NEW k, TaskOK(k)
          PROVE  /\ dp = k.image /\ bd = Out(k.image) /\ k.image = t /\ t \in Nat
                 /\ bda = None \/ bda = Alpha(t)
                 /\ k.to = "bda" => bda # None
                 /\ k.to \in {"bd", "bda"}
      BY <2>1 DEF DirectoryInv, ControlInv, TaskOK, VariablesInv, InImage
    <2>2. \A r \in running : dp = r.task.image /\ r.at \in Open /\ r.at[2] = r.task.image
      <3> TAKE r \in running
      <3>1. TaskOK(r.task) /\ r.at = IF r.task.to = "bd" THEN bd ELSE bda
        BY DEF DirectoryInv, TasksInv
      <3>2. QED
        BY <2>1, <3>1, Names DEF Open
    <2>3. \A k \in queue : TaskOK(k)
      BY DEF DirectoryInv, TasksInv
    <2>4. QED
      BY <2>1, <2>2, <2>3 DEF TasksInScope
  <1>2. QED
    BY <1>1, DirectoryInvariance, PTL

\* A file that has tasks is closed with all its parts, whatever the order of
\* the tasks and the GPU passes, and is not opened again while it is open.
THEOREM ClosedFilesComplete == Spec => []ClosedComplete
  <1>1. DirectoryInv /\ DiskInv => ClosedComplete
    <2> SUFFICES ASSUME DirectoryInv, DiskInv PROVE ClosedComplete
      OBVIOUS
    <2>1. ASSUME NEW o \in DOMAIN type \ Open, HasTasks(o) PROVE wrote[o] = 1..dir[o[2]].parts
      <3>1. o # None /\ o \notin {bd, bda}
        BY DEF Open, DirectoryInv, MadeInv, None
      <3>2. o[2] < t
        BY <3>1 DEF DirectoryInv, MadeInv
      <3>3. QED
        BY <2>1, <3>2 DEF DirectoryInv, PartsInv, Parts
    <2>2. \A o \in Open : disk[Path(o)] = o
      BY DEF DiskInv, Holds
    <2>3. QED
      BY <2>1, <2>2 DEF ClosedComplete
  <1>2. QED
    BY <1>1, DirectoryInvariance, DiskInvariance, PTL

\* priorBd keeps the file of the image whose blocks the GPU writes open.
THEOREM PriorStaysOpen == Spec => []PriorIsOpen
  <1>1. DirectoryInv => PriorIsOpen
    <2> SUFFICES ASSUME DirectoryInv PROVE PriorIsOpen
      OBVIOUS
    <2>1. t \in Nat \ {0}
      BY DEF DirectoryInv, ControlInv
    <2>2. ASSUME mpc = "gpu" PROVE Out(t - 1) \in Open
      <3>1. t > 1 /\ priorBd = Out(t - 1) /\ t - 1 \in Nat
        BY <2>1, <2>2 DEF DirectoryInv, ControlInv, VariablesInv, Working
      <3>2. QED
        BY <3>1, Names DEF Open
    <2>3. ASSUME mpc = "residual" PROVE Out(t) \in Open
      BY <2>1, <2>3, Names DEF DirectoryInv, VariablesInv, Open
    <2>4. QED
      BY <2>2, <2>3 DEF PriorIsOpen
  <1>2. QED
    BY <1>1, DirectoryInvariance, PTL
=============================================================================
