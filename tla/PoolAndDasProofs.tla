-------------------------- MODULE PoolAndDasProofs --------------------------
(***************************************************************************)
(* The two places where threads meet one another: the queue of the thread  *)
(* pool and the deduplication table das.                                   *)
(***************************************************************************)
EXTENDS ThreadPool, DasTable, FiniteSetTheorems, TLAPS

(***************************************************************************)
(* 1. The pool, for every number of threads and every list of batches: no  *)
(* task is lost or run twice, no wake-up is lost, and the pool implements  *)
(* the hand-out the label generators are modelled with.                    *)
(***************************************************************************)
(* Where the driver is, its counters are; a worker that runs has a task.   *)
Counters ==
  /\ stop <=> driver \in {"notify_all", "join", "gone"}
  /\ driver = "enqueue" => batch <= Len(BatchSizes) /\ next < BatchSizes[batch] /\ got = 0
  /\ driver = "notify" => batch <= Len(BatchSizes) /\ next <= BatchSizes[batch] /\ got = 0
  /\ driver = "get" =>
       /\ batch <= Len(BatchSizes) /\ next = BatchSizes[batch] /\ got < next
       /\ \A i \in 1 .. got : <<batch, i>> \in ready
  /\ \A t \in Workers : at[t] = "run" <=> task[t] # NoTask

(* A task that has left the queue was enqueued before those still in it.   *)
Left(b) == b[1] < batch \/ (b[1] = batch /\ b[2] <= next - Len(tasks))

Places ==
  /\ Len(tasks) <= next
  /\ \A i \in 1 .. Len(tasks) : tasks[i] = <<batch, next - Len(tasks) + i>>
  /\ \A b \in ready : Left(b)
  /\ \A t \in Workers : task[t] # NoTask => Left(task[t]) /\ task[t] \notin ready
  /\ \A t, u \in Workers : task[t] = task[u] /\ t # u => task[t] = NoTask

PoolInv == PoolTypeOK /\ Counters /\ Places

LEMMA SizesType ==
  /\ Len(BatchSizes) \in Nat \ {0}
  /\ \A b \in 1 .. Len(BatchSizes) : BatchSizes[b] \in Nat \ {0}
BY PoolAssumption

LEMMA NoTaskIsNone == NoTask \notin Tasks
BY DEF NoTask, Tasks

LEMMA PoolStarts == PoolInit => PoolInv
<1> SUFFICES ASSUME PoolInit PROVE PoolInv
  OBVIOUS
<1>1. PoolTypeOK
  <2>1. tasks \in Seq(Tasks) /\ ready \subseteq Tasks /\ next \in Nat /\ got \in Nat
    BY DEF PoolInit
  <2>2. /\ batch \in 1 .. Len(BatchSizes) + 1
        /\ at \in [Workers -> {"lock", "wait", "run", "exit"}]
        /\ task \in [Workers -> Tasks \cup {NoTask}]
    BY SizesType DEF PoolInit
  <2> QED BY <2>1, <2>2 DEF PoolInit, PoolTypeOK
<1>2. Counters
  BY SizesType DEF PoolInit, Counters
<1>3. Places
  BY DEF PoolInit, Places
<1> QED BY <1>1, <1>2, <1>3 DEF PoolInv

LEMMA EnqueueKeeps ==
  ASSUME PoolInv, Enqueue
  PROVE  PoolInv'
<1> USE DEF PoolInv
<1>1. /\ batch \in 1 .. Len(BatchSizes) /\ next \in Nat /\ next < BatchSizes[batch]
      /\ tasks \in Seq(Tasks) /\ Len(BatchSizes) \in Nat /\ BatchSizes[batch] \in Nat
  BY SizesType DEF Enqueue, PoolTypeOK, Counters
<1>2. <<batch, next + 1>> \in Tasks
  BY <1>1 DEF Tasks
<1>3. tasks' \in Seq(Tasks)
  BY <1>1, <1>2 DEF Enqueue
<1>4. PoolTypeOK'
  BY <1>3 DEF Enqueue, PoolTypeOK
<1>5. Counters'
  BY <1>1 DEF Enqueue, Counters
<1>6. /\ Len(tasks') = Len(tasks) + 1 /\ Len(tasks) \in Nat
      /\ \A i \in 1 .. Len(tasks) : tasks'[i] = tasks[i]
      /\ tasks'[Len(tasks) + 1] = <<batch, next + 1>>
  BY <1>1 DEF Enqueue
<1>7. next' - Len(tasks') = next - Len(tasks) /\ batch' = batch /\ next' = next + 1
  BY <1>1, <1>6 DEF Enqueue
<1>8. \A b \in Tasks : Left(b) => Left(b)'
  BY <1>7 DEF Left
<1>9. \A i \in 1 .. Len(tasks') : tasks'[i] = <<batch', next' - Len(tasks') + i>>
  <2> SUFFICES ASSUME NEW i \in 1 .. Len(tasks')
               PROVE  tasks'[i] = <<batch', next' - Len(tasks') + i>>
    OBVIOUS
  <2>1. CASE i = Len(tasks) + 1
    BY <2>1, <1>1, <1>6, <1>7
  <2>2. CASE i # Len(tasks) + 1
    BY <2>2, <1>6, <1>7 DEF Places
  <2> QED BY <2>1, <2>2
<1>10. Places'
  <2>1. Len(tasks') <= next'
    BY <1>1, <1>6, <1>7 DEF Places
  <2>2. UNCHANGED <<ready, task>>
    BY DEF Enqueue
  <2> QED BY <1>8, <1>9, <2>1, <2>2 DEF Places, PoolTypeOK
<1> QED BY <1>4, <1>5, <1>10

(* A step that leaves the queue, the tasks and the batch alone.            *)
LEMMA PlacesUntouched ==
  ASSUME Places, UNCHANGED <<batch, next, tasks, task, ready>>
  PROVE  Places'
BY DEF Places, Left

LEMMA NotifyOneKeeps ==
  ASSUME PoolInv, NotifyOne
  PROVE  PoolInv'
<1> USE DEF PoolInv
<1>1. at' \in [Workers -> {"lock", "wait", "run", "exit"}]
  BY DEF NotifyOne, PoolTypeOK
<1>2. \A t \in Workers : at'[t] = "run" <=> at[t] = "run"
  BY DEF NotifyOne, PoolTypeOK, Waiting
<1>3. PoolTypeOK'
  BY <1>1 DEF NotifyOne, AfterNotify, PoolTypeOK
<1>4. Counters'
  <2>1. batch \in 1 .. Len(BatchSizes) /\ BatchSizes[batch] \in Nat \ {0} /\ next \in Nat
    BY SizesType DEF NotifyOne, PoolTypeOK, Counters
  <2> QED BY <1>2, <2>1 DEF NotifyOne, AfterNotify, Counters
<1>5. Places'
  BY PlacesUntouched DEF NotifyOne
<1> QED BY <1>3, <1>4, <1>5

(* When the last future answers, the queue is empty.                       *)
LEMMA LastGet ==
  ASSUME PoolInv, Get, ~(got + 1 < BatchSizes[batch])
  PROVE  tasks = <<>>
<1> USE DEF PoolInv
<1>1. batch \in 1 .. Len(BatchSizes) /\ BatchSizes[batch] \in Nat \ {0}
      /\ next = BatchSizes[batch] /\ got \in Nat /\ got < next
  BY SizesType DEF Get, PoolTypeOK, Counters
<1>2. <<batch, next>> \in ready
  BY <1>1 DEF Get
<1>3. Left(<<batch, next>>)
  BY <1>2 DEF Places
<1>4. next <= next - Len(tasks) /\ Len(tasks) \in Nat
  BY <1>1, <1>3 DEF Left, PoolTypeOK
<1>5. Len(tasks) = 0
  BY <1>1, <1>4
<1> QED BY <1>5 DEF PoolTypeOK

LEMMA GetKeeps ==
  ASSUME PoolInv, Get
  PROVE  PoolInv'
<1> USE DEF PoolInv
<1>1. batch \in 1 .. Len(BatchSizes) /\ BatchSizes[batch] \in Nat \ {0}
      /\ next = BatchSizes[batch] /\ got \in Nat /\ got < next /\ Len(BatchSizes) \in Nat
  BY SizesType DEF Get, PoolTypeOK, Counters
<1>2. CASE got + 1 < BatchSizes[batch]
  <2>1. PoolTypeOK'
    BY <1>1, <1>2 DEF Get, PoolTypeOK
  <2>2. \A i \in 1 .. got + 1 : <<batch, i>> \in ready
    BY <1>1 DEF Get, Counters
  <2>3. Counters'
    BY <1>1, <1>2, <2>2 DEF Get, Counters
  <2>4. Places'
    BY <1>2, PlacesUntouched DEF Get
  <2> QED BY <2>1, <2>3, <2>4
<1>3. CASE ~(got + 1 < BatchSizes[batch])
  <2>1. tasks = <<>>
    BY <1>3, LastGet
  <2>2. PoolTypeOK'
    BY <1>1, <1>3 DEF Get, PoolTypeOK
  <2>3. batch < Len(BatchSizes) => BatchSizes[batch + 1] \in Nat \ {0}
    BY <1>1, SizesType
  <2>4. Counters'
    BY <1>1, <1>3, <2>3 DEF Get, Counters
  <2>5. \A b \in Tasks : Left(b) => Left(b)'
    BY <1>1, <1>3, <2>1, SizesType DEF Get, Left, Tasks
  <2>6. Places'
    BY <1>3, <2>1, <2>5 DEF Get, Places, PoolTypeOK
  <2> QED BY <2>2, <2>4, <2>6
<1> QED BY <1>2, <1>3

LEMMA CheckKeeps ==
  ASSUME PoolInv, NEW t \in Workers, Check(t)
  PROVE  PoolInv'
<1> USE DEF PoolInv
<1>1. CASE tasks = <<>>
  <2>1. PoolTypeOK'
    BY <1>1 DEF Check, PoolTypeOK, client
  <2>2. Counters'
    BY <1>1 DEF Check, PoolTypeOK, Counters, client
  <2>3. Places'
    BY <1>1, PlacesUntouched DEF Check, client
  <2> QED BY <2>1, <2>2, <2>3
<1>2. CASE tasks # <<>>
  <2>1. /\ tasks \in Seq(Tasks) /\ tasks' = Tail(tasks) /\ Len(tasks) \in Nat \ {0}
        /\ Len(tasks') = Len(tasks) - 1 /\ Head(tasks) = tasks[1] /\ tasks[1] \in Tasks
        /\ \A i \in 1 .. Len(tasks') : tasks'[i] = tasks[i + 1]
    BY <1>2 DEF Check, PoolTypeOK
  <2>2. /\ UNCHANGED <<driver, batch, next, got, stop, ready>>
        /\ task' = [task EXCEPT ![t] = tasks[1]] /\ at' = [at EXCEPT ![t] = "run"]
        /\ at[t] = "lock" /\ tasks[1] # NoTask
    BY <1>2, <2>1, NoTaskIsNone DEF Check, client
  <2>3. PoolTypeOK'
    BY <2>1, <2>2 DEF PoolTypeOK
  <2>4. Counters'
    BY <2>2 DEF PoolTypeOK, Counters
  <2>5. batch \in Nat /\ next \in Nat /\ next' - Len(tasks') = next - Len(tasks) + 1
    BY <2>1, <2>2, SizesType DEF PoolTypeOK
  <2>6. tasks[1] = <<batch, next - Len(tasks) + 1>>
    BY <2>1 DEF Places
  <2>7. \A b \in Tasks : b = tasks[1] => Left(b)' /\ ~Left(b)
    <3>1. tasks[1][1] = batch /\ tasks[1][2] = next - Len(tasks) + 1
      BY <2>6
    <3> QED BY <2>1, <2>2, <2>5, <3>1 DEF Left
  <2>8. \A b \in Tasks : Left(b) => Left(b)'
    BY <2>1, <2>2, <2>5 DEF Left, Tasks
  <2>9. tasks[1] \notin ready /\ \A u \in Workers : task[u] # tasks[1]
    BY <2>1, <2>2, <2>7 DEF Places
  <2>10. Places'
    <3>1. Len(tasks') <= next'
      BY <2>1, <2>2, <2>5 DEF Places
    <3>2. \A i \in 1 .. Len(tasks') : tasks'[i] = <<batch', next' - Len(tasks') + i>>
      BY <2>1, <2>2, <2>5 DEF Places
    <3>3. \A b \in ready' : Left(b)'
      BY <2>2, <2>8 DEF Places, PoolTypeOK
    <3>4. \A u \in Workers : (task[u] # NoTask => Left(task[u]) /\ task[u] \notin ready)'
      <4> SUFFICES ASSUME NEW u \in Workers, task'[u] # NoTask
                   PROVE  (Left(task[u]) /\ task[u] \notin ready)'
        OBVIOUS
      <4>1. CASE u = t
        <5>1. task'[u] = tasks[1]
          BY <2>2, <4>1 DEF PoolTypeOK
        <5> QED BY <2>1, <2>2, <2>7, <2>9, <5>1 DEF Left
      <4>2. CASE u # t
        <5>1. task'[u] = task[u] /\ task[u] \in Tasks
          BY <2>2, <4>2 DEF PoolTypeOK
        <5>2. Left(task[u]) /\ task[u] \notin ready
          BY <5>1 DEF Places
        <5> QED BY <2>2, <2>8, <5>1, <5>2 DEF Left
      <4> QED BY <4>1, <4>2
    <3>5. \A u, v \in Workers : task'[u] = task'[v] /\ u # v => task'[u] = NoTask
      BY <2>2, <2>9 DEF Places, PoolTypeOK
    <3> QED BY <3>1, <3>2, <3>3, <3>4, <3>5 DEF Places
  <2> QED BY <2>3, <2>4, <2>10
<1> QED BY <1>1, <1>2

LEMMA RunKeeps ==
  ASSUME PoolInv, NEW t \in Workers, Run(t)
  PROVE  PoolInv'
<1> USE DEF PoolInv
<1>1. task[t] # NoTask /\ task[t] \in Tasks
  BY DEF Run, PoolTypeOK, Counters
<1>2. PoolTypeOK'
  BY <1>1 DEF Run, PoolTypeOK, client
<1>3. Counters'
  BY DEF Run, PoolTypeOK, Counters, client
<1>4. \A b \in Tasks : Left(b)' <=> Left(b)
  BY DEF Run, Left, client
<1>5. Places'
  <2>1. \A b \in ready' : Left(b)'
    BY <1>1, <1>4 DEF Run, Places, PoolTypeOK
  <2>2. \A u \in Workers : (task[u] # NoTask => Left(task[u]) /\ task[u] \notin ready)'
    <3> SUFFICES ASSUME NEW u \in Workers, task'[u] # NoTask
                 PROVE  (Left(task[u]) /\ task[u] \notin ready)'
      OBVIOUS
    <3>1. u # t /\ task'[u] = task[u] /\ task[u] \in Tasks
      BY DEF Run, PoolTypeOK
    <3>2. Left(task[u]) /\ task[u] \notin ready /\ task[u] # task[t]
      BY <1>1, <3>1 DEF Places
    <3> QED BY <1>4, <3>1, <3>2 DEF Run, Left, client
  <2>3. \A u, v \in Workers : task'[u] = task'[v] /\ u # v => task'[u] = NoTask
    BY DEF Run, Places, PoolTypeOK
  <2> QED BY <2>1, <2>2, <2>3 DEF Run, Places, client
<1> QED BY <1>2, <1>3, <1>5

LEMMA SpuriousKeeps ==
  ASSUME PoolInv, NEW t \in Workers, SpuriousWake(t)
  PROVE  PoolInv'
<1>1. PoolTypeOK'
  BY DEF PoolInv, SpuriousWake, PoolTypeOK, client
<1>2. Counters'
  BY DEF PoolInv, SpuriousWake, PoolTypeOK, Counters, client
<1>3. Places'
  BY PlacesUntouched DEF PoolInv, SpuriousWake, client
<1> QED BY <1>1, <1>2, <1>3 DEF PoolInv

LEMMA EndKeeps ==
  ASSUME PoolInv, SetStop \/ NotifyAll \/ Join
  PROVE  PoolInv'
<1>1. PoolTypeOK'
  BY DEF PoolInv, SetStop, NotifyAll, Join, PoolTypeOK
<1>2. Counters'
  BY DEF PoolInv, SetStop, NotifyAll, Join, PoolTypeOK, Counters
<1>3. Places'
  BY PlacesUntouched DEF PoolInv, SetStop, NotifyAll, Join
<1> QED BY <1>1, <1>2, <1>3 DEF PoolInv

LEMMA PoolStep == PoolInv /\ [PoolNext]_poolVars => PoolInv'
<1> SUFFICES ASSUME PoolInv, [PoolNext]_poolVars PROVE PoolInv'
  OBVIOUS
<1>1. CASE UNCHANGED poolVars
  BY <1>1, PlacesUntouched DEF PoolInv, poolVars, PoolTypeOK, Counters
<1>2. CASE Driver
  BY <1>2, EnqueueKeeps, NotifyOneKeeps, GetKeeps, EndKeeps DEF Driver
<1>3. ASSUME NEW t \in Workers, Worker(t) \/ SpuriousWake(t) PROVE PoolInv'
  BY <1>3, CheckKeeps, RunKeeps, SpuriousKeeps DEF Worker
<1> QED BY <1>1, <1>2, <1>3 DEF PoolNext, Done

LEMMA PoolInvariant == PoolSpec => []PoolInv
<1> QED BY PoolStarts, PoolStep, PTL DEF PoolSpec

(* Every variable of the pool stays in its type: the driver never enqueues *)
(* beyond a batch and no worker holds what is not a task.                  *)
THEOREM PoolTypeCorrect == PoolSpec => []PoolTypeOK
<1>1. PoolInv => PoolTypeOK
  BY DEF PoolInv
<1> QED BY <1>1, PoolInvariant, PTL
----------------------------------------------------------------------------
LEMMA OncePlaced == PoolInv => OnceEach
<1> SUFFICES ASSUME PoolInv PROVE OnceEach
  OBVIOUS
<1> USE DEF PoolInv
<1>1. /\ tasks \in Seq(Tasks) /\ Len(tasks) \in Nat /\ DOMAIN tasks = 1 .. Len(tasks)
      /\ batch \in Nat /\ next \in Nat
  BY SizesType DEF PoolTypeOK
<1>2. \A i \in 1 .. Len(tasks) : /\ tasks[i] \in Tasks /\ tasks[i][1] = batch
                                 /\ tasks[i][2] = next - Len(tasks) + i
  BY <1>1 DEF Places
<1>3. \A i, j \in DOMAIN tasks : tasks[i] = tasks[j] => i = j
  BY <1>1, <1>2
<1>4. \A i \in DOMAIN tasks : ~Left(tasks[i])
  BY <1>1, <1>2 DEF Left
<1>5. \A i \in DOMAIN tasks : tasks[i] \notin ready /\ tasks[i] # NoTask
  BY <1>1, <1>2, <1>4, NoTaskIsNone DEF Places
<1>6. \A i \in DOMAIN tasks : \A t \in Workers : tasks[i] # task[t]
  BY <1>4, <1>5 DEF Places
<1>7. \A t \in Workers : task[t] \notin ready
  BY NoTaskIsNone DEF Places, PoolTypeOK
<1>8. \A t, u \in Workers : task[t] = task[u] /\ t # u => task[t] = NoTask
  BY DEF Places
<1> QED BY <1>3, <1>5, <1>6, <1>7, <1>8 DEF OnceEach

(* A task enqueued is always in exactly one place: it waits once in the    *)
(* queue, one worker runs it, or its future is ready.                      *)
THEOREM HandedOutOnce == PoolSpec => []OnceEach
<1> QED BY OncePlaced, PoolInvariant, PTL
----------------------------------------------------------------------------
LEMMA AwakeType ==
  /\ IsFiniteSet(Awake) /\ Cardinality(Awake) \in Nat
  /\ IsFiniteSet(Awake') /\ Cardinality(Awake') \in Nat
<1>1. IsFiniteSet(Awake) /\ IsFiniteSet(Awake')
  BY PoolAssumption, FS_Subset DEF Awake
<1> QED BY <1>1, FS_CardinalityType

(* One thread more, or one thread less, is awake.                          *)
LEMMA AwakeMore ==
  ASSUME at \in [Workers -> {"lock", "wait", "run", "exit"}], NEW t \in Workers,
         at[t] # "lock", at' = [at EXCEPT ![t] = "lock"]
  PROVE  Cardinality(Awake') = Cardinality(Awake) + 1
<1>1. Awake' = Awake \cup {t} /\ t \notin Awake
  BY DEF Awake
<1> QED BY <1>1, AwakeType, FS_AddElement

LEMMA AwakeLess ==
  ASSUME at \in [Workers -> {"lock", "wait", "run", "exit"}], NEW t \in Workers,
         at[t] = "lock", NEW s \in {"wait", "run", "exit"}, at' = [at EXCEPT ![t] = s]
  PROVE  Cardinality(Awake') = Cardinality(Awake) - 1
<1>1. Awake' = Awake \ {t} /\ t \in Awake
  BY DEF Awake
<1> QED BY <1>1, AwakeType, FS_RemoveElement

WakeInv == PoolTypeOK /\ WakeupsSuffice

LEMMA DriverWakes ==
  ASSUME WakeInv, PoolTypeOK', Driver
  PROVE  WakeupsSuffice'
<1> USE DEF WakeInv
<1>1. Len(tasks) \in Nat /\ Cardinality(Awake) \in Nat
  BY AwakeType DEF PoolTypeOK
<1>2. CASE Enqueue
  <2>1. Len(tasks') = Len(tasks) + 1
    BY <1>2 DEF Enqueue, PoolTypeOK
  <2>2. Awake' = Awake /\ Waiting' = Waiting
    BY <1>2 DEF Enqueue, Awake, Waiting
  <2> QED BY <1>1, <1>2, <2>1, <2>2 DEF Enqueue, WakeupsSuffice
<1>3. CASE NotifyOne
  <2>1. CASE Waiting = {}
    BY <1>3, <2>1 DEF NotifyOne, Waiting, WakeupsSuffice
  <2>2. CASE Waiting # {}
    <3>1. PICK t \in Waiting : at' = [at EXCEPT ![t] = "lock"]
      BY <1>3, <2>2 DEF NotifyOne
    <3>2. Cardinality(Awake') = Cardinality(Awake) + 1
      BY <3>1, AwakeMore DEF Waiting, PoolTypeOK
    <3> QED BY <1>1, <1>3, <2>2, <3>2 DEF NotifyOne, AfterNotify, WakeupsSuffice
  <2> QED BY <2>1, <2>2
<1>4. CASE NotifyAll
  <2>1. Waiting' = {}
    BY <1>4 DEF NotifyAll, Waiting, PoolTypeOK
  <2> QED BY <2>1 DEF WakeupsSuffice
<1>5. CASE Get \/ SetStop \/ Join
  <2>1. Awake' = Awake /\ Waiting' = Waiting /\ tasks' = tasks /\ driver # "notify"
    BY <1>5 DEF Get, SetStop, Join, Awake, Waiting
  <2> QED BY <1>1, <2>1 DEF WakeupsSuffice
<1> QED BY <1>2, <1>3, <1>4, <1>5 DEF Driver

LEMMA WorkerWakes ==
  ASSUME WakeInv, NEW t \in Workers, Worker(t) \/ SpuriousWake(t)
  PROVE  WakeupsSuffice'
<1> USE DEF WakeInv
<1>1. Len(tasks) \in Nat /\ Cardinality(Awake) \in Nat /\ Cardinality(Awake') \in Nat
  BY AwakeType DEF PoolTypeOK
<1>2. CASE Check(t) /\ tasks # <<>>
  <2>1. Len(tasks') = Len(tasks) - 1
    BY <1>2 DEF Check, PoolTypeOK
  <2>2. Cardinality(Awake') = Cardinality(Awake) - 1
    BY <1>2, AwakeLess DEF Check, PoolTypeOK
  <2>3. Waiting' = Waiting /\ driver' = driver
    BY <1>2 DEF Check, Waiting, PoolTypeOK, client
  <2> QED BY <1>1, <2>1, <2>2, <2>3 DEF WakeupsSuffice
<1>3. CASE Check(t) /\ tasks = <<>>
  <2>1. Len(tasks') = 0
    BY <1>3 DEF Check
  <2> QED BY <1>1, <2>1 DEF WakeupsSuffice
<1>4. CASE Run(t) \/ SpuriousWake(t)
  <2>1. Cardinality(Awake') = Cardinality(Awake) + 1
    BY <1>4, AwakeMore DEF Run, SpuriousWake, PoolTypeOK
  <2>2. Waiting' \subseteq Waiting /\ tasks' = tasks /\ driver' = driver
    BY <1>4 DEF Run, SpuriousWake, Waiting, PoolTypeOK, client
  <2> QED BY <1>1, <2>1, <2>2 DEF WakeupsSuffice
<1> QED BY <1>2, <1>3, <1>4 DEF Worker

(* However many threads wait, the queue never holds a task for which no    *)
(* thread is awake or about to be woken by notify_one.                     *)
THEOREM NoWakeupLost == PoolSpec => []WakeupsSuffice
<1>1. PoolInit => WakeupsSuffice
  BY DEF PoolInit, WakeupsSuffice, Waiting
<1>2. PoolTypeOK /\ PoolTypeOK' /\ WakeupsSuffice /\ [PoolNext]_poolVars => WakeupsSuffice'
  <2> SUFFICES ASSUME PoolTypeOK, PoolTypeOK', WakeupsSuffice, [PoolNext]_poolVars
               PROVE  WakeupsSuffice'
    OBVIOUS
  <2>1. CASE UNCHANGED poolVars
    BY <2>1 DEF poolVars, WakeupsSuffice, Waiting, Awake
  <2> QED BY <2>1, DriverWakes, WorkerWakes DEF WakeInv, PoolNext, Done
<1> QED BY <1>1, <1>2, PoolTypeCorrect, PTL DEF PoolSpec
----------------------------------------------------------------------------
LEMMA StepHandsOut ==
  PoolInv /\ [PoolNext]_poolVars => [Handout!Next]_(Handout!vars)
<1> SUFFICES ASSUME PoolInv, [PoolNext]_poolVars PROVE [Handout!Next]_(Handout!vars)
  OBVIOUS
<1> USE DEF PoolInv
<1>0. /\ batch \in 1 .. Len(BatchSizes) + 1 /\ next \in Nat /\ Len(BatchSizes) \in Nat
      /\ NoTask = Handout!NoTask
  BY SizesType DEF PoolTypeOK, NoTask, Handout!NoTask
<1>1. CASE Enqueue
  <2>1. Handout!Enqueue
    BY <1>0, <1>1 DEF Enqueue, Counters, Handout!Enqueue
  <2> QED BY <2>1 DEF Handout!Next
<1>2. CASE Get
  <2>1. CASE got + 1 < BatchSizes[batch]
    BY <1>2, <2>1 DEF Get, Handout!vars
  <2>2. CASE ~(got + 1 < BatchSizes[batch])
    <3>1. \A i \in 1 .. next : <<batch, i>> \in ready
      <4>1. /\ BatchSizes[batch] = next /\ got < next /\ got \in Nat
            /\ \A i \in 1 .. got : <<batch, i>> \in ready
        BY <1>2 DEF Get, Counters, PoolTypeOK
      <4> QED BY <1>0, <1>2, <2>2, <4>1 DEF Get
    <3>2. Handout!Collect
      BY <1>0, <1>2, <2>2, <3>1 DEF Get, Counters, Handout!Collect
    <3> QED BY <3>2 DEF Handout!Next
  <2> QED BY <2>1, <2>2
<1>3. ASSUME NEW t \in Workers, Check(t) PROVE [Handout!Next]_(Handout!vars)
  <2>1. CASE tasks = <<>>
    BY <1>3, <2>1 DEF Check, client, Handout!vars
  <2>2. CASE tasks # <<>>
    <3>1. task[t] = NoTask
      BY <1>3 DEF Check, Counters
    <3>2. Handout!Take(t)
      BY <1>0, <1>3, <2>2, <3>1 DEF Check, client, Handout!Take
    <3> QED BY <3>2 DEF Handout!Next
  <2> QED BY <2>1, <2>2
<1>4. ASSUME NEW t \in Workers, Run(t) PROVE [Handout!Next]_(Handout!vars)
  <2>1. Handout!Finish(t)
    BY <1>0, <1>4 DEF Run, Counters, client, Handout!Finish
  <2> QED BY <2>1 DEF Handout!Next
<1>5. CASE NotifyOne \/ SetStop \/ NotifyAll \/ Join
  BY <1>5 DEF NotifyOne, SetStop, NotifyAll, Join, Handout!vars
<1>6. ASSUME NEW t \in Workers, SpuriousWake(t) PROVE [Handout!Next]_(Handout!vars)
  BY <1>6 DEF SpuriousWake, client, Handout!vars
<1>7. CASE UNCHANGED poolVars
  BY <1>7 DEF poolVars, Handout!vars
<1> QED BY <1>1, <1>2, <1>3, <1>4, <1>5, <1>6, <1>7 DEF PoolNext, Driver, Worker, Done

(* Mutex, condition variable, flag and futures together do what the models *)
(* of the label generators take the pool for: ThreadPool implements        *)
(* TaskHandout.                                                            *)
THEOREM ImplementsHandout == PoolSpec => Handout!Spec
<1>1. PoolInit => Handout!Init
  BY DEF PoolInit, Handout!Init, NoTask, Handout!NoTask
<1> QED BY <1>1, StepHandsOut, PoolInvariant, PTL DEF PoolSpec, Handout!Spec
-----------------------------------------------------------------------------
(***************************************************************************)
(* 2. The table, for every size, every set of candidates and every         *)
(* collision pattern.  The invariant follows the argument of linear        *)
(* probing: between the home slot of a key and its entry, or the thread    *)
(* that looks for it, every slot holds some other key; entries never leave *)
(* during the gather, so a thread that meets an empty slot knows its key   *)
(* is nowhere.                                                             *)
(***************************************************************************)
(* How far probing has gone from slot h when it looks at slot p.           *)
Disp(h, p) == IF p >= h THEN p - h ELSE p - h + TS

Holds(p, k) == table[p] # Empty /\ Key[table[p]] = k

PcGather == \A c \in Cand : pc[c] \in {"probe", "claim", "min", "mincas",
                                       "mincheck", "claimed", "lost"}

ThreadPath ==
  \A c \in Cand : pc[c] \in {"probe", "claim"} =>
    \A q \in Slots :
      Disp(Home[Key[c]], q) < Disp(Home[Key[c]], pos[c])
        => table[q] # Empty /\ Key[table[q]] # Key[c]

EntryPath ==
  \A p \in Slots : table[p] # Empty =>
    \A q \in Slots :
      Disp(Home[Key[table[p]]], q) < Disp(Home[Key[table[p]]], p)
        => table[q] # Empty /\ Key[table[q]] # Key[table[p]]

AtOwnKey ==
  \A c \in Cand : pc[c] \in {"min", "mincas", "mincheck"} =>
    Holds(pos[c], Key[c])

BetterThanOld ==
  \A c \in Cand : pc[c] = "mincas" =>
    /\ old[c] \in Cand
    /\ Key[old[c]] = Key[c]
    /\ Dist[c] < Dist[old[c]]

Returned ==
  \A c \in Cand : pc[c] \in {"claimed", "lost"} =>
    \E p \in Slots : Holds(p, Key[c]) /\ Dist[table[p]] <= Dist[c]

EntryClaimed ==
  \A p \in Slots : table[p] # Empty =>
    \E c \in Cand : pc[c] = "claimed" /\ Key[c] = Key[table[p]]

GatherInv == /\ PcGather /\ ThreadPath /\ EntryPath /\ AtOwnKey
             /\ BetterThanOld /\ Returned /\ EntryClaimed

PcClear == \A c \in Cand : pc[c] \in {"find", "wipe", "clean", "lost"}

EntryAwaited ==
  \A p \in Slots : table[p] # Empty =>
    \E c \in Cand : pc[c] \in {"find", "wipe"} /\ Key[c] = Key[table[p]]

Least(x) == \A d \in Cand : Key[d] = Key[x] => Dist[x] <= Dist[d]

EntryLeast == \A p \in Slots : table[p] # Empty => Least(table[p])

Taken ==
  \A c \in Cand : pc[c] = "wipe" =>
    old[c] \in Cand /\ Key[old[c]] = Key[c] /\ table[pos[c]] = old[c]

Emitted ==
  \A c \in Cand : pc[c] = "clean" =>
    out[c] \in Cand /\ Key[out[c]] = Key[c] /\ Least(out[c])

EveryKeyClaimed ==
  \A d \in Cand : \E c \in Claimers : Key[c] = Key[d]

ClearInv == /\ PcClear /\ EntryAwaited /\ EntryLeast /\ Taken /\ Emitted
            /\ EveryKeyClaimed

(* The inductive invariant: what holds in every phase, what the gather     *)
(* keeps, what the clear keeps.                                            *)
IInv == /\ TypeOK /\ KeysUnique /\ OneClaimer
        /\ phase = "gather" => GatherInv
        /\ phase # "gather" => ClearInv
        /\ phase = "sorted" => Cleared
-----------------------------------------------------------------------------
(* Probing distances are a numbering of the slots from the home slot, and  *)
(* Succ advances it by one slot.                                           *)
LEMMA DispFacts ==
  /\ \A h, p, q \in Slots : Disp(h, p) = Disp(h, q) => p = q
  /\ \A h, p, q \in Slots :
       Disp(h, q) < Disp(h, Succ(p)) => Disp(h, q) < Disp(h, p) \/ q = p
  /\ \A p \in Slots : Succ(p) \in Slots
  /\ \A h, p \in Slots : Disp(h, p) \in Nat
  BY DasAssumption DEF Disp, Slots, Succ

(* The constants as typed values.                                          *)
LEMMA Typing ==
  /\ \A c \in Cand : Key[c] \in Keys /\ Home[Key[c]] \in Slots
                     /\ Dist[c] \in Nat /\ c # Empty
  BY DasAssumption DEF Slots

(* Entry paths make keys unique: of two entries of one key, the farther    *)
(* one would have the nearer one on its path.                              *)
LEMMA PathsGiveUnique == TypeOK /\ EntryPath => KeysUnique
<1> SUFFICES ASSUME TypeOK, EntryPath, NEW p \in Slots, NEW q \in Slots,
                    table[p] # Empty, table[q] # Empty,
                    Key[table[p]] = Key[table[q]]
             PROVE  p = q
  BY DEF KeysUnique
<1> DEFINE h == Home[Key[table[p]]]
<1>1. h \in Slots
  BY Typing DEF TypeOK, Words
<1>2. ~(Disp(h, q) < Disp(h, p)) /\ ~(Disp(h, p) < Disp(h, q))
  BY DEF EntryPath
<1>3. Disp(h, p) = Disp(h, q)
  BY <1>1, <1>2, DispFacts
<1> QED BY <1>1, <1>3, DispFacts

(* A thread that stands at an empty slot knows its key is nowhere.         *)
LEMMA EmptyMeansAbsent ==
  ASSUME TypeOK, ThreadPath, EntryPath, NEW c \in Cand,
         pc[c] \in {"probe", "claim"}, table[pos[c]] = Empty
  PROVE  \A p \in Slots : ~Holds(p, Key[c])
<1> SUFFICES ASSUME NEW p \in Slots, Holds(p, Key[c]) PROVE FALSE
  OBVIOUS
<1> DEFINE h == Home[Key[c]]
<1>1. h \in Slots /\ pos[c] \in Slots
  BY Typing DEF TypeOK
<1>2. ~(Disp(h, p) < Disp(h, pos[c]))
  BY DEF ThreadPath, Holds
<1>3. ~(Disp(h, pos[c]) < Disp(h, p))
  BY <1>1 DEF EntryPath, Holds
<1>4. p = pos[c]
  BY <1>1, <1>2, <1>3, DispFacts
<1> QED BY <1>4 DEF Holds
-----------------------------------------------------------------------------
LEMMA InitIInv == ASSUME Init PROVE IInv
<1>1. TypeOK
  BY Typing, DasAssumption DEF Init, TypeOK, Words, Slots
<1>2. KeysUnique /\ OneClaimer
  BY DEF Init, KeysUnique, OneClaimer, Claimers
<1>3. PcGather /\ EntryPath /\ AtOwnKey /\ BetterThanOld /\ Returned
        /\ EntryClaimed
  BY DEF Init, PcGather, EntryPath, AtOwnKey, BetterThanOld, Returned,
         EntryClaimed
<1>4. ThreadPath
  <2> SUFFICES ASSUME NEW c \in Cand, NEW q \in Slots
               PROVE  ~(Disp(Home[Key[c]], q) < Disp(Home[Key[c]], pos[c]))
    BY DEF ThreadPath
  <2>1. pos[c] = Home[Key[c]] /\ Home[Key[c]] \in Slots
    BY Typing DEF Init
  <2> QED BY <2>1, DasAssumption DEF Disp, Slots
<1> QED BY <1>1, <1>2, <1>3, <1>4 DEF Init, IInv, GatherInv
-----------------------------------------------------------------------------
(* Every action keeps the types.                                           *)
LEMMA TypeStep == ASSUME TypeOK, [Next]_vars PROVE TypeOK'
<1> USE DEF TypeOK, Words
<1>1. ASSUME NEW c \in Cand, Probe(c) PROVE TypeOK'
  BY <1>1, DispFacts DEF Probe
<1>2. ASSUME NEW c \in Cand, Claim(c) PROVE TypeOK'
  BY <1>2 DEF Claim
<1>3. ASSUME NEW c \in Cand, MinRead(c) PROVE TypeOK'
  BY <1>3 DEF MinRead
<1>4. ASSUME NEW c \in Cand, MinCas(c) PROVE TypeOK'
  BY <1>4 DEF MinCas
<1>5. ASSUME NEW c \in Cand, MinCheck(c) PROVE TypeOK'
  BY <1>5 DEF MinCheck
<1>6. ASSUME NEW c \in Cand, Find(c) PROVE TypeOK'
  BY <1>6, DispFacts DEF Find
<1>7. ASSUME NEW c \in Cand, Wipe(c) PROVE TypeOK'
  BY <1>7 DEF Wipe
<1>8. ASSUME LaunchClear PROVE TypeOK'
  BY <1>8, Typing DEF LaunchClear
<1>9. CASE LaunchSort
  BY <1>9 DEF LaunchSort
<1>10. CASE UNCHANGED vars
  BY <1>10 DEF vars
<1> QED BY <1>1, <1>2, <1>3, <1>4, <1>5, <1>6, <1>7, <1>8, <1>9, <1>10
        DEF Next, Thread, Stop
-----------------------------------------------------------------------------
(* The gather: each step of an insert keeps the gather's invariant.        *)
LEMMA ProbeStep ==
  ASSUME IInv, phase = "gather", NEW c \in Cand, Probe(c)
  PROVE  OneClaimer' /\ GatherInv'
<1> USE DEF IInv, GatherInv, TypeOK
<1>0. table' = table /\ phase' = phase /\ old' = old /\ c # Empty
  BY Typing DEF Probe
<1>1. OneClaimer'
  BY DEF Probe, OneClaimer, Claimers
<1>2. PcGather'
  BY DEF Probe, PcGather
<1>3. ThreadPath'
  <2> SUFFICES ASSUME NEW d \in Cand, pc'[d] \in {"probe", "claim"},
                      NEW q \in Slots,
                      Disp(Home[Key[d]], q) < Disp(Home[Key[d]], pos'[d])
               PROVE  table[q] # Empty /\ Key[table[q]] # Key[d]
    BY <1>0 DEF ThreadPath
  <2>1. CASE d # c
    BY <2>1 DEF Probe, ThreadPath
  <2>2. CASE d = c /\ pos' = pos
    <3>1. pc[c] = "probe"
      BY DEF Probe
    <3> QED BY <2>2, <3>1 DEF ThreadPath
  <2>3. CASE d = c /\ pos' # pos
    <3>1. /\ pos'[c] = Succ(pos[c]) /\ pc[c] = "probe"
          /\ table[pos[c]] # Empty /\ Key[table[pos[c]]] # Key[c]
      BY <2>3 DEF Probe
    <3>2. Home[Key[c]] \in Slots /\ pos[c] \in Slots
      BY Typing
    <3>3. \/ Disp(Home[Key[c]], q) < Disp(Home[Key[c]], pos[c])
          \/ q = pos[c]
      BY <2>3, <3>1, <3>2, DispFacts
    <3> QED BY <2>3, <3>1, <3>3 DEF ThreadPath
  <2> QED BY <2>1, <2>2, <2>3
<1>4. EntryPath' /\ EntryClaimed'
  BY <1>0 DEF Probe, EntryPath, EntryClaimed
<1>5. AtOwnKey' /\ BetterThanOld' /\ Returned'
  BY <1>0 DEF Probe, AtOwnKey, BetterThanOld, Returned, Holds
<1> QED BY <1>1, <1>2, <1>3, <1>4, <1>5

LEMMA ClaimStep ==
  ASSUME IInv, phase = "gather", NEW c \in Cand, Claim(c)
  PROVE  OneClaimer' /\ GatherInv'
<1> USE DEF IInv, GatherInv, TypeOK
<1>0. pos' = pos /\ old' = old /\ phase' = phase /\ pc[c] = "claim"
  BY DEF Claim
<1>1. CASE table[pos[c]] # Empty
  <2>1. table' = table /\ pc' = [pc EXCEPT ![c] = "probe"]
    BY <1>1 DEF Claim
  <2>2. OneClaimer' /\ PcGather' /\ EntryPath' /\ EntryClaimed'
    BY <1>0, <2>1
       DEF OneClaimer, Claimers, PcGather, EntryPath, EntryClaimed
  <2>3. ThreadPath' /\ AtOwnKey' /\ BetterThanOld' /\ Returned'
    BY <1>0, <2>1 DEF ThreadPath, AtOwnKey, BetterThanOld, Returned, Holds
  <2> QED BY <2>2, <2>3
<1>2. CASE table[pos[c]] = Empty
  <2>1. /\ table' = [table EXCEPT ![pos[c]] = c]
        /\ pc' = [pc EXCEPT ![c] = "claimed"]
    BY <1>2 DEF Claim
  <2>2. /\ pos[c] \in Slots /\ Home[Key[c]] \in Slots
        /\ c # Empty /\ Dist[c] \in Nat
    BY Typing
  <2>3. \A p \in Slots : ~Holds(p, Key[c])
    BY <1>0, <1>2, EmptyMeansAbsent
  <2>4. \A p \in Slots : table'[p] = IF p = pos[c] THEN c ELSE table[p]
    BY <2>1
  <2>5. OneClaimer'
    <3>1. \A d \in Cand : pc[d] = "claimed" => Key[d] # Key[c]
      BY <2>3 DEF Returned
    <3> QED BY <2>1, <3>1 DEF OneClaimer, Claimers, PcGather
  <2>6. PcGather' /\ EntryClaimed'
    BY <2>1, <2>2, <2>4 DEF PcGather, EntryClaimed
  <2>7. ThreadPath'
    <3> SUFFICES ASSUME NEW d \in Cand, d # c, pc[d] \in {"probe", "claim"},
                        NEW q \in Slots,
                        Disp(Home[Key[d]], q) < Disp(Home[Key[d]], pos[d])
                 PROVE  table'[q] # Empty /\ Key[table'[q]] # Key[d]
      BY <1>0, <2>1 DEF ThreadPath
    <3>1. table[q] # Empty /\ Key[table[q]] # Key[d]
      BY DEF ThreadPath
    <3> QED BY <3>1, <2>4, <1>2
  <2>8. EntryPath'
    <3> SUFFICES ASSUME NEW p \in Slots, table'[p] # Empty, NEW q \in Slots,
                        Disp(Home[Key[table'[p]]], q)
                          < Disp(Home[Key[table'[p]]], p)
                 PROVE  table'[q] # Empty /\ Key[table'[q]] # Key[table'[p]]
      BY DEF EntryPath
    <3>1. CASE p # pos[c]
      <4>1. table'[p] = table[p]
        BY <3>1, <2>4
      <4>2. table[q] # Empty /\ Key[table[q]] # Key[table[p]]
        BY <4>1 DEF EntryPath
      <4> QED BY <4>1, <4>2, <2>4, <1>2
    <3>2. CASE p = pos[c]
      <4>1. table'[p] = c
        BY <3>2, <2>4
      <4>2. table[q] # Empty /\ Key[table[q]] # Key[c]
        BY <4>1, <3>2, <1>0 DEF ThreadPath
      <4> QED BY <4>1, <4>2, <2>4, <1>2
    <3> QED BY <3>1, <3>2
  <2>9. AtOwnKey' /\ BetterThanOld'
    BY <1>0, <1>2, <2>1, <2>4 DEF AtOwnKey, BetterThanOld, Holds
  <2>10. Returned'
    <3> SUFFICES ASSUME NEW d \in Cand, pc'[d] \in {"claimed", "lost"}
                 PROVE  \E p \in Slots : /\ table'[p] # Empty
                                         /\ Key[table'[p]] = Key[d]
                                         /\ Dist[table'[p]] <= Dist[d]
      BY DEF Returned, Holds
    <3>1. CASE d = c
      BY <3>1, <2>2, <2>4
    <3>2. CASE d # c
      <4>1. PICK p \in Slots : Holds(p, Key[d]) /\ Dist[table[p]] <= Dist[d]
        BY <3>2, <2>1 DEF Returned
      <4>2. table'[p] = table[p]
        BY <4>1, <2>4, <1>2 DEF Holds
      <4> QED BY <4>1, <4>2 DEF Holds
    <3> QED BY <3>1, <3>2
  <2> QED BY <2>5, <2>6, <2>7, <2>8, <2>9, <2>10
<1> QED BY <1>1, <1>2

LEMMA MinReadStep ==
  ASSUME IInv, phase = "gather", NEW c \in Cand, MinRead(c)
  PROVE  OneClaimer' /\ GatherInv'
<1> USE DEF IInv, GatherInv, TypeOK
<1>0. /\ table' = table /\ pos' = pos /\ phase' = phase /\ pc[c] = "min"
      /\ old' = [old EXCEPT ![c] = table[pos[c]]]
      /\ pos[c] \in Slots
  BY DEF MinRead
<1>1. Holds(pos[c], Key[c]) /\ table[pos[c]] \in Cand
  BY <1>0 DEF AtOwnKey, Holds, Words
<1>2. Dist[c] \in Nat /\ Dist[table[pos[c]]] \in Nat
  BY <1>1, Typing
<1>3. OneClaimer' /\ PcGather'
  BY <1>0 DEF MinRead, OneClaimer, Claimers, PcGather
<1>4. ThreadPath' /\ EntryPath' /\ EntryClaimed' /\ AtOwnKey'
  BY <1>0 DEF MinRead, ThreadPath, EntryPath, EntryClaimed, AtOwnKey, Holds
<1>5. BetterThanOld'
  BY <1>0, <1>1 DEF MinRead, BetterThanOld, Holds
<1>6. Returned'
  <2> SUFFICES ASSUME NEW d \in Cand, pc'[d] \in {"claimed", "lost"}
               PROVE  \E p \in Slots : Holds(p, Key[d])
                                       /\ Dist[table[p]] <= Dist[d]
    BY <1>0 DEF Returned, Holds
  <2>1. CASE d = c
    BY <2>1, <1>0, <1>1, <1>2 DEF MinRead
  <2>2. CASE d # c
    BY <2>2 DEF MinRead, Returned
  <2> QED BY <2>1, <2>2
<1> QED BY <1>3, <1>4, <1>5, <1>6

LEMMA MinCasStep ==
  ASSUME IInv, phase = "gather", NEW c \in Cand, MinCas(c)
  PROVE  OneClaimer' /\ GatherInv'
<1> USE DEF IInv, GatherInv, TypeOK
<1>0. /\ pos' = pos /\ old' = old /\ phase' = phase /\ pc[c] = "mincas"
      /\ pc' = [pc EXCEPT ![c] = "mincheck"]
      /\ pos[c] \in Slots /\ c # Empty
  BY Typing DEF MinCas
<1>1. /\ Holds(pos[c], Key[c])
      /\ Key[old[c]] = Key[c] /\ Dist[c] < Dist[old[c]] /\ old[c] \in Cand
  BY <1>0 DEF AtOwnKey, BetterThanOld
<1>2. \A p \in Slots :
        table'[p] = IF p = pos[c] /\ table[p] = old[c] THEN c ELSE table[p]
  BY DEF MinCas
<1>3. \A p \in Slots : /\ table'[p] = Empty <=> table[p] = Empty
                       /\ table[p] # Empty => Key[table'[p]] = Key[table[p]]
  BY <1>0, <1>1, <1>2 DEF Holds
<1>4. OneClaimer' /\ PcGather'
  BY <1>0 DEF OneClaimer, Claimers, PcGather
<1>5. ThreadPath'
  BY <1>0, <1>3 DEF ThreadPath
<1>6. EntryPath'
  BY <1>3 DEF EntryPath
<1>7. EntryClaimed' /\ AtOwnKey' /\ BetterThanOld'
  BY <1>0, <1>3 DEF EntryClaimed, AtOwnKey, BetterThanOld, Holds
<1>8. Returned'
  <2> SUFFICES ASSUME NEW d \in Cand, pc[d] \in {"claimed", "lost"}
               PROVE  \E p \in Slots : /\ table'[p] # Empty
                                       /\ Key[table'[p]] = Key[d]
                                       /\ Dist[table'[p]] <= Dist[d]
    BY <1>0 DEF Returned, Holds
  <2>1. PICK p \in Slots : Holds(p, Key[d]) /\ Dist[table[p]] <= Dist[d]
    BY DEF Returned
  <2>2. table[p] \in Cand
    BY <2>1 DEF Holds, Words
  <2>3. Dist[table'[p]] <= Dist[table[p]]
    BY <1>1, <1>2, <2>2, Typing
  <2>4. Dist[d] \in Nat /\ Dist[table[p]] \in Nat /\ Dist[table'[p]] \in Nat
    BY <1>2, <2>2, Typing
  <2> QED BY <1>3, <2>1, <2>3, <2>4 DEF Holds
<1> QED BY <1>4, <1>5, <1>6, <1>7, <1>8

LEMMA MinCheckStep ==
  ASSUME IInv, phase = "gather", NEW c \in Cand, MinCheck(c)
  PROVE  OneClaimer' /\ GatherInv'
<1> USE DEF IInv, GatherInv, TypeOK
<1>0. /\ table' = table /\ pos' = pos /\ old' = old /\ phase' = phase
      /\ pc[c] = "mincheck" /\ pos[c] \in Slots
  BY DEF MinCheck
<1>1. OneClaimer' /\ PcGather'
  BY <1>0 DEF MinCheck, OneClaimer, Claimers, PcGather
<1>2. ThreadPath' /\ EntryPath' /\ EntryClaimed' /\ AtOwnKey'
        /\ BetterThanOld'
  BY <1>0 DEF MinCheck, ThreadPath, EntryPath, EntryClaimed, AtOwnKey,
              BetterThanOld, Holds
<1>3. Returned'
  <2> SUFFICES ASSUME NEW d \in Cand, pc'[d] \in {"claimed", "lost"}
               PROVE  \E p \in Slots : Holds(p, Key[d])
                                       /\ Dist[table[p]] <= Dist[d]
    BY <1>0 DEF Returned, Holds
  <2>1. CASE d = c
    <3>1. table[pos[c]] = c
      BY <2>1 DEF MinCheck
    <3> QED BY <2>1, <3>1, <1>0, Typing DEF Holds
  <2>2. CASE d # c
    BY <2>2 DEF MinCheck, Returned
  <2> QED BY <2>1, <2>2
<1> QED BY <1>1, <1>2, <1>3
-----------------------------------------------------------------------------
(* The launch of the clear turns what the inserts left into its invariant. *)
LEMMA LaunchClearStep ==
  ASSUME IInv, LaunchClear
  PROVE  OneClaimer' /\ KeysUnique' /\ ClearInv'
<1> USE DEF IInv, GatherInv, TypeOK
<1>0. /\ table' = table /\ phase = "gather"
      /\ \A c \in Cand : pc[c] \in {"claimed", "lost"}
      /\ \A c \in Cand :
           pc'[c] = IF pc[c] = "claimed" THEN "find" ELSE "lost"
  BY DEF LaunchClear, Inserted
<1>1. OneClaimer' /\ KeysUnique'
  BY <1>0 DEF OneClaimer, Claimers, KeysUnique
<1>2. PcClear' /\ EntryAwaited' /\ Taken' /\ Emitted'
  BY <1>0 DEF PcClear, EntryAwaited, EntryClaimed, Taken, Emitted
<1>3. EntryLeast'
  <2> SUFFICES ASSUME NEW p \in Slots, table[p] # Empty,
                      NEW d \in Cand, Key[d] = Key[table[p]]
               PROVE  Dist[table[p]] <= Dist[d]
    BY <1>0 DEF EntryLeast, Least
  <2>1. PICK q \in Slots : Holds(q, Key[d]) /\ Dist[table[q]] <= Dist[d]
    BY <1>0 DEF Returned
  <2>2. q = p
    BY <2>1 DEF KeysUnique, Holds
  <2> QED BY <2>1, <2>2
<1>4. EveryKeyClaimed'
  <2> SUFFICES ASSUME NEW d \in Cand
               PROVE  \E c \in Cand : pc'[c] = "find" /\ Key[c] = Key[d]
    BY DEF EveryKeyClaimed, Claimers
  <2>1. PICK q \in Slots : Holds(q, Key[d])
    BY <1>0 DEF Returned
  <2>2. PICK c \in Cand : pc[c] = "claimed" /\ Key[c] = Key[table[q]]
    BY <1>0, <2>1 DEF EntryClaimed, Holds
  <2> QED BY <1>0, <2>1, <2>2 DEF Holds
<1> QED BY <1>1, <1>2, <1>3, <1>4 DEF ClearInv

LEMMA FindStep ==
  ASSUME IInv, phase # "gather", NEW c \in Cand, Find(c)
  PROVE  OneClaimer' /\ KeysUnique' /\ ClearInv'
<1> USE DEF IInv, ClearInv, TypeOK
<1>0. table' = table /\ out' = out /\ pc[c] = "find"
  BY DEF Find
<1>1. OneClaimer' /\ KeysUnique' /\ EveryKeyClaimed' /\ PcClear'
  BY <1>0 DEF Find, OneClaimer, Claimers, KeysUnique, EveryKeyClaimed, PcClear
<1>2. EntryAwaited' /\ EntryLeast' /\ Emitted'
  BY <1>0 DEF Find, EntryAwaited, EntryLeast, Least, Emitted
<1>3. Taken'
  BY <1>0 DEF Find, Taken, Words
<1> QED BY <1>1, <1>2, <1>3

LEMMA WipeStep ==
  ASSUME IInv, phase # "gather", NEW c \in Cand, Wipe(c)
  PROVE  OneClaimer' /\ KeysUnique' /\ ClearInv'
<1> USE DEF IInv, ClearInv, TypeOK
<1>0. /\ pc[c] = "wipe" /\ pos' = pos /\ old' = old /\ pos[c] \in Slots
      /\ pc' = [pc EXCEPT ![c] = "clean"]
      /\ out' = [out EXCEPT ![c] = old[c]]
  BY DEF Wipe
<1>1. old[c] \in Cand /\ Key[old[c]] = Key[c] /\ table[pos[c]] = old[c]
  BY <1>0 DEF Taken
<1>2. \A p \in Slots : table'[p] = IF p = pos[c] THEN Empty ELSE table[p]
  BY DEF Wipe
<1>3. OneClaimer' /\ EveryKeyClaimed' /\ PcClear'
  BY <1>0 DEF OneClaimer, Claimers, EveryKeyClaimed, PcClear
<1>4. KeysUnique' /\ EntryLeast'
  BY <1>2 DEF KeysUnique, EntryLeast, Least
<1>5. EntryAwaited'
  <2> SUFFICES ASSUME NEW p \in Slots, p # pos[c], table[p] # Empty
               PROVE  \E d \in Cand : /\ pc'[d] \in {"find", "wipe"}
                                      /\ Key[d] = Key[table[p]]
    BY <1>2 DEF EntryAwaited
  <2>1. PICK d \in Cand : /\ pc[d] \in {"find", "wipe"}
                          /\ Key[d] = Key[table[p]]
    BY DEF EntryAwaited
  <2>2. old[c] # Empty
    BY <1>1, Typing
  <2>3. Key[table[p]] # Key[c]
    BY <1>0, <1>1, <2>2 DEF KeysUnique
  <2> QED BY <1>0, <2>1, <2>3
<1>6. Taken'
  <2> SUFFICES ASSUME NEW d \in Cand, d # c, pc[d] = "wipe"
               PROVE  /\ old[d] \in Cand /\ Key[old[d]] = Key[d]
                      /\ table'[pos[d]] = old[d]
    BY <1>0 DEF Taken
  <2>1. old[d] \in Cand /\ Key[old[d]] = Key[d] /\ table[pos[d]] = old[d]
    BY DEF Taken
  <2>2. Key[d] # Key[c]
    BY <1>0 DEF OneClaimer, Claimers
  <2>3. pos[d] # pos[c] /\ pos[d] \in Slots
    BY <1>1, <2>1, <2>2
  <2> QED BY <1>2, <2>1, <2>3
<1>7. Emitted'
  <2>1. Least(old[c])
    BY <1>0, <1>1, Typing DEF EntryLeast
  <2> QED BY <1>0, <1>1, <2>1 DEF Emitted, Least
<1> QED BY <1>3, <1>4, <1>5, <1>6, <1>7
-----------------------------------------------------------------------------
LEMMA StepIInv == ASSUME IInv, [Next]_vars PROVE IInv'
<1>1. TypeOK'
  BY TypeStep DEF IInv
<1>2. ASSUME phase = "gather", NEW c \in Cand, Thread(c) PROVE IInv'
  <2>1. pc[c] \notin {"find", "wipe"}
    BY <1>2 DEF IInv, GatherInv, PcGather
  <2>2. OneClaimer' /\ GatherInv' /\ phase' = "gather"
    BY <1>2, <2>1, ProbeStep, ClaimStep, MinReadStep, MinCasStep, MinCheckStep
       DEF Thread, Find, Wipe, Probe, Claim, MinRead, MinCas, MinCheck
  <2>3. KeysUnique'
    <3>1. (TypeOK /\ EntryPath => KeysUnique)'
      BY PathsGiveUnique, PTL
    <3> QED BY <1>1, <2>2, <3>1 DEF GatherInv
  <2> QED BY <1>1, <2>2, <2>3 DEF IInv
<1>3. ASSUME phase # "gather", NEW c \in Cand, Thread(c) PROVE IInv'
  <2>1. pc[c] \in {"find", "wipe"}
    BY <1>3 DEF IInv, ClearInv, PcClear, Thread, Probe, Claim, MinRead,
               MinCas, MinCheck, Find, Wipe
  <2>2. OneClaimer' /\ KeysUnique' /\ ClearInv' /\ phase' = phase
    BY <1>3, <2>1, FindStep, WipeStep
       DEF Thread, Find, Wipe, Probe, Claim, MinRead, MinCas, MinCheck
  <2>3. phase # "sorted"
    BY <2>1 DEF IInv, Cleared
  <2> QED BY <1>1, <1>3, <2>2, <2>3 DEF IInv
<1>4. CASE LaunchClear
  <2>1. phase' = "clear"
    BY <1>4 DEF LaunchClear
  <2> QED BY <1>1, <1>4, <2>1, LaunchClearStep DEF IInv
<1>5. CASE LaunchSort
  BY <1>1, <1>5
     DEF LaunchSort, IInv, KeysUnique, OneClaimer, Claimers, ClearInv, PcClear,
         EntryAwaited, EntryLeast, Least, Taken, Emitted, EveryKeyClaimed,
         Cleared
<1>6. CASE UNCHANGED vars
  BY <1>1, <1>6
     DEF vars, IInv, KeysUnique, OneClaimer, Claimers, ClearInv, PcClear,
         EntryAwaited, EntryLeast, Least, Taken, Emitted, EveryKeyClaimed,
         Cleared, GatherInv, PcGather, ThreadPath, EntryPath, AtOwnKey,
         BetterThanOld, Returned, EntryClaimed, Holds
<1> QED BY <1>2, <1>3, <1>4, <1>5, <1>6 DEF Next, Stop

(* The invariant is an invariant of the specification.                     *)
THEOREM Invariance == Spec => []IInv
<1>1. Init => IInv
  BY InitIInv
<1>2. IInv /\ [Next]_vars => IInv'
  BY StepIInv
<1> QED BY <1>1, <1>2, PTL DEF Spec

(* The variables keep their types: no thread ever probes outside d_table.  *)
THEOREM DasTypeCorrect == Spec => []TypeOK
<1>1. IInv => TypeOK
  BY DEF IInv
<1> QED BY <1>1, Invariance, PTL

(* No interleaving of inserts of one key makes two entries of it.          *)
THEOREM UniqueEntries == Spec => []KeysUnique
<1>1. IInv => KeysUnique
  BY DEF IInv
<1> QED BY <1>1, Invariance, PTL

(* gen_das_insert answers 1 to at most one candidate of a key.             *)
THEOREM ClaimedOnce == Spec => []OneClaimer
<1>1. IInv => OneClaimer
  BY DEF IInv
<1> QED BY <1>1, Invariance, PTL

(* An insert that returned is held at its distance or less.                *)
THEOREM InsertsHeld == Spec => []ReturnedIsHeld
<1>1. IInv => ReturnedIsHeld
  BY DEF IInv, GatherInv, Returned, ReturnedIsHeld, Holds
<1> QED BY <1>1, Invariance, PTL

(* When the sort starts, the table is empty and the labels put out are one *)
(* cheapest candidate per key.                                             *)
THEOREM RoundCorrect == Spec => []MinPerKey
<1>1. ASSUME IInv PROVE MinPerKey
  <2> SUFFICES ASSUME phase = "sorted"
               PROVE  /\ \A p \in Slots : table[p] = Empty
                      /\ Result \subseteq Cand
                      /\ \A c \in Cand : \E r \in Result :
                           Key[r] = Key[c] /\ Dist[r] <= Dist[c]
                      /\ \A r, s \in Result : Key[r] = Key[s] => r = s
    BY DEF MinPerKey
  <2>0. /\ Cleared /\ EntryAwaited /\ Emitted /\ EveryKeyClaimed
        /\ OneClaimer
    BY <1>1 DEF IInv, ClearInv
  <2>1. \A c \in Claimers : /\ c \in Cand /\ out[c] \in Cand
                            /\ Key[out[c]] = Key[c] /\ Least(out[c])
    BY <2>0 DEF Claimers, Cleared, Emitted
  <2>2. \A p \in Slots : table[p] = Empty
    BY <2>0 DEF EntryAwaited, Cleared
  <2>3. Result \subseteq Cand
    BY <2>1 DEF Result
  <2>4. ASSUME NEW d \in Cand
        PROVE  \E r \in Result : Key[r] = Key[d] /\ Dist[r] <= Dist[d]
    <3>1. PICK c \in Claimers : Key[c] = Key[d]
      BY <2>0 DEF EveryKeyClaimed
    <3>2. out[c] \in Result
      BY DEF Result
    <3> QED BY <2>1, <3>1, <3>2 DEF Least
  <2>5. \A r, s \in Result : Key[r] = Key[s] => r = s
    BY <2>0, <2>1 DEF Result, OneClaimer
  <2> QED BY <2>2, <2>3, <2>4, <2>5
<1> QED BY <1>1, Invariance, PTL
=============================================================================
