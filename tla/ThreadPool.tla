----------------------------- MODULE ThreadPool -----------------------------
(***************************************************************************)
(* The thread pool (thread_pool.h) with the driver that uses it: batches   *)
(* of tasks, each enqueued one by one and then waited for, and at exit the *)
(* destructor.  A section under queue_mutex is one step; notify_one and    *)
(* notify_all come after the mutex is released and are steps of their own. *)
(* A thread that waits may also wake up by itself.                         *)
(***************************************************************************)
EXTENDS Integers, Sequences, FiniteSets

CONSTANTS
  Workers,     \* the threads of the pool
  BatchSizes   \* how many tasks the driver enqueues between two waits

ASSUME PoolAssumption ==
  /\ IsFiniteSet(Workers) /\ Workers # {}
  /\ BatchSizes \in Seq(Nat \ {0}) /\ BatchSizes # <<>>

VARIABLES
  driver,   \* where the driver, then the destructor, is
  batch,    \* the current batch
  next,     \* how many of its tasks are enqueued
  got,      \* how many of its futures have answered get()
  tasks,    \* the task queue
  stop,     \* the flag
  at,       \* "lock": about to take the mutex; "wait": in condition.wait
  task,     \* the task a worker has moved out of the queue
  ready     \* the tasks whose future is ready

poolVars == <<driver, batch, next, got, tasks, stop, at, task, ready>>
client == <<driver, batch, next, got>>

NoTask == <<0, 0>>
Tasks == {b \in (1 .. Len(BatchSizes)) \X (Nat \ {0}) : b[2] <= BatchSizes[b[1]]}
Waiting == {t \in Workers : at[t] = "wait"}
----------------------------------------------------------------------------
(* enqueue: under the mutex the task is put in the queue.                  *)
Enqueue ==
  /\ driver = "enqueue" /\ ~stop
  /\ tasks' = Append(tasks, <<batch, next + 1>>)
  /\ next' = next + 1
  /\ driver' = "notify"
  /\ UNCHANGED <<batch, got, stop, at, task, ready>>

(* notify_one: some thread that waits wakes up; the driver enqueues the    *)
(* next task of its loop, or goes on to the futures.                       *)
AfterNotify == driver' = IF next = BatchSizes[batch] THEN "get" ELSE "enqueue"
MutNotifyOne ==
  /\ driver = "notify"
  /\ IF Len(tasks) = 1 /\ Waiting # {}
     THEN \E t \in Waiting : at' = [at EXCEPT ![t] = "lock"]
     ELSE UNCHANGED at
  /\ AfterNotify
  /\ UNCHANGED <<batch, next, got, tasks, stop, task, ready>>
NotifyOne ==
  /\ driver = "notify"
  /\ IF Waiting # {}
     THEN \E t \in Waiting : at' = [at EXCEPT ![t] = "lock"]
     ELSE UNCHANGED at
  /\ AfterNotify
  /\ UNCHANGED <<batch, next, got, tasks, stop, task, ready>>

(* result.get() on the next future; after the last one results is cleared  *)
(* and the next batch begins, or the program ends.                         *)
Get ==
  /\ driver = "get" /\ <<batch, got + 1>> \in ready
  /\ IF got + 1 < BatchSizes[batch]
     THEN got' = got + 1 /\ UNCHANGED <<driver, batch, next>>
     ELSE /\ got' = 0 /\ batch' = batch + 1 /\ next' = 0
          /\ driver' = IF batch < Len(BatchSizes) THEN "enqueue" ELSE "stop"
  /\ UNCHANGED <<tasks, stop, at, task, ready>>

(* The worker's section under the mutex: it waits, leaves, or moves the    *)
(* first task out of the queue.                                            *)
Check(t) ==
  /\ at[t] = "lock"
  /\ IF tasks # <<>>
     THEN /\ task' = [task EXCEPT ![t] = Head(tasks)]
          /\ tasks' = Tail(tasks)
          /\ at' = [at EXCEPT ![t] = "run"]
     ELSE /\ at' = [at EXCEPT ![t] = IF stop THEN "exit" ELSE "wait"]
          /\ UNCHANGED <<task, tasks>>
  /\ UNCHANGED <<client, stop, ready>>

SpuriousWake(t) ==
  /\ at[t] = "wait"
  /\ at' = [at EXCEPT ![t] = "lock"]
  /\ UNCHANGED <<client, tasks, stop, task, ready>>

(* task(): the packaged task runs and makes its future ready.              *)
MutRun(t) ==
  /\ at[t] = "run"
  /\ at' = [at EXCEPT ![t] = "wait"]
  /\ ready' = ready \cup {task[t]}
  /\ task' = [task EXCEPT ![t] = NoTask]
  /\ UNCHANGED <<client, tasks, stop>>
Run(t) ==
  /\ at[t] = "run"
  /\ at' = [at EXCEPT ![t] = "lock"]
  /\ ready' = ready \cup {task[t]}
  /\ task' = [task EXCEPT ![t] = NoTask]
  /\ UNCHANGED <<client, tasks, stop>>

(* The destructor: the flag under the mutex, notify_all, join.             *)
SetStop ==
  /\ driver = "stop"
  /\ stop' = TRUE
  /\ driver' = "notify_all"
  /\ UNCHANGED <<batch, next, got, tasks, at, task, ready>>
MutNotifyAll ==
  /\ driver = "notify_all"
  /\ IF Waiting # {}
     THEN \E t \in Waiting : at' = [at EXCEPT ![t] = "lock"]
     ELSE UNCHANGED at
  /\ driver' = "join"
  /\ UNCHANGED <<batch, next, got, tasks, stop, task, ready>>
NotifyAll ==
  /\ driver = "notify_all"
  /\ at' = [t \in Workers |-> IF at[t] = "wait" THEN "lock" ELSE at[t]]
  /\ driver' = "join"
  /\ UNCHANGED <<batch, next, got, tasks, stop, task, ready>>
Join ==
  /\ driver = "join" /\ \A t \in Workers : at[t] = "exit"
  /\ driver' = "gone"
  /\ UNCHANGED <<batch, next, got, tasks, stop, at, task, ready>>

PoolInit ==
  /\ driver = "enqueue" /\ batch = 1 /\ next = 0 /\ got = 0
  /\ tasks = <<>> /\ stop = FALSE
  /\ at = [t \in Workers |-> "lock"]
  /\ task = [t \in Workers |-> NoTask]
  /\ ready = {}

Driver == Enqueue \/ NotifyOne \/ Get \/ SetStop \/ NotifyAll \/ Join
Worker(t) == Check(t) \/ Run(t)

Done == driver = "gone" /\ UNCHANGED poolVars

PoolNext == Driver \/ (\E t \in Workers : Worker(t) \/ SpuriousWake(t)) \/ Done

PoolSpec == PoolInit /\ [][PoolNext]_poolVars

(* A thread that can go on does; nobody need wake up by himself.           *)
FairPool ==
  PoolSpec /\ WF_poolVars(Driver) /\ \A t \in Workers : WF_poolVars(Worker(t))
----------------------------------------------------------------------------
PoolTypeOK ==
  /\ driver \in {"enqueue", "notify", "get", "stop", "notify_all", "join", "gone"}
  /\ batch \in 1 .. Len(BatchSizes) + 1
  /\ next \in Nat /\ got \in Nat
  /\ tasks \in Seq(Tasks) /\ stop \in BOOLEAN
  /\ at \in [Workers -> {"lock", "wait", "run", "exit"}]
  /\ task \in [Workers -> Tasks \cup {NoTask}]
  /\ ready \subseteq Tasks

(* No wake-up is lost: as long as a thread waits, there are threads awake, *)
(* or about to be woken, for all tasks in the queue, although notify_one   *)
(* comes after the mutex is released and a thread that is woken may find   *)
(* the queue empty.                                                        *)
Awake == {t \in Workers : at[t] = "lock"}
WakeupsSuffice ==
  Waiting # {} =>
    Len(tasks) <= Cardinality(Awake) + (IF driver = "notify" THEN 1 ELSE 0)

(* A task is in one place: once in the queue, with one worker, or done.    *)
OnceEach ==
  /\ \A i, j \in DOMAIN tasks : tasks[i] = tasks[j] => i = j
  /\ \A t, u \in Workers : task[t] = task[u] /\ t # u => task[t] = NoTask
  /\ \A i \in DOMAIN tasks : tasks[i] \notin ready
  /\ \A t \in Workers : task[t] \notin ready
  /\ \A i \in DOMAIN tasks : \A t \in Workers : tasks[i] # task[t]

(* The pool does what the generators take it for, and a task that waits    *)
(* while a worker is idle is taken: ThreadPool implements TaskHandout.     *)
Handout == INSTANCE TaskHandout WITH running <- task
HandsOut == Handout!FairSpec

(* The program comes to an end: no batch waits for ever, and the           *)
(* destructor joins threads of which each has seen the flag.               *)
PoolEnds == <>(driver = "gone")
=============================================================================
