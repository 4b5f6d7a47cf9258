---------------------------- MODULE TaskHandout ----------------------------
(***************************************************************************)
(* What the label generators take the thread pool for: the driver puts the *)
(* tasks of a batch in a queue, any idle worker takes the first one and    *)
(* finishes it, and when all of the batch are finished the driver goes on  *)
(* with the next batch.  CpuLabelGen and CpuLabelClean hand out tasks so.  *)
(***************************************************************************)
EXTENDS Integers, Sequences

CONSTANTS
  Workers,     \* the threads of the pool
  BatchSizes   \* how many tasks the driver enqueues between two waits

VARIABLES
  batch,     \* the current batch, one more than there are at the end
  next,      \* how many of its tasks are enqueued
  tasks,     \* the queue
  running,   \* the task of each worker
  ready      \* the tasks whose future is ready

vars == <<batch, next, tasks, running, ready>>

NoTask == <<0, 0>>
Tasks == {b \in (1 .. Len(BatchSizes)) \X (Nat \ {0}) : b[2] <= BatchSizes[b[1]]}

Enqueue ==
  /\ batch <= Len(BatchSizes) /\ next < BatchSizes[batch]
  /\ tasks' = Append(tasks, <<batch, next + 1>>)
  /\ next' = next + 1
  /\ UNCHANGED <<batch, running, ready>>

Take(t) ==
  /\ running[t] = NoTask /\ tasks # <<>>
  /\ running' = [running EXCEPT ![t] = Head(tasks)]
  /\ tasks' = Tail(tasks)
  /\ UNCHANGED <<batch, next, ready>>

Finish(t) ==
  /\ running[t] # NoTask
  /\ ready' = ready \cup {running[t]}
  /\ running' = [running EXCEPT ![t] = NoTask]
  /\ UNCHANGED <<batch, next, tasks>>

Collect ==
  /\ batch <= Len(BatchSizes) /\ next = BatchSizes[batch]
  /\ \A i \in 1 .. next : <<batch, i>> \in ready
  /\ batch' = batch + 1 /\ next' = 0
  /\ UNCHANGED <<tasks, running, ready>>

Init ==
  /\ batch = 1 /\ next = 0 /\ tasks = <<>>
  /\ running = [t \in Workers |-> NoTask]
  /\ ready = {}

Next == Enqueue \/ Collect \/ (\E t \in Workers : Take(t) \/ Finish(t))

Spec == Init /\ [][Next]_vars

(* A queued task is taken if a worker is idle, whichever; tasks end.       *)
FairSpec ==
  /\ Spec
  /\ WF_vars(Enqueue \/ Collect)
  /\ WF_vars(\E t \in Workers : Take(t))
  /\ \A t \in Workers : WF_vars(Finish(t))
=============================================================================
