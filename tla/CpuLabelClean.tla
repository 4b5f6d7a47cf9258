--------------------------- MODULE CpuLabelClean ---------------------------
(***************************************************************************)
(* Label cleaning on the CPU (hop_constrained_clean_L_distributed): for a  *)
(* range of vertices one task per vertex on the shared pool.  A task       *)
(* copies the labels of its vertex and tests them one after the other      *)
(* against the labels their hubs have at that moment, which the tasks of   *)
(* the hubs may have replaced already or not; it writes back what it kept. *)
(* A step is one section under a mutex with the local code after it.       *)
(***************************************************************************)
EXTENDS HopLabels, SequencesExt

CONSTANTS
  Workers,     \* the threads of the pool
  NumSlots     \* num_of_threads: how many scratch sets there are

VARIABLES
  driver,    \* whether the driver rests or waits for the futures
  tasks,     \* the vertices whose tasks wait in the pool
  finished,  \* the vertices whose futures are ready
  pc,        \* what a worker does next
  vertex,    \* the vertex of its task
  used,      \* its used_id
  Lv,        \* the copied labels it has still to test
  final,     \* Lv_final
  Qid,       \* Qid_599
  T,         \* Temp_L_vk_599: per scratch set and hub what was kept
  L          \* LL: the labels of each vertex

vars == <<driver, tasks, finished, pc, vertex, used, Lv, final, Qid, T, L>>
----------------------------------------------------------------------------
Slots == 0 .. NumSlots - 1

(* The driver enqueues a task per vertex from V_start to before V_end.     *)
StartRange(V_start, V_end) ==
  /\ driver = "rest"
  /\ tasks' = [i \in 1 .. V_end - V_start |-> V_start + i - 1]
  /\ driver' = "wait"
  /\ UNCHANGED <<finished, pc, vertex, used, Lv, final, Qid, T, L>>

(* Every future is ready.                                                  *)
CollectRange(V_start, V_end) ==
  /\ driver = "wait" /\ finished = V_start .. V_end - 1
  /\ finished' = {}
  /\ driver' = "rest"
  /\ UNCHANGED <<tasks, pc, vertex, used, Lv, final, Qid, T, L>>

(* A worker of the pool takes the first task.                              *)
TakeTask(t) ==
  /\ pc[t] = "idle" /\ tasks # <<>>
  /\ vertex' = [vertex EXCEPT ![t] = Head(tasks)]
  /\ tasks' = Tail(tasks)
  /\ pc' = [pc EXCEPT ![t] = "slot"]
  /\ UNCHANGED <<driver, finished, used, Lv, final, Qid, T, L>>

(* Qid_599.front(), pop() under the last mutex.                            *)
TakeSlot(t) ==
  /\ pc[t] = "slot" /\ Qid # <<>>
  /\ used' = [used EXCEPT ![t] = Head(Qid)]
  /\ Qid' = Tail(Qid)
  /\ pc' = [pc EXCEPT ![t] = "copy"]
  /\ UNCHANGED <<driver, tasks, finished, vertex, Lv, final, T, L>>

(* Under the shared mutex of v.                                            *)
Copy(t) ==
  /\ pc[t] = "copy"
  /\ Lv' = [Lv EXCEPT ![t] = L[vertex[t]]]
  /\ final' = [final EXCEPT ![t] = <<>>]
  /\ pc' = [pc EXCEPT ![t] = "test"]
  /\ UNCHANGED <<driver, tasks, finished, vertex, used, Qid, T, L>>

(* min_dis: the best meeting of the hub's labels with those kept so far.   *)
MutBestMeeting(s, l) ==
  Min({Inf} \cup UNION {{a.dist + b.dist :
        b \in {x \in T[s][a.hub] : a.hop <= l.hop /\ x.hop <= l.hop}} :
        a \in ToSet(L[l.hub])})
BestMeeting(s, l) ==
  Min({Inf} \cup UNION {{a.dist + b.dist :
        b \in {x \in T[s][a.hub] : a.hop + x.hop <= l.hop}} :
        a \in ToSet(L[l.hub])})

(* Under the shared mutex of the hub the task reads the hub's labels; a    *)
(* label they do not answer is kept and noted in the scratch set.          *)
MutTestStays(t) ==
  /\ pc[t] = "test" /\ Lv[t] # <<>>
  /\ LET s == used[t]
         l == Head(Lv[t])
     IN  IF BestMeeting(s, l) > l.dist
         THEN /\ final' = [final EXCEPT ![t] = Append(@, l)]
              /\ T' = [T EXCEPT ![s][l.hub] = @ \cup {[dist |-> l.dist, hop |-> l.hop]}]
              /\ Lv' = [Lv EXCEPT ![t] = Tail(@)]
         ELSE UNCHANGED <<Lv, final, T>>
  /\ UNCHANGED <<driver, tasks, finished, pc, vertex, used, Qid, L>>
Test(t) ==
  /\ pc[t] = "test" /\ Lv[t] # <<>>
  /\ LET s == used[t]
         l == Head(Lv[t])
     IN  IF BestMeeting(s, l) > l.dist
         THEN /\ final' = [final EXCEPT ![t] = Append(@, l)]
              /\ T' = [T EXCEPT ![s][l.hub] = @ \cup {[dist |-> l.dist, hop |-> l.hop]}]
         ELSE UNCHANGED <<final, T>>
  /\ Lv' = [Lv EXCEPT ![t] = Tail(@)]
  /\ UNCHANGED <<driver, tasks, finished, pc, vertex, used, Qid, L>>

(* The scratch set is cleared along the kept labels; under the mutex of v  *)
(* they replace its labels.                                                *)
MutWrite(t) ==
  /\ pc[t] = "test" /\ Lv[t] = <<>>
  /\ L' = [L EXCEPT ![vertex[t]] = final[t]]
  /\ T' = [T EXCEPT ![used[t]][vertex[t]] = {}]
  /\ pc' = [pc EXCEPT ![t] = "return"]
  /\ UNCHANGED <<driver, tasks, finished, vertex, used, Lv, final, Qid>>
Write(t) ==
  /\ pc[t] = "test" /\ Lv[t] = <<>>
  /\ L' = [L EXCEPT ![vertex[t]] = final[t]]
  /\ T' = [T EXCEPT ![used[t]] =
             [m \in Vertices |->
                IF m \in {l.hub : l \in ToSet(final[t])} THEN {} ELSE @[m]]]
  /\ pc' = [pc EXCEPT ![t] = "return"]
  /\ UNCHANGED <<driver, tasks, finished, vertex, used, Lv, final, Qid>>

(* Under the last mutex the id goes back; the task's future is ready.      *)
ReturnSlot(t) ==
  /\ pc[t] = "return"
  /\ Qid' = Append(Qid, used[t])
  /\ finished' = finished \cup {vertex[t]}
  /\ pc' = [pc EXCEPT ![t] = "idle"]
  /\ UNCHANGED <<driver, tasks, vertex, used, Lv, final, T, L>>

Init ==
  /\ driver = "rest" /\ tasks = <<>> /\ finished = {}
  /\ pc = [t \in Workers |-> "idle"]
  /\ vertex = [t \in Workers |-> 0]
  /\ used = [t \in Workers |-> 0]
  /\ Lv = [t \in Workers |-> <<>>]
  /\ final = [t \in Workers |-> <<>>]
  /\ Qid = [i \in 1 .. NumSlots |-> i - 1]
  /\ T = [s \in Slots |-> [m \in Vertices |-> {}]]

Step(t) == TakeTask(t) \/ TakeSlot(t) \/ Copy(t) \/ Test(t) \/ Write(t)
             \/ ReturnSlot(t)
----------------------------------------------------------------------------
(* A scratch set that waits in the queue holds nothing of its last task,   *)
(* which cleared only the rows of the labels it kept.                      *)
NothingLeft ==
  \A i \in DOMAIN Qid : T[Qid[i]] = [m \in Vertices |-> {}]
=============================================================================
