---------------------------- MODULE CpuLabelGen ----------------------------
(***************************************************************************)
(* The CPU label generator (cpu_label_gen.hpp): for each group one task    *)
(* per vertex on the shared thread pool, _2023WWW_thread_function_optimized *)
(* or _2023WWW_thread_function as the command line's cpu_type says.  A     *)
(* task takes an id of the queue Qid_599, and with it a set of scratch     *)
(* arrays; it copies the labels of its vertex, then walks the graph hop by *)
(* hop, testing every vertex it meets against the labels of that vertex at *)
(* that moment.  A step is one section under a mutex with the thread-local *)
(* code that follows it, so labels of other tasks may appear between any   *)
(* two accesses.  The two functions differ in the copy, in how it is       *)
(* cleared, and in the rank pruning that only the optimized one has.       *)
(***************************************************************************)
EXTENDS HopLabels, SequencesExt, Ordering

CONSTANTS
  Graphs,      \* the weighted graphs an instance explores
  Groupings,   \* the sequences of vertex groups main.cu may pass
  CpuTypes,    \* the values of cpu_type: 0 is the optimized function, 1 the other
  Workers,     \* the threads of the pool
  NumSlots     \* num_of_threads: how many scratch sets there are

(* graph_v_of_v::add_edge enters an edge in both rows, and the walks within *)
(* hop_cst stay far below what a query answers when it finds nothing.      *)
ASSUME CpuGraphAssumption ==
  \A g \in Graphs :
    /\ g \in [Vertices \X Vertices -> Nat]
    /\ \A u, v \in Vertices : g[<<u, v>>] = g[<<v, u>>] /\ K * g[<<u, v>>] < Inf
(* generate_Group_CDLP: each vertex is in a group, and none twice in one.  *)
ASSUME CpuGroupAssumption ==
  \A gs \in Groupings :
    /\ gs \in Seq(Seq(Vertices))
    /\ \A v \in Vertices : \E g \in DOMAIN gs : v \in ToSet(gs[g])
    /\ \A g \in DOMAIN gs : IsInjective(gs[g])
ASSUME CpuTypeAssumption == CpuTypes \subseteq {0, 1}
ASSUME CpuSlotAssumption ==
  /\ IsFiniteSet(Workers)
  /\ NumSlots \in Nat
  /\ Cardinality(Workers) <= NumSlots

VARIABLES
  w,        \* ideal_graph_599, fixed by Init
  groups,   \* graph_pool.graph_group, fixed by Init
  cpuType,  \* cpu_type, fixed by Init
  gid,      \* main's loop index over the groups
  driver,   \* whether the driver enqueues or waits for the futures
  tasks,    \* the vertices whose tasks wait in the pool
  finished, \* the vertices whose futures are ready
  pc,       \* what a worker does next
  vk,       \* the vertex of its task
  used,     \* its used_id
  loop,     \* its hop, place in Vh[hop], dist_hop_changes, dh_updates
            \* and Temp_L_vk_changes
  Qid,      \* Qid_599
  Temp,     \* Temp_L_vk_599_v2: per hub and hop bound the least distance,
            \* or Temp_L_vk_599: the pairs of each hub
  distHop,  \* dist_hop_599
  Vh,       \* Vh_599
  L,        \* L_temp_599
  LHybrid,  \* main's label sets
  snap      \* history: how many labels of its vertex a task has copied

vars == <<w, groups, cpuType, gid, driver, tasks, finished, pc, vk, used, loop, Qid,
          Temp, distHop, Vh, L, LHybrid, snap>>
main == <<w, groups, cpuType, gid, driver, LHybrid>>   \* what the workers leave alone

Slots == 0 .. NumSlots - 1
FreshRow == [k \in 0 .. K |-> Inf]
Unseen == [dist |-> Inf, par |-> 0]
Walk(h, i, changed, upd, hubs) ==
  [h |-> h, i |-> i, changed |-> changed, upd |-> upd, hubs |-> hubs]
Idle == Walk(0, 1, {}, <<>>, {})
FreshCopy == IF cpuType = 1 THEN {} ELSE [v \in Vertices |-> FreshRow]
----------------------------------------------------------------------------
(* The driver enqueues a task per vertex of the group.                     *)
StartGroup ==
  /\ gid <= Len(groups) /\ driver = "enqueue"
  /\ tasks' = groups[gid]
  /\ driver' = "wait"
  /\ UNCHANGED <<w, groups, cpuType, gid, finished, pc, vk, used, loop, Qid, Temp,
                 distHop, Vh, L, LHybrid, snap>>

(* Every future is ready: the labels move to the caller's sets.            *)
CollectGroup ==
  /\ driver = "wait" /\ finished = ToSet(groups[gid])
  /\ LHybrid' = [v \in Vertices |-> LHybrid[v] \o L[v]]
  /\ L' = [v \in Vertices |-> <<>>]
  /\ finished' = {}
  /\ driver' = "enqueue"
  /\ gid' = gid + 1
  /\ UNCHANGED <<w, groups, cpuType, tasks, pc, vk, used, loop, Qid, Temp, distHop, Vh,
                 snap>>

(* A worker of the pool takes the first task.                              *)
TakeTask(t) ==
  /\ pc[t] = "idle" /\ tasks # <<>>
  /\ vk' = [vk EXCEPT ![t] = Head(tasks)]
  /\ tasks' = Tail(tasks)
  /\ pc' = [pc EXCEPT ![t] = "slot"]
  /\ UNCHANGED <<main, finished, used, loop, Qid, Temp, distHop, Vh, L, snap>>

(* Qid_599.front(), pop() under the last mutex; the queue is not tested,   *)
(* and what an empty one answers is left out (see SlotAvailable).          *)
MutTakeSlot(t) ==
  /\ pc[t] = "slot" /\ Qid # <<>>
  /\ used' = [used EXCEPT ![t] = Head(Qid)]
  /\ pc' = [pc EXCEPT ![t] = "snapshot"]
  /\ UNCHANGED <<main, tasks, finished, vk, loop, Qid, Temp, distHop, Vh, L,
                 snap>>
TakeSlot(t) ==
  /\ pc[t] = "slot" /\ Qid # <<>>
  /\ used' = [used EXCEPT ![t] = Head(Qid)]
  /\ Qid' = Tail(Qid)
  /\ pc' = [pc EXCEPT ![t] = "snapshot"]
  /\ UNCHANGED <<main, tasks, finished, vk, loop, Temp, distHop, Vh, L, snap>>

(* One label lowers its hub's row from its hop on, up to the first entry   *)
(* that is no larger.                                                      *)
MutRecord(rows, l) ==
  [rows EXCEPT ![l.hub][l.hop] = Min({@, l.dist})]
Record(rows, l) ==
  LET below(k) == \A j \in l.hop .. k : rows[l.hub][j] > l.dist
  IN  [rows EXCEPT ![l.hub] =
         [k \in 0 .. K |-> IF k >= l.hop /\ below(k) THEN l.dist ELSE @[k]]]

(* The labels of v_k go into the copy: all of them, or what they lower.    *)
Copied(copy, labels) ==
  IF cpuType = 1
  THEN copy \cup {[hub |-> l.hub, hop |-> l.hop, dist |-> l.dist] : l \in ToSet(labels)}
  ELSE LET rows[i \in 0 .. Len(labels)] ==
             IF i = 0 THEN copy ELSE Record(rows[i - 1], labels[i])
       IN  rows[Len(labels)]

(* Under mtx[v_k] the task copies the labels of v_k; then it seeds the walk. *)
Snapshot(t) ==
  LET s == used[t]
      v == vk[t]
  IN  /\ pc[t] = "snapshot"
      /\ Temp' = [Temp EXCEPT ![s] = Copied(@, L[v])]
      /\ Vh' = [Vh EXCEPT ![s][0] = Append(@, v)]
      /\ distHop' = [distHop EXCEPT ![s][v] = [dist |-> 0, par |-> v]]
      /\ loop' = [loop EXCEPT ![t] = Walk(0, 1, {v}, <<>>,
                                            {l.hub : l \in ToSet(L[v])})]
      /\ snap' = [snap EXCEPT ![t] = Len(L[v])]
      /\ pc' = [pc EXCEPT ![t] = "walk"]
      /\ UNCHANGED <<main, tasks, finished, vk, used, Qid, L>>

(* What the copy answers for a hub within k hops.                          *)
Best(s, m, k) ==
  IF cpuType = 1
  THEN Min({Inf} \cup {p.dist : p \in {x \in Temp[s] : x.hub = m /\ x.hop <= k}})
  ELSE Temp[s][m][k]

(* query_v_k_u: the best meeting of u's labels with the copied ones.       *)
MutQuery(s, u, h) ==
  Min({Inf} \cup {l.dist + Best(s, l.hub, h) :
                    l \in {x \in ToSet(L[u]) : x.hop <= h}})
Query(s, u, h) ==
  Min({Inf} \cup {l.dist + Best(s, l.hub, h - l.hop) :
                    l \in {x \in ToSet(L[u]) : x.hop <= h}})

(* The vertex a worker stands at.                                          *)
AtVertex(t) == loop[t].i <= Len(Vh[used[t]][loop[t].h])
Here(t) == Vh[used[t]][loop[t].h][loop[t].i]

(* Rank pruning, which one of the functions has, then the test under       *)
(* mtx[u].                                                                 *)
Accepts(t, u) ==
  /\ cpuType = 1 \/ u >= vk[t]
  /\ distHop[used[t]][u].dist < Query(used[t], u, loop[t].h)

MutTest(t) ==
  /\ pc[t] = "walk" /\ AtVertex(t)
  /\ pc' = [pc EXCEPT ![t] = IF Accepts(t, Here(t)) THEN "push" ELSE @]
  /\ UNCHANGED <<main, tasks, finished, vk, used, loop, Qid, Temp, distHop, Vh,
                 L, snap>>
Test(t) ==
  /\ pc[t] = "walk" /\ AtVertex(t)
  /\ IF Accepts(t, Here(t))
     THEN pc' = [pc EXCEPT ![t] = "push"] /\ UNCHANGED loop
     ELSE loop' = [loop EXCEPT ![t].i = @ + 1] /\ UNCHANGED pc
  /\ UNCHANGED <<main, tasks, finished, vk, used, Qid, Temp, distHop, Vh, L,
                 snap>>

(* The neighbours whose distance improves through u.                       *)
Improved(s, u) ==
  {x \in Nbrs(w, u) : distHop[s][u].dist + w[<<u, x>>] < distHop[s][x].dist}

(* dh_updates keeps every offer; of those of a vertex the first of the     *)
(* smallest ones takes effect.                                             *)
Offer(upd, s, u) ==
  LET d(x) == distHop[s][u].dist + w[<<u, x>>]
  IN  [x \in DOMAIN upd \cup Improved(s, u) |->
         IF x \in Improved(s, u) /\ (x \in DOMAIN upd => d(x) < upd[x].dist)
         THEN [dist |-> d(x), par |-> u]
         ELSE upd[x]]

(* Under mtx[u] the new label is appended; the offers follow, and the      *)
(* vertices met first join the next frontier in adjacency order.           *)
Push(t) ==
  LET s == used[t]
      u == Here(t)
      h == loop[t].h
      unmet == Ordered(Improved(s, u) \ DOMAIN loop[t].upd, <)
  IN  /\ pc[t] = "push"
      /\ L' = [L EXCEPT ![u] =
                 Append(@, [hub |-> vk[t], hop |-> h,
                            dist |-> distHop[s][u].dist,
                            par |-> distHop[s][u].par])]
      /\ Vh' = [Vh EXCEPT ![s][h + 1] = @ \o unmet]
      /\ loop' = [loop EXCEPT ![t] = Walk(h, @.i + 1, @.changed, Offer(@.upd, s, u),
                                            @.hubs)]
      /\ pc' = [pc EXCEPT ![t] = "walk"]
      /\ UNCHANGED <<main, tasks, finished, vk, used, Qid, Temp, distHop, snap>>

(* The hop ends: its offers become the distances of the next hop.          *)
Lowered(row, upd) ==
  [x \in Vertices |-> IF x \in DOMAIN upd /\ row[x].dist > upd[x].dist
                      THEN upd[x] ELSE row[x]]
NextHop(t) ==
  /\ pc[t] = "walk" /\ ~AtVertex(t)
  /\ IF loop[t].h < K
     THEN /\ distHop' = [distHop EXCEPT ![used[t]] = Lowered(@, loop[t].upd)]
          /\ loop' = [loop EXCEPT ![t] = Walk(@.h + 1, 1, @.changed \cup DOMAIN @.upd,
                                                <<>>, @.hubs)]
          /\ UNCHANGED pc
     ELSE /\ pc' = [pc EXCEPT ![t] = "reset"]
          /\ UNCHANGED <<distHop, loop>>
  /\ UNCHANGED <<main, tasks, finished, vk, used, Qid, Temp, Vh, L, snap>>

(* One label clears its hub's row from its hop up to the first clear entry. *)
MutClear(rows, l) == [rows EXCEPT ![l.hub][l.hop] = Inf]
Clear(rows, l) ==
  LET set(k) == \A j \in l.hop .. k : rows[l.hub][j] # Inf
  IN  [rows EXCEPT ![l.hub] =
         [k \in 0 .. K |-> IF k >= l.hop /\ set(k) THEN Inf ELSE @[k]]]

(* Under mtx[v_k] the rows are cleared along the labels v_k has by now;    *)
(* the other function empties the hubs it copied, without the mutex.       *)
Cleared(copy, labels, hubs) ==
  IF cpuType = 1
  THEN {p \in copy : p.hub \notin hubs}
  ELSE LET rows[i \in 0 .. Len(labels)] ==
             IF i = 0 THEN copy ELSE Clear(rows[i - 1], labels[i])
       IN  rows[Len(labels)]

(* Then the frontiers of hops 0 .. K and the changed distances.            *)
Reset(t) ==
  LET s == used[t]
  IN  /\ pc[t] = "reset"
      /\ Temp' = [Temp EXCEPT ![s] = Cleared(@, L[vk[t]], loop[t].hubs)]
      /\ Vh' = [Vh EXCEPT ![s] = [i \in DOMAIN @ |-> IF i <= K THEN <<>> ELSE @[i]]]
      /\ distHop' = [distHop EXCEPT ![s] =
                       [x \in Vertices |-> IF x \in loop[t].changed THEN Unseen
                                           ELSE @[x]]]
      /\ pc' = [pc EXCEPT ![t] = "return"]
      /\ UNCHANGED <<main, tasks, finished, vk, used, loop, Qid, L, snap>>

(* Under the last mutex the id goes back; the task's future is ready.      *)
MutReturnSlot(t) ==
  /\ pc[t] = "return"
  /\ finished' = finished \cup {vk[t]}
  /\ loop' = [loop EXCEPT ![t] = Idle]
  /\ pc' = [pc EXCEPT ![t] = "idle"]
  /\ UNCHANGED <<main, tasks, vk, used, Qid, Temp, distHop, Vh, L, snap>>
ReturnSlot(t) ==
  /\ pc[t] = "return"
  /\ Qid' = Append(Qid, used[t])
  /\ finished' = finished \cup {vk[t]}
  /\ loop' = [loop EXCEPT ![t] = Idle]
  /\ pc' = [pc EXCEPT ![t] = "idle"]
  /\ UNCHANGED <<main, tasks, vk, used, Temp, distHop, Vh, L, snap>>
----------------------------------------------------------------------------
(* hop_constrained_two_hop_labels_generation_init.                         *)
Init ==
  /\ w \in Graphs /\ groups \in Groupings /\ cpuType \in CpuTypes
  /\ gid = 1 /\ driver = "enqueue" /\ tasks = <<>> /\ finished = {}
  /\ pc = [t \in Workers |-> "idle"]
  /\ vk = [t \in Workers |-> 0]
  /\ used = [t \in Workers |-> 0]
  /\ loop = [t \in Workers |-> Idle]
  /\ Qid = [i \in 1 .. NumSlots |-> i - 1]
  /\ Temp = [s \in Slots |-> FreshCopy]
  /\ distHop = [s \in Slots |-> [v \in Vertices |-> Unseen]]
  /\ Vh = [s \in Slots |-> [h \in 0 .. K + 1 |-> <<>>]]
  /\ L = [v \in Vertices |-> <<>>]
  /\ LHybrid = [v \in Vertices |-> <<>>]
  /\ snap = [t \in Workers |-> 0]

Step(t) == TakeTask(t) \/ TakeSlot(t) \/ Snapshot(t) \/ Test(t) \/ Push(t)
             \/ NextHop(t) \/ Reset(t) \/ ReturnSlot(t)

Done == gid > Len(groups) /\ UNCHANGED vars

Next == StartGroup \/ CollectGroup \/ (\E t \in Workers : Step(t)) \/ Done

Spec == Init /\ [][Next]_vars
----------------------------------------------------------------------------
Holds(t) == pc[t] \in {"snapshot", "walk", "push", "reset", "return"}

(* The queue of ids gives no scratch set to two tasks at once: the ids     *)
(* held and the ids queued are all different (Qid_599 under the last       *)
(* mutex).                                                                 *)
SlotExclusive ==
  /\ \A t, u \in Workers : t # u /\ Holds(t) /\ Holds(u) => used[t] # used[u]
  /\ \A t \in Workers, i \in DOMAIN Qid : Holds(t) => used[t] # Qid[i]
  /\ \A i, j \in DOMAIN Qid : i # j => Qid[i] # Qid[j]

(* Qid_599.front() is never called on an empty queue, which the code does  *)
(* not test: a task about to take an id finds one.                         *)
SlotAvailable == \A t \in Workers : pc[t] = "slot" => Qid # <<>>

(* A scratch set that waits in the queue is as good as new, although its   *)
(* last task cleared it along labels other tasks kept adding to: no copied *)
(* label, frontier of a hop that is walked, or distance leaks into the     *)
(* next task.                                                              *)
ScratchClean ==
  \A i \in DOMAIN Qid :
    /\ Temp[Qid[i]] = FreshCopy
    /\ distHop[Qid[i]] = [v \in Vertices |-> Unseen]
    /\ \A h \in 0 .. K : Vh[Qid[i]][h] = <<>>

(* While a task walks, its copy answers exactly for the labels its vertex  *)
(* had at the snapshot: for every hub and hop bound the least distance     *)
(* within the bound, the early breaks of the copying loop included.        *)
CopyIsPrefixMin ==
  \A t \in Workers : pc[t] \in {"walk", "push", "reset"} =>
    \A m \in Vertices, k \in 0 .. K :
      Best(used[t], m, k) =
        Min({Inf} \cup {l.dist : l \in {L[vk[t]][i] : i \in {j \in 1 .. snap[t] :
                            L[vk[t]][j].hub = m /\ L[vk[t]][j].hop <= k}}})

(* When a task with rank pruning ends its canonical labels are all there,  *)
(* whatever labels of the other tasks it saw or missed in between.         *)
CanonicalKept ==
  LET D == HopDist(w)
  IN  cpuType = 0 =>
      \A m \in finished, v \in Vertices, h \in 0 .. K :
        Canonical(D, m, v, h) =>
          \E i \in DOMAIN L[v] : /\ L[v][i].hub = m /\ L[v][i].hop = h
                                 /\ L[v][i].dist = D[h][<<m, v>>]
=============================================================================
