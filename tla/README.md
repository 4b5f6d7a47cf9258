# MultiGPU4CL in TLA+

MultiGPU4CL builds hop-constrained two-hop labels of a weighted undirected
graph: for a pair (u, v) and a bound k, the shortest distance over paths of at
most k edges is read off the labels of u and v. The graph is reordered by degree,
cut into groups of at most `MAX_GROUP_SIZE` vertices (label propagation on the
GPU, then merging), and for each group labels are generated, on a GPU or with a
CPU thread pool; the labels of all groups are cleaned of redundant ones, range by
range, and checked against Dijkstra.

This directory models the parts of that pipeline whose correctness depends on
order, interleaving or boundary cases, checks them with TLC, and proves the
central facts about the concurrent structures with TLAPS. `PROJECT.json` maps
every definition to the lines it translates and lists runs, mutants, hazards,
findings and theorems.

## 1. Inventory

For each part: its state, its operations, how it meets the others, what is hard,
and what makes it correct.

**Graph input and reordering** (`graph_v_of_v.hpp`,
`graph_v_of_v_update_vertexIDs_by_degrees_large_to_small.hpp`,
`sorted_vector_ops.h`). State: adjacency vectors sorted by vertex. Operations:
read a file line by line, insert an edge in both rows, renumber by degree.
Everyone reads the result. Correct when, whatever the order of the lines, each
edge is in both rows once, with the last weight of the file, and the new ids are
a permutation. `CsrGraph`.

**CSR conversion** (`csr_graph.hpp`, `ldbc_graph.hpp`). State: pointers, edges,
weights, `source`, `inv`. A packed label names an edge id, and the generator
finds an edge's reverse through `inv`. Hard: the reverse is found by counting
alone, and a vertex without edges has no id. Correct when id, source and target
agree and the conversion never gives up. `CsrGraph`.

**Label propagation** (`cdlp_gpu.cuh`). State: `labels`, `new_labels`,
`community_size`. One thread per vertex races on the counters with a read and a
compare-and-swap. Hard: the check and the increment are separate, the fallback
to the own label ignores the bound. Correct when counters are exact, nobody is
turned away from a community with room, and the kernel ends. `Cdlp`.

**Group construction** (`graph_partition.cuh`). State: the ordered set `se`,
`groups_after`, `groups`. Hard: iterators into a set being edited, the decrement
of its first iterator. Correct when every vertex is in exactly one group, no
merge is missed and the bound is kept. `GroupMerge`, and with the propagation
before it `Partition`.

**GPU label generator** (`gpu_label_gen.cu`, `gpu_label_manager.cuh`). State: the
label buffer `T`, two offset arrays, the hash tables `das` and `has`, the pinned
host buffer `L`. Operations: per group a hop loop of kernels (gather, clear of
das, sort, prune, select, update). Main calls it group after group and converts
`L`. Hard: linear probing under concurrent inserts and clears; neighbour
comparisons at the ends of a launch; positions of two buffers that differ by one.
Correct when the labels cover all queries and none is redundant.
`GpuLabelGen`, `DasTable`, `HasTable`.

**Load balancing in gen_gather** (`TravBalance`). State: the shared words in
which a winner describes its row to its team, the counter of `T_after`.
Operations: the threads of a block vie for their long rows (block tier), the
lanes of a warp for their middle ones (warp tier), and batch the rest. Hard: the
shared words are reused by the next winner, and the two warps reserve room in
`T_after` with one atomic each while all of them insert into `das`. Correct when
each (label, neighbour) pair is offered once and `T_after` has no gap.
`GenGather`, which implements a round of `DasTable`.

**CPU label generator** (`cpu_label_gen.hpp`). State: the scratch sets
(`Temp_L_vk`, `dist_hop`, `Vh`) handed out by the id queue `Qid_599`, and
`L_temp_599` with one mutex per vertex. One task per vertex of a group. Hard: the
labels of every vertex change between any two sections of a task; clean-up
follows labels that have changed since. Correct when no scratch set is shared or
left dirty and no label needed for a query is lost. `CpuLabelGen` has both
functions `main.cu` can select by `cpu_type`; the three others stand behind flags
`main.cu` sets to 0.

**Thread pool** (`thread_pool.h`). State: the task queue, the stop flag, a
condition variable. Operations: enqueue, the worker's loop, the destructor. Hard:
`notify_one` outside the mutex, spurious wake-ups, a flag set between a worker's
test and its wait. Correct when every task runs once, a waiting thread is woken
while there is work, and the destructor returns. `ThreadPool`, which implements
`TaskHandout`.

**CPU and GPU label cleaning** (`cpu_label_gen.hpp`, `gpu_label_clean.cu`,
`main.cu`). Each label is tested against labels of higher ranked hubs while other
tasks rewrite them, or against a device array in which some ranges are cleaned
and some are not; a range goes to whichever executor is free. Correct when every
query keeps its answer at every moment. `CpuLabelClean`, `GpuLabelClean`, and
with main's loop `LabelClean`, which implements `LabelIndex`.

**Label queries, path extraction, checker** (`label_types.cuh`, `checker.cuh`,
`graph_v_of_v_hop_constrained_shortest_*.hpp`). A merge of two sorted lists with
an early break; a recursion that steps to the labels' parents; a Dijkstra over
(vertex, hops) that is stopped at the terminal. Correct when both answer the
hop-constrained distance and the path has that length. `LabelQuery`,
`Dijkstra`, `Checker`.

**Packed labels and device memory** (`gpu_label_manager.cuh`). Fields in one
64-bit word, allocation by free memory. The order of the words is modelled; the
field widths and the allocation are not (section 7).

**Device scheduling** (`main.cu`, `core/types.h`). State: the priority queue
`pq_gen` of executors by measured time, `L_hybrid`, the host buffer `L` with
`tot_L`. Operations: give each group to the executor that has worked least, add
its time, put it back; convert `L` when the groups are done; the same over ranges
for the cleaning. Hard: which executor gets a group depends on time, and no
executor sees the labels of another's group. Correct when the labels of all
executors together cover every query and the load stays balanced.
`LabelGeneration`, which composes the two generators, and `LabelClean`, which
composes the two cleaners (its executor is a free choice). The program starts
with `CPU_Gen_Num = 0` and `GPU_Gen_Num = 4`, `CPU_Clean_Num = 0` and
`GPU_Clean_Num = 4`, and each call returns before the next one starts.

**Group pool, utilities.** `get_next_graph` and `size` have no caller; printing,
timing, binary files and the random graph carry no state the labels depend on.
Not modelled. In the CSR code, `destroy_csr_graph` and the LDBC file loader have
no caller either; `graph_v_of_v_to_CSR` is called for label propagation only
(`graph_partition.cuh:24`) and is the `adj` of `Cdlp`.

Interaction, in one line: read -> reorder -> label propagation on a CSR copy ->
groups -> CSR with edge ids -> per group (GPU or CPU generator) -> labels per
vertex -> per range (GPU or CPU cleaning) -> sorted index -> checker.

## 2. Modules

| module | models | composes with |
|---|---|---|
| `HopLabels` | weighted graph, hop-constrained distance, query, cover, minimality | extended by the modules about labels |
| `CsrGraph` | file, reordering, LDBC form, CSR with ids and reverse edges | its ids are the (to, par) pairs of `GpuLabelGen` |
| `Cdlp` | one iteration after another, one counter access per step | |
| `GroupMerge` | grouping, merging, sorting | |
| `Partition` | `generate_Group_CDLP` as a whole | extends `Cdlp`, instance of `GroupMerge` |
| `GpuLabelGen` | host loop of `gpu_label_gen` with the effect of each kernel, the pass over the groups, the collection | uses the effects `DasTable` and `HasTable` justify |
| `DasTable` | `gen_das_insert`, `gen_das_clear`, one table access per step | |
| `GenGather` | `gen_gather` with its three tiers, its clear and the sort | extends `DasTable` and implements its rounds |
| `HasTable` | `gen_hash_insert`, `gen_hash_clear`, one access per step, `gen_hash_query` as reader | |
| `CpuLabelGen` | driver, hand-out of tasks and the two task functions | |
| `LabelGeneration` | main's generation loop with executors of both kinds | extends `CpuLabelGen`, instance of `GpuLabelGen` |
| `ThreadPool` | the pool and the driver's use of it | implements `TaskHandout` |
| `TaskHandout` | abstract: what the generators take the pool for | |
| `CpuLabelClean` | the operations of a CPU range, one section under a mutex per step | |
| `GpuLabelClean` | the operations of a GPU range, one kernel per step | |
| `LabelClean` | main's cleaning loop with executors of both kinds | instances of the two above; implements `LabelIndex` |
| `LabelIndex` | abstract: an index that loses labels and keeps every answer | |
| `Dijkstra` | the two reference functions of the checker | |
| `LabelQuery` | distance query and path extraction | |
| `Checker` | one check of the checker: reference, query, comparison, path | instances of the two above |
| `Ordering` | the order of a set's elements by rank, for the sorts and selects | extended by the generators |
| `*Proofs` | theorems; section 5 | `LabelGenerationProofs` is about `CpuLabelGen` and the loop, with `GpuLabelGenProofs` as an instance; `LabelCleanProofs` about both cleaners in their loop |
| `MC*` | instances: graphs, groupings, keys, labels | |

### Correspondence

*CsrGraph.* `ReadLine` is one line of `txt_read` with `add_edge`, whose two
sorted inserts are `Insert`; `Reorder` the reorder overload `main.cu` calls, whose
loop over the edges is `Renamed`; `ToLDBC` (with `Directed` for the edges out and,
turned, the edges in), `ToCSR` the conversions; `Link` one turn of the loop that finds
reverse edges by the per-vertex `pointer`. `file` is a history variable.

*Cdlp, GroupMerge, Partition.* `Read` is `atomicAdd(&.., 0)` with the tests after
it, `Swap` the compare-and-swap; `Propagate` and `EndIteration` the host between
kernels. `Merge` and `Emit` are the two outcomes of one turn of the while loop.
For the undefined decrement, `Partners` answers what libstdc++ does: end(), or
the remaining unit when the set has two. A set of two has its first unit at the
root when that unit was inserted first; the model lets the merge happen in every
set of two, so `MergeKeepsBound` is violated on an instance where the tree really
has that shape (groups {0, 1} and {2, 3, 4}, bound 3).

*GpuLabelGen.* `T`, `lastPos`, `lastSize`, `begin`, `end`, `has`, `L`, `totL` are
`T`, `last_pos`, `last_size`, `T_offset_begin/end`, the `has` table, the pinned
buffer and `tot_L`. `StartGroup` is the part of `gpu_label_gen` before the loop
(offsets, frontier, hop-0 copy); `Expand`, `Prune`, `UpdateHash` are the kernels
of one hop in stream order; `FinishGroup` the clear of `has` and the new
`L_size`; `Collect` main's conversion. The copy to the host has a stream of its
own but is awaited before the next kernel, so it is part of `Prune`. `own` is a
history variable: whether the offsets have kept every vertex's run within its own
labels. A buffer word nobody wrote reads as zero, the hop-0 label of
vertex 0, which is what the zero-filled buffers give.

*DasTable, HasTable.* A slot is a key and a value; `Empty` is the zero key. Each
thread has a `pc`, and a step is one atomic or plain access: two threads in the
same insert interleave access by access. In `HasTable` launches are in stream
order (`Advance`), as the generator issues them.

*GenGather.* `Vie`, `Win`, `Insert`, `Scan`, `Add`, `Emit` are what a thread does
between two barriers or shuffles of the block tier and the warp tier, `Share` and
`Batch` the last tier, where the rows left are packed by prefix sums; a step is
one access to shared memory, to `das` or to the counter. The two warps interleave
freely. The lanes of one warp meet at the two `__any_sync` and in the scan, which is a
warp-wide operation. Between them, at `gpu_label_gen.cu:213-226` and `246-251`, the
code has no `__syncwarp`, and `Meet` waits for the warp all the same: that the lanes
are in step there is an assumption (section 7). The table steps are those
of `DasTable`, whose `Init` asks only for labels in `T`; the refinement maps a
thread's insert to a candidate's insert and the tiers to stutters.

*CpuLabelGen, CpuLabelClean.* A step is one section under a mutex together with
the thread-local code that follows. `TakeTask`, `TakeSlot`, `Snapshot`, `Test`,
`Push`, `NextHop`, `Reset`, `ReturnSlot` are the sections of
`_2023WWW_thread_function_optimized` in order, and of `_2023WWW_thread_function`
where `cpuType` is 1: that one copies all labels of its vertex as pairs (`Copied`,
`Best`), clears the hubs it copied (`Cleared`) and has no rank pruning
(`Accepts`). `TakeTask`, `TakeSlot`, `Copy`,
`Test`, `Write`, `ReturnSlot` those of the cleaning task. `snap` is a history
variable.

*LabelGeneration.* `Dispatch` is `top` and `pop`, `OnCpu` and `OnGpu` the two
branches of the loop, step by step those of the generators, `GiveBack` the push
with the time added (1 .. `MaxTime` units), `Convert` the loop over `L[0 ..
tot_L - 1]`. `LHybrid`, `groups`, `gid` and the graph are shared by the two
generators, the rest is each one's own. The conversion loop has an OpenMP pragma
which this build ignores: `CMakeLists.txt` passes `-fopenmp` to the C++ compiler
only, and `main.cu` is compiled by nvcc; it is one step.

*ThreadPool.* A section under `queue_mutex` is a step (`Enqueue`, `Check`,
`SetStop`), `notify_one` and `notify_all` are steps of their own, `SpuriousWake` may
happen at any time. `Get` is `result.get()` in the driver's loop, `Join` the
joins of the destructor. The refinement maps `running` of `TaskHandout` to
`task`; waiting, waking and stopping are stutters.

*GpuLabelClean.* `InitHash`, `Prune`, `ClearHash`, `Select`, `UpdateOffsets` are
the kernels of a range in order, with the host code after each; `Convert` the
return of the cleaned ranges. The hash of a range appears by its effect: its
inserts take `atomicMin`, and its clear is the loop `HasTable` models.

*LabelClean.* `PickCpu`, `PickGpu` choose the executor of the next range,
`CpuReturns`, `GpuReturns` are the return of its call. `Index`, which the
refinement maps to `index`, is what main would end with if it stopped cleaning at
that moment: the rows of `L_hybrid` and the ranges the GPUs have cleaned.

*Checker.* `Expand`, `Discard`, `Arrive` are the three outcomes of one turn of
Dijkstra's loop; `Skip` and `Meet` of one turn of the merge loop; `Unroll` one
level of the path recursion, whose call is the last statement and is therefore a
loop. `goal` is the terminal the query file's checker passes, or -1 as the random
checker does. The file's checker runs Dijkstra and compares for its first 100 queries
only (`yy < 100`); a later one starts at stage "later", and its answer and path have
to be right without a reference.

## 3. Runs

| run | instance | shows |
|---|---|---|
| `csr_load` | files of up to five different pairs over 4 vertices, loops, repeats and weights 1 and 3 | whatever the order of lines the graph is the file; linking never gives up; ids, sources, targets and reverses agree |
| `partition` | degree-ordered graphs of 5 vertices, bound 3, 2 iterations | counters exact and at most one vertex over the bound, fallback only when full; then each vertex in one group, no two groups fit; all of it ends |
| `gather` | 8 threads in 2 warps, 7 labels whose rows take every tier, keys that meet in `das` | the edges offered are those of the rows, once each; one entry and one claimer per key; `T_after` without gaps; the least distances come out and the table is empty; the round ends and implements a round of `DasTable` |
| `has_race` | 4 labels, 3 (vertex, hub) pairs, hops 0..3, 9 slots, one run that wraps | between launches a query finds the newest label of its key; the concurrent clear leaves nothing; the group ends |
| `gen_hops` | degree-ordered graphs of 5 vertices, up to 6 edges, weights 1 and 3, 3 groupings, K = 4 | labels are walks; with right offsets `has` holds prefix minima and groups are minimal; the cover holds even with stale end offsets |
| `generate` | 4 vertices, 4 edges (one heavy), K = 2, both values of `cpu_type`, 2 workers, 3 groupings, a CPU executor alone or one of each kind, times 1 and 2 | every interleaving of the sections: scratch sets exclusive and clean, copies exact, canonical labels kept; labels of both kinds of executors cover together; load balanced; everything ends |
| `pool_batches` | 3 workers, batches of 4, 2 and 3 tasks | the pool implements the hand-out, liveness included; no wake-up is lost; the destructor joins |
| `clean` | 4 vertices, K = 2, weights 1 and 3, needed labels with spare ones added, ranges of 2, executors of both kinds, 2 workers | at every moment every query keeps its answer; offsets find the labels; scratch sets clean; one kind of executor leaves nothing redundant; the ranges end |
| `checker` | 4 vertices, K = 3, every query, both checkers, compared or not, indexes whose labels take the first or the last possible parent | Dijkstra is right where it is read, the merge answers the same, the path has that length within the hops, the recursion ends |
| `gen_boundary` | 3 vertices, K = 2 | violation: the cover fails because of the boundary test at line 378 |
| `gen_lost` | 3 vertices, K = 2 | violation: main reads the host buffer one word early |
| `merge_bound` | two communities | violation: two units that do not fit are merged |

Why the bounds are enough. Keys crowding one run contain every pattern of probing:
own slot, other key in between, wrap (`has_race`; in `gather` also a table that
becomes full; the proofs about `DasTable` are for every table). Two warps and rows of every tier make each tier run while the
other warp is in another. Weights 1 and 3 make a
two-edge detour beat a direct edge, so that a label of more hops improves one of
fewer; three hops are needed for a label pruned by a pair whose hops are both
positive and smaller. Four vertices give groups and ranges of two, whose boundary
in `T` and in the cleaned array matters. Two workers are the smallest number that
race; a third adds another writer, but each section touches one vertex under its
mutex, so pairwise races are the ones that occur. One CPU and one GPU executor with
two times are enough for a group to go to either, whichever had the one before. The pool has three, so
that one thread can take the task another was woken for while a third waits. A bound of three in `partition` lets a counter
go from room to full between a read and a swap. `clean` keeps K = 2, for which
the product of interleavings, label sets and executors is still exhaustible; the
same tests with three hops are those of `gen_hops`.

The conditioned properties of `gen_hops` and `generate` (`own`, `OffsetsExact`)
hold where the boundary tests at lines 378 and 381 happen to be right;
`gen_boundary` shows that they are not always. The two tests do not fail alike: a
begin offset that is not set lets a vertex's run take in other labels and breaks
the cover (`own` is false from then on), an end offset that is not set hides
labels, which costs minimality but no answer. `OffloadedCover` and `MixedCover`
hold in the latter case too, `GroupMinimal` needs both offsets right. Most
behaviours of the instances satisfy the conditions. `MinimalAtEnd` is
about executors of one kind: a CPU range that follows a GPU range sees hub rows
`main.cu` has dropped from `L_hybrid`, and keeps what it can no longer test.

## 4. Fairness

Only weak fairness is assumed, of each thread's step and of the host, never
strong fairness.

* `RoundEnds`, `GroupEnds`, `PartitionEnds` and the fair round that
  `ImplementsRound` refers to: GPU threads of a launched kernel are
  resident, and no thread spins on the progress of another.
* `GenerationEnds`, `AllRangesEnd`: pool threads are OS threads, under mutexes held
  for bounded sections; `main` and the driver go on when what they wait for is
  there.
* `HandsOut`, `PoolEnds`: the driver's step and each worker's step. A thread in
  `condition.wait` is woken by a notification only: spurious wake-ups are allowed
  and nothing depends on them. The fairness of `TaskHandout`, that a queued task
  is taken if some worker is idle, is what `HandsOut` shows to follow.
* `CheckEnds`: the sequential checker goes on.

## 5. What is proved

All proofs are for every value of the constants under the named assumptions:
every graph, every hop_cst, every grouping, every number of threads. The table
lists the modules; a run checks each property on small instances as well.

| module | theorems about | properties of section 3 it proves |
|---|---|---|
| `HopLabelsProofs` | induction without operators, sums, ranks; `HopLabels`: hop-constrained distances, canonical and needed labels, covers | |
| `GpuLabelGenProofs` | `GpuLabelGen` | `LabelsAreWalks`, `HasIsPrefixMin`, `GroupMinimal`, `OffloadedCover` |
| `LabelGenerationProofs` | `CpuLabelGen` alone and in `LabelGeneration`, and the loop | `SlotExclusive`, `SlotAvailable`, `ScratchClean`, `CopyIsPrefixMin`, `CanonicalKept`, `Balanced`, `MixedCover` |
| `LabelCleanProofs` | `LabelClean` with `CpuLabelClean` and `GpuLabelClean` | `OffsetsFindLabels`, `ScratchClean`, `MinimalAtEnd`, the refinement `IndexNeverLies` |
| `CheckerProofs` | `Checker` with `Dijkstra` and `LabelQuery` | `ReferenceIsExact`, `AnswerIsExact`, `PathIsRight` |
| `PartitionProofs` | `Cdlp`, `GroupMerge`, `Partition` | `CountersExact`, `FallbackOnlyWhenFull`, `EachVertexOnce`, `NoTwoFit` |
| `DeviceDataProofs` | `CsrGraph`, `HasTable` | `GraphIsFile`, `IdsAgree`; `QueryFindsLatest`, `ClearedForNextGroup` |
| `PoolAndDasProofs` | `ThreadPool`, `DasTable` | `WakeupsSuffice`, the steps of `HandsOut`; `KeysUnique`, `OneClaimer`, `MinPerKey` |

### Induction without operators

The induction theorems of the library take an operator as a parameter, which none
of the provers can instantiate. `HopLabelsProofs` first states what is needed about
sets instead: a set of naturals that is not empty has a least element (`LeastNatural`),
from the library's well-founded minimum; a set that holds 0 and with each number
below a bound the next holds all up to the bound (`UpTo`); a family of subsets that
holds the empty set and with a set the set with one more element holds every
finite set (`OneByOne`). A step over data is then membership in a set defined by
comprehension. In this way the recursive functions of the model (`HopDist`,
`WalkLengths`, the folds of `Copied` and `Cleared`), the sums in the partition and
the ranks by which `Ordered` sorts are proved about.

### Distances and covers (`HopLabelsProofs`)

`DistSteps` gives the recursion of `HopDist` as inequalities and attainment; from
it the distance falls with the hops, is symmetric and obeys the triangle law with
the hops added up. A label (hub m, vertex v, hops h) is *needed beside H*
(`Needed`) if h hops are the fewest for its distance and no vertex of H lies
between m and v within them. A needed label with h > 0 continues a needed label
of h - 1 hops (`NeededContinues`). `NeededCovers`: labels none of which is below
the distance answer every query, if for any two vertices within reach some vertex
c between them has all labels that are needed beside the vertices that do not lie
between them. A canonical label is one needed beside all vertices above its hub
(`CanonicalIsNeeded`), and for canonical labels c is the highest ranked vertex
between the two (`CanonicalCovers`).

### The GPU generator (`GpuLabelGenProofs`)

Assumptions: `SizeAssumption`, `GraphAssumption` (symmetric weights, K times a
weight below Inf, no isolated vertex), `GroupAssumption` (each vertex in a group, no
group names a vertex twice; `EveryVertexOnce` of `PartitionProofs` justifies both). The
invariant `GpuInv` is

* `GpuTypes`, `BufferInv`: the labels on the device are walks, ordered by hop, and
  each continues one of the hop before. `AlwaysWalks` follows.
* `TableInv`: the table is exact up to the hop that is recorded (`ExactUpTo`), of
  the labels that are recorded (`Sure`), if the offsets are right; no label that has
  been judged is answered by others (`Judged`). The plain overwrite of
  `gen_hash_insert` is harmless because a label that survives pruning is cheaper
  than all of its key at fewer hops, so the invariants on the table and on the
  pruning need each other. `AlwaysPrefixMin`, `AlwaysMinimal`.
* `CoverInv`: while every run lies within its vertex's labels (`OwnUpTo`), the
  canonical labels of the group's hubs up to the current hop are on the device
  (`HubsKept`). A canonical label is offered by the canonical label it continues and
  cannot be pruned: what prunes it would be a vertex above the hub in between. Here
  the end offsets may be wrong, as the code lets them be.
* `HostInv`: what is judged lies in the host buffer too, behind the labels of the
  groups before.

`OffloadInv` adds that finished groups have left their canonical labels, and
`AlwaysCovered` follows by `CanonicalCovers`. `GpuSteps` and `GpuRests` state the
invariant for the generator's steps and for steps of others between two groups, as
the loop needs it.

### The CPU generator and the loop (`LabelGenerationProofs`)

Assumptions: `CpuGraphAssumption`, `CpuGroupAssumption`, `CpuTypeAssumption`,
`CpuSlotAssumption` (no more pool threads than scratch ids; `main.cu` uses 50 threads
and passes the same number), `CoreAssumption` (at least one executor), and
`GpuGraphAssumption` where a GPU takes part (as above). `CpuInv` is

* `SlotInv`: ids held and queued are all different and none is lost
  (`SlotsKept`). If the queue were empty when a task takes an id, the other tasks,
  one fewer than the ids, would map onto all ids. `SlotsExclusive`, `SlotsSuffice`.
* `TaskInv`: a vertex of the group is queued, with one worker, or finished.
* `ScratchInv`: per phase of a task, its copy is what its vertex's labels at the
  snapshot record (`CopyRight`), its frontiers and changed distances are known
  (`Walks`), and clearing along the *later* labels leaves a fresh copy, because the
  labels at the snapshot are a prefix of them and a row that is Inf stays Inf
  (`ClearedIsFresh`). `ScratchAlwaysClean`, `CopyAlwaysPrefixMin`.

`KeptInv` is about labels lost to other tasks. The *blockers* of a task are the
hubs whose labels can make it drop one: with rank pruning the vertices above its
own, without it the hubs it copied at the snapshot. Whatever is appended meanwhile,
a label needed beside the blockers is met hop by hop with its distance (`Ready`,
`Passed`, `Left`), since no label is below the distance (`LabelsRight`) and no other
hub answers it. With rank pruning this is `CanonicalKept`. Without it (`FirstKept`):
of any set of vertices that have started, the one whose task copied first has no
blocker in the set and leaves all labels that are needed beside the rest of the
vertices.

The loop: `BalanceInv` has the clause that the executor with a group was the least of
all when it took it (`AlwaysBalanced`). `LoopInv` and `KeptAlways` carry the CPU
invariants over the steps of the GPU and `GpuHeld` those of the GPU over the steps
of the CPU; the lemmas `Same*` identify the definitions of the two instances.
`MixedInv` states what a finished group leaves behind in `L_hybrid` or in the host
buffer in the one form all three functions satisfy (`GroupServed`): of every set M
of vertices whose highest ranked one is in the group, some vertex of M has all its
labels needed beside the others than M. With M the vertices between u and v,
`NeededCovers` gives `AlwaysMixedCover`: the labels of all executors together answer
every query, unless a GPU group's run took in foreign labels (`gen_boundary` shows
that it can).

### The cleaning (`LabelCleanProofs`)

Assumptions: `CleanAssumption` (a positive `clean_size`, no more workers than scratch
ids) and `IndexAssumption`, which says of each index what generation with rank
pruning leaves (`Generated`): lengths of walks that stay below their hub
(`AlwaysWalks`), at most one per hub and hop (`OneClaimer` in the gather, one push per
hop on the CPU), and among them all canonical labels
(`CanonicalAlwaysKept`, `CoverInv`). That such an index answers every query is
`CanonicalCovers`; the run `clean` checks that its indexes are of this kind.

The heart is `NeverAnswered`: a canonical label is met, within its hops and its
distance, by no pair of labels of its hub and of its vertex but by itself and its
hub's own label. It is about the labels of the beginning, of which every label a test
can see is one (`Rows`, `Tests`, `Array`), whatever has been dropped since, on either
side. So a test, however stale, never drops a canonical label (`NeededPasses` for a
section of a CPU task, `PruneStep` for the kernel), the canonical labels stay in
`Index`, and the index answers as before at every moment (`CleaningNeverLies`).

`CleanInv` is about a rigid x, the index the run began with; it is `Working` while
ranges are cleaned and `Over` after the conversion. `Working` is

* `Tasks`, `Scratch`: the ids, the queue and the phases of the tasks; what a scratch
  set holds is what its task has kept (`Noted`), so that the clearing along the kept
  labels leaves nothing (`ScratchEmpty`).
* `Rows`, `Tests`: rows and the parts of a row a task still tests hold labels of the
  beginning, sorted, and the needed ones among them.
* `Array`, `Settled`: what no range has reached stands where `init_clean` put it and
  what is done lies before it; the offsets of a vertex whose range is done lie in the
  part that is done and find its labels (`OffsetsRight`).
* `OnGpu`: which kernel of the range at hand has done what. `Offsets` is the argument
  about `clean_update_labels`: the selected words are sorted by vertex (`NewWords`),
  so a vertex has one first word, whose left neighbour is of another vertex, and its
  begin offset is set; its end offset is set unless the stale word behind is of the
  same vertex, and then the old end offset lies in the vertex's own block.
* `Leaner`, `LeanCleaned`: a label that passed its test is answered by no labels its
  test could see; since labels only go (`IndexShrinks`), it is not answered by what is
  left (`NothingRedundantAtEnd`). With ranges of both kinds that fails in the code (a
  CPU range sees hubs whose rows main has dropped), hence `OneKind`.

The returned ranges are disjoint and hold what the GPUs kept of each vertex, whose own
row is empty by then, so that the conversion rebuilds the rows (`ConvertStep`).

### The partition (`PartitionProofs`)

`PropagationInv`: threads run together, one that is to swap saw room, an offer that
is gone was full, and the counters are the numbers of takers, at most one above the
bound (`CountersAlwaysExact`, `FallbackAlwaysJustified`). `MergeInv`: the units in
the set and the groups that have left it hold each vertex once at every turn of the
walk (`EveryVertexOnce`), and a group that has left fits with no unit still in the
set, however units merge after it (`NoRoom`), since it left as the largest when
nothing fitted it and units only grow (`MergeIsMaximal`).

### The checker (`CheckerProofs`)

What the checker is given is stated once, as `IndexAssumption`, and TLC evaluates it
for every index of the run: a symmetric graph without loops whose walks fit below
`Inf`, rows in the order the sort leaves, labels that answer every query
(`MixedCover` and `IndexNeverLies` say that generation and cleaning leave such), and
each label as long as a way of its hops through its parent (`FromParent`), which is
how both generators and the conversion write it. The index need not be minimal, and
a label may be longer than its distance.

`CheckInv` has three parts, of which none is in the properties.
`Searching`: a table entry is never below the distance, is never below its parent's
entry and the edge, and what a vertex is known at either waits in the queue or has
been passed on to every neighbour. From that, by induction over hops, every
distance below the top of the queue is in the tables already (`Reached`), so the
entry is exact when the terminal is met, and all are when the queue is empty.
`Merged`: the best meeting is not longer than any with a label behind one of the two
pointers, and is one of them. The merge stops at the first label of a run with too
many hops, which loses nothing since the rows grow in hops along a hub; with the cover
the best is the distance at the end (`MergeIsExact`). `Route`: the path so far is
two walks, one from each end, put together in the order of the calls; their length
and the distance left are the distance asked, their edges and the hops left the hop
bound. A call may meet at a hub the last call did not know. It still keeps `Route`, as
the parents lie on ways that with the hops left are as short as the whole
(`UnrollExact`): one less and the labels together would be below the distance.
`CheckInvariant`, and from it `ReferenceRight`, `AnswersRight`, `PathsRight`.

### The graph

*CsrGraph, in DeviceDataProofs* (`GraphAssumption`: at least one vertex, positive
weights). `LoadInvariant`, `GraphLoaded`, `IdsLinked`. A graph is known by the edges
its rows hold, `HasEdge(adj, x, y, z)`: `InsertRow` and `AddEdgeGraph` say what one
insert changes of that and that rows stay sorted. `AllListed` says that
`AllEntries` lists these edges by source and target, each once; `Renamed` and
`Directed` go through that list, and as no pair comes twice, after n entries they
hold those n edges (`RenamedIs`, `DirectedIs`, by induction over recursive
functions). `RanksNaming`: the places of the vertices in the order by degree are
all different.

`LoadInv` says for each stage what the graph is; for the loop of `toCSR` it is
`Linked`: `inv` and `edge_id` are right for the edges passed, and an edge is before
the pointer of its source x exactly if it is in an earlier row or its reverse has
been passed. From that clause the pointer is at the reverse of the next edge
(`PointsAtReverse`): an edge of x before the reverse that the pointer has not
passed would have a smaller target, so its own reverse would be in an earlier row
than the next edge, and passed. So the test of the code never fails, which is the
first part of `IdsAgree`.

### Tables and pool

*DasTable, in PoolAndDasProofs* (`DasAssumption`: the constants have their types, the
hash falls into the table). `DasTypeCorrect`, `UniqueEntries`, `ClaimedOnce`,
`InsertsHeld`, `RoundCorrect`. Keys never move while inserts run, so
the run from a key's home to its slot, or to a prober's position, holds other
keys only. That clause is not in `KeysUnique` and makes it inductive: a thread
that finds an empty slot knows its key is nowhere on the path behind it, and a
key elsewhere would have a full path through the empty slot. For the minimum, each
thread that has compared carries either a value the slot has reached or a
compare-and-swap still to win.

*HasTable, in DeviceDataProofs* (`HasAssumption`, `OnePerHop`). `TypeCorrect`, `QueryCorrect`,
`ClearComplete`. Same path clause for the inserts; for the clear, each remaining
entry has a clearing thread that has not passed it.

*ThreadPool, in PoolAndDasProofs* (`PoolAssumption`: finitely many workers, at least one
batch, no batch empty). The invariant `PoolInv` is `PoolTypeOK`, `Counters` (where the
driver is, its counters are; a worker that runs has a task) and `Places` (the
queue is the last tasks enqueued, in order; a task that has left it is with one
worker or done). From it: `HandedOutOnce`, no task twice; `ImplementsHandout`,
every step of the pool is a step of `TaskHandout` or a stutter, so that the safety
the generators rely on holds for any pool and any batches; and with the set of
threads awake, `NoWakeupLost`: each notification makes a waiting thread awake, or
there is none, and a thread goes back to wait only when the queue is empty.

### Only model-checked

All liveness properties, the liveness part of `HandsOut` included, since fairness
and ENABLED are beyond the prover. The safety of `GenGather`: `Compacted`, and that
a round of it is a round of `DasTable`, are not proved.

## 6. Findings

Three disagreements between the code and its documentation or checker, each shown
by a violation run: `gen_boundary`, `gen_lost`, `merge_bound` (details with quotes
in `PROJECT.json`).

Smaller observations, met while modelling:

* `gpu_label_gen.cu:381` compares the last label of a hop with whatever word lies
  behind it. When that word is of the same vertex the end offset is not set and
  the group keeps redundant labels; cleaning removes them.
* In label propagation the fallback to the own label ignores the bound, and a
  community ends with at most one vertex more than the bound (`CountersExact`).
* Cleaning presumes rank-pruned labels, which `cpu_type` 1 does not make. A label
  is dropped when two others answer it, whatever their hubs' ranks. On the path
  2-0-1-3 with hop_cst 3, when every vertex has every shortest label (the task of
  each copies before the others append, or is in a group of its own), one GPU
  range drops both labels between 2 and 3 and both halves of every other way: the
  query (2, 3, 3) is lost. The same happens on the CPU when rank-pruned labels of a
  GPU group meet those of a CPU group of `cpu_type` 1: path 0-2-1 with weights 1
  and 0-1 with 3, {1} generated on the GPU and {0, 2} on the CPU in the order 2, 0;
  cleaning drops label (2, 1) of vertex 1 because of label (1, 1) of vertex 2, and
  (0, 1) is answered by 3 instead of 2. Both were seen by giving `LabelClean` the
  labels `LabelGeneration` leaves for that assignment (the second one is the
  smallest case of its kind: with these three vertices alone the degree sort would
  hand {0, 2} out first, to the GPU). The shipped constants use no CPU executor for
  generation, so the run `clean` keeps to rank-pruned labels.
* `main.cu` frees the host buffer `L` twice (lines 202 and 385).
* The parent of a hop-0 label of the GPU is the first neighbour, not the vertex,
  until `init_clean` sets it.
* `gpu_label_manager.cuh` masks the edge id with 25 bits; the README speaks of 24.
* `txt_read` keeps a loop of the file in the adjacency until the reorder step,
  which orders vertices by degrees that count it and then leaves it out
  (`GraphIsFile` is stated without the loops).
* `clean_update_labels` has the test of line 381 too; there the tail it lets in is
  the vertex's own (`OffsetsFindLabels`) and costs nothing but tests.

## 7. What is left out, and assumptions

* Graphs without isolated vertices in `GpuLabelGen` (`GraphAssumption`) and in
  `LabelGeneration`, which composes it (`GpuGraphAssumption`): the hop-0
  label of an isolated vertex is filed under another vertex's edge. Listed as a
  hazard.
* Buffers nobody wrote read as zero. Managed memory is zero-filled by the driver.
* Distances and hops are unbounded integers. `get_label` does not mask its fields,
  which hold while hop_cst is at most 7 and hop_cst times the largest weight at most
  1023 (`LabelsAreWalks` bounds a distance by the walk it is); nothing in the code
  tests this.
* Allocation failures and device sizes: the room of `T` and of the host buffer
  depends on the device's free memory.
* The lanes of a warp in step in the warp tier of `GenGather`, at the lines where the
  code writes and reads `comm` and `output_warp_offset` without a `__syncwarp`. CUDA
  does not promise it on the devices `CMakeLists.txt` builds for (compute capability
  86 schedules threads independently): what these races give depends on whether the
  compiler brings the warp together after each branch. `Compacted` and
  `ImplementsRound` say nothing of a build in which it does not. Listed as a hazard
  without a property.
* One block and one pass of its grid-stride loop in `GenGather`; a second block meets
  the first only in `das` and in the counter, where the second warp already does.
* A hash table with more keys than slots: inserts, and queries for a key that is not
  there, then never return, in the code as in `DasTable` and `HasTable`. Nothing in
  the code bounds the keys by `TABLE_SIZE`. The runs stay where they fit: `gather`
  fills `das` to its last slot, `has_race` leaves one slot free. `RoundEnds` and
  `GroupEnds` are about tables that are large enough.
* The read of the label behind the last one, before the index is tested, in the merge
  of a query (`label_types.cuh:100, 104`). It is undefined; `RunEnd` has its effect if
  it returns: the run ends by the index, whatever was read.
* The arrays of `toCSR` for the edges in and for all edges: nothing reads them.
* One executor at a time, as main's loops run them.
* Executors of the cleaning by measured time: `LabelClean` lets either kind take any
  range, which contains it.
* The three CPU algorithms behind flags no code sets; `HybridHopHL_checker`, which
  `main.cu` does not call; `hop_constrained_extract_shortest_path_v2`; the operations
  of the graph and of sorted vectors that have no caller.
* The checker asks one query after another; one is modelled, from every index.

## 8. Plan

Done: the generators and their tables, the tiers of the gather kernel, the
generation loop over executors of both kinds, the partition, the pool with its
abstract specification, cleaning with its abstract specification, graph loading,
the checker; proofs for the generators, the loop, the cleaning with its abstract
specification, the checker, the partition, graph loading, the tables and the
pool. What is left is proof: `Compacted` of `GenGather` (the ranges the warps reserve
partition the array) and its steps as steps of `DasTable`.
