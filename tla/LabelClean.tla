----------------------------- MODULE LabelClean -----------------------------
(***************************************************************************)
(* The cleaning loop of main.cu: ranges of clean_size vertices go to the   *)
(* executor with the least measured time, a CPU or a GPU, so either kind   *)
(* may get any range; the call returns before the next range starts.  The  *)
(* CPU cleans L_hybrid in place (CpuLabelClean); a GPU cleans the copy     *)
(* init_clean took at the start, and main.cu drops the range's rows of     *)
(* L_hybrid until the end (GpuLabelClean).                                 *)
(***************************************************************************)
EXTENDS HopLabels, SequencesExt

CONSTANTS
  Indexes,     \* the graphs with the labels generation may leave
  CleanSize,   \* clean_size, which main.cu sets to G_max
  Kinds,       \* the kinds of executors: "cpu", "gpu"
  Workers, NumSlots

ASSUME CleanAssumption ==
  /\ CleanSize \in Nat \ {0}
  /\ Kinds # {} /\ Kinds \subseteq {"cpu", "gpu"}
  /\ IsFiniteSet(Workers) /\ NumSlots \in Nat /\ Cardinality(Workers) <= NumSlots

(* What generation with rank pruning leaves: lengths of walks that stay    *)
(* below their hub, one for each hub and hop, and among them every label   *)
(* no index can do without.                                                *)
Label == [hub : Vertices, hop : 0 .. K, dist : Nat]
Generated(x) ==
  /\ x.w \in [Vertices \X Vertices -> Nat]
  /\ \A u, v \in Vertices : x.w[<<u, v>>] = x.w[<<v, u>>] /\ K * x.w[<<u, v>>] < Inf
  /\ \A v \in Vertices :
       /\ IsFiniteSet(x.labels[v]) /\ x.labels[v] \subseteq Label
       /\ \A l \in x.labels[v] : l.dist \in WalkLengths(x.w, l.hub)[l.hop][v]
       /\ \A l, m \in x.labels[v] : l.hub = m.hub /\ l.hop = m.hop => l = m
       /\ CanonicalLabels(x.w)[v] \subseteq x.labels[v]
ASSUME IndexAssumption == \A x \in Indexes : Generated(x)

VARIABLES
  w, given,   \* the graph and the labels generation left, fixed by Init
  first,      \* main's loop variable i
  turn,       \* "pick", who cleans the range, or "done"
  LHybrid,    \* L_hybrid: the labels of each vertex, shared
  driver, tasks, finished, pc, vertex, used, Lv, final, Qid, T,  \* the CPU's
  kernel, LClean, start, end, lo, hi, mark, has, ranges          \* the GPU's

loop == <<w, given, first, turn>>
cpuVars == <<driver, tasks, finished, pc, vertex, used, Lv, final, Qid, T>>
gpuVars == <<kernel, LClean, start, end, lo, hi, mark, has, ranges>>
vars == <<loop, LHybrid, cpuVars, gpuVars>>

Cpu == INSTANCE CpuLabelClean WITH L <- LHybrid
Gpu == INSTANCE GpuLabelClean WITH L <- LClean, pc <- kernel
----------------------------------------------------------------------------
(* min(i + clean_size, V): the first vertex behind the range.              *)
RangeEnd == Min({first + CleanSize, N})

PickCpu ==
  /\ turn = "pick" /\ first < N /\ "cpu" \in Kinds
  /\ Cpu!StartRange(first, RangeEnd)
  /\ turn' = "cpu"
  /\ UNCHANGED <<w, given, first, gpuVars>>

CpuCleans(t) == turn = "cpu" /\ Cpu!Step(t) /\ UNCHANGED <<loop, gpuVars>>

CpuReturns ==
  /\ turn = "cpu" /\ Cpu!CollectRange(first, RangeEnd)
  /\ first' = first + CleanSize
  /\ turn' = "pick"
  /\ UNCHANGED <<w, given, gpuVars>>

PickGpu ==
  /\ turn = "pick" /\ first < N /\ "gpu" \in Kinds
  /\ Gpu!InitHash(first, RangeEnd)
  /\ turn' = "gpu"
  /\ UNCHANGED <<w, given, first, cpuVars>>

GpuCleans == turn = "gpu" /\ Gpu!Step /\ UNCHANGED <<loop, cpuVars>>

GpuReturns ==
  /\ turn = "gpu" /\ Gpu!UpdateOffsets(first, RangeEnd)
  /\ first' = first + CleanSize
  /\ turn' = "pick"
  /\ UNCHANGED <<w, given, cpuVars>>

(* After the last range the labels the GPUs cleaned go back to L_hybrid.   *)
Convert ==
  /\ turn = "pick" /\ first >= N
  /\ Gpu!Convert
  /\ turn' = "done"
  /\ UNCHANGED <<w, given, first, cpuVars>>

Init ==
  /\ \E x \in Indexes : w = x.w /\ given = x.labels
  /\ first = 0 /\ turn = "pick"
  /\ LHybrid = [v \in Vertices |-> SortLabels(given[v])]
  /\ Cpu!Init
  /\ Gpu!Init

Done == turn = "done" /\ UNCHANGED vars

Next == \/ PickCpu \/ CpuReturns \/ (\E t \in Workers : CpuCleans(t))
        \/ PickGpu \/ GpuCleans \/ GpuReturns
        \/ Convert \/ Done

Spec == Init /\ [][Next]_vars

(* main waits for a call, the CPU's driver in get(), a worker for a task,  *)
(* a kernel for its launch; what can go on does.                           *)
FairSpec ==
  /\ Spec
  /\ WF_vars(PickCpu \/ PickGpu \/ CpuReturns \/ GpuReturns \/ Convert)
  /\ WF_vars(GpuCleans)
  /\ \A t \in Workers : WF_vars(CpuCleans(t))
----------------------------------------------------------------------------
(* The labels main would end with if it stopped cleaning at this moment.   *)
Index ==
  [v \in Vertices |->
     ToSet(LHybrid[v]) \cup (IF turn = "done" THEN {} ELSE Gpu!Cleaned(v))]

(* At every moment the labels answer every query as before, although the   *)
(* tasks of a CPU range drop labels on the strength of labels that others  *)
(* drop at the same time, a GPU range tests all its words at once, and     *)
(* neither kind sees what the other dropped: LabelClean implements         *)
(* LabelIndex.                                                             *)
Cleaning == INSTANCE LabelIndex WITH index <- Index
IndexNeverLies == Cleaning!Spec

(* The offsets of a vertex whose range is done find, in the GPU's array,   *)
(* all the labels it keeps and nothing but labels it once had: where the   *)
(* end offset is left alone because of the stale word behind the range,    *)
(* the tail it lets in is the vertex's own.                                *)
OffsetsFindLabels ==
  \A v \in 0 .. Min({first, N}) - 1 :
    LET found == {LClean[i] : i \in start[v] .. end[v] - 1}
    IN  /\ \A x \in found : x.to = v /\ Gpu!LabelOf(x) \in given[v]
        /\ Index[v] \subseteq {Gpu!LabelOf(x) : x \in found}

(* A scratch set that waits in the pool's queue holds nothing of its last  *)
(* task, which cleared only the rows of the labels it kept.                *)
ScratchClean == Cpu!NothingLeft

(* Executors of one kind, in whatever order their tasks run, leave nothing *)
(* redundant: what a label was tested against is never better afterwards.  *)
(* (A CPU range after a GPU range sees hubs whose rows main has dropped.)  *)
(* Every vertex keeps its own label: it has one on the GPU's side exactly  *)
(* when its range was a GPU range.                                         *)
OneKind == ranges = <<>> \/ \A v \in Vertices : Gpu!Cleaned(v) # {}
MinimalAtEnd ==
  turn = "done" /\ OneKind => Minimal([v \in Vertices |-> ToSet(LHybrid[v])])

(* Every range ends.                                                       *)
AllRangesEnd == <>(turn = "done")
=============================================================================
