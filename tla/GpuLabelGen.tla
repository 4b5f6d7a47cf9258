---------------------------- MODULE GpuLabelGen ----------------------------
(***************************************************************************)
(* The GPU label generator: the main loop's pass over the vertex groups    *)
(* (main.cu), and for each group the host loop of gpu_label_gen with its   *)
(* kernels (gpu_label_gen.cu).  One action is the stretch of host code     *)
(* between two synchronisation points that ends in a kernel's effect;      *)
(* inside a kernel the threads race only in the two hash tables, and       *)
(* modules DasTable and HasTable show that these races leave exactly the   *)
(* effects used here.                                                      *)
(*                                                                         *)
(* An edge id is modelled by the pair it stands for: the label's `to' is   *)
(* source[e] and its `par' is out_edge[e].                                 *)
(***************************************************************************)
EXTENDS HopLabels, SequencesExt, Ordering

CONSTANTS
  Graphs,      \* the weighted graphs an instance explores
  Groupings    \* the sequences of vertex groups generate_Group_CDLP may give

(* graph_v_of_v is undirected, and the distances of walks within hop_cst   *)
(* are far below what a query answers when it finds nothing.               *)
ASSUME GraphAssumption ==
  \A w \in Graphs :
    /\ w \in [Vertices \X Vertices -> Nat]
    /\ \A u, v \in Vertices : w[<<u, v>>] = w[<<v, u>>] /\ K * w[<<u, v>>] < Inf
    /\ NoIsolated(w)
(* generate_Group_CDLP: each vertex is in a group, and none twice in one.  *)
ASSUME GroupAssumption ==
  \A gs \in Groupings :
    /\ gs \in Seq(Seq(Vertices))
    /\ \A v \in Vertices : \E g \in DOMAIN gs : v \in ToSet(gs[g])
    /\ \A g \in DOMAIN gs : IsInjective(gs[g])

VARIABLES
  w,          \* the graph, fixed by Init
  groups,     \* graph_pool.graph_group, fixed by Init
  gid,        \* main's loop index over the groups
  pc,         \* the next stretch of host code
  hop,        \* gpu_label_gen's loop index
  T,          \* the device buffer of labels; T[0] is the sentinel
  lastPos,    \* last_pos
  lastSize,   \* last_size[0]
  begin, end, \* T_offset_begin, T_offset_end
  has,        \* the table of prefix-minimum distances
  L,          \* the pinned host buffer the labels are offloaded to
  totL,       \* tot_L
  LHybrid,    \* L_hybrid: the labels per vertex
  own         \* history: no run of a finished group took in foreign labels

vars == <<w, groups, gid, pc, hop, T, lastPos, lastSize, begin, end, has,
          L, totL, LHybrid, own>>
----------------------------------------------------------------------------
FirstNbr(v) == Min(Nbrs(w, v))

(* The hop-0 label of v sits on v's first edge, out_pointer[v].            *)
SelfLabel(v) ==
  [to |-> v, par |-> FirstNbr(v), hub |-> v, hop |-> 0, dist |-> 0]

(* A zero word, which is also what a buffer nobody wrote reads as.         *)
ZeroLabel == SelfLabel(0)
Sentinel == [to |-> N, par |-> N, hub |-> N, hop |-> 7, dist |-> 1023]

At(buf, i) == IF i \in DOMAIN buf THEN buf[i] ELSE ZeroLabel

Put(buf, pos, s) ==
  [i \in DOMAIN buf \cup (pos .. pos + Len(s) - 1) |->
     IF i \in pos .. pos + Len(s) - 1 THEN s[i - pos + 1] ELSE buf[i]]

(* gen_flagged_select: what lies at some positions, in their order.        *)
Select(buf, S) ==
  LET order == Ordered(S, <) IN [i \in DOMAIN order |-> buf[order[i]]]

(* The order of the packed words: edge id, hub, hop, distance.             *)
Word(l) == <<l.to, l.par, l.hub, l.hop, l.dist>>
WordLess(a, b) ==
  \E i \in 1 .. 5 : /\ Word(a)[i] < Word(b)[i]
                    /\ \A j \in 1 .. i - 1 : Word(a)[j] = Word(b)[j]
RadixSort(S) == Ordered(S, WordLess)

HashQuery(key) == IF key \in DOMAIN has THEN has[key] ELSE Inf

(* The keys a kernel writes for its labels: one per hop bound.             *)
MutKeysOwnHop(labels, hops) == {<<l.to, l.hub, l.hop>> : l \in labels}
Keys(labels, hops) == {<<l.to, l.hub, k>> : l \in labels, k \in hops}

(* gen_hash_insert for every label and hop of a kernel: the last word of a *)
(* key stays, and a word that is zero as a whole leaves its slot empty.    *)
InsertAll(f, labels, hops) ==
  LET keys == Keys(labels, hops)
      DistOf(key) == (CHOOSE l \in labels : l.to = key[1] /\ l.hub = key[2]).dist
  IN  [x \in DOMAIN f \cup {key \in keys : ~(key = <<0, 0, 0>> /\ DistOf(key) = 0)} |->
         IF x \in keys THEN DistOf(x) ELSE f[x]]
----------------------------------------------------------------------------
(* main.cu calls gpu_label_gen for the next group; gen_init_offsets and    *)
(* gen_init_frontier run, and the hop-0 labels go to L + last_pos.         *)
StartGroup ==
  /\ pc = "idle" /\ gid <= Len(groups)
  /\ LET grp  == groups[gid]
         self == [i \in 1 .. Len(grp) |-> SelfLabel(grp[i])]
         Row(v) == CHOOSE i \in 1 .. Len(grp) : grp[i] = v
     IN  /\ begin' = [p \in (0 .. K) \X Vertices |->
                        IF p[1] = 0 /\ p[2] \in ToSet(grp) THEN Row(p[2]) ELSE 0]
         /\ end'   = [p \in (0 .. K) \X Vertices |->
                        IF p[1] = 0 /\ p[2] \in ToSet(grp) THEN Row(p[2]) + 1 ELSE 0]
         /\ has' = InsertAll(has, ToSet(self), 0 .. K)
         /\ T' = Put(T, 1, self)
         /\ L' = Put(L, totL + 1, self)
         /\ lastSize' = Len(grp)
  /\ lastPos' = 1
  /\ hop' = 1
  /\ pc' = "expand"
  /\ UNCHANGED <<w, groups, gid, totL, LHybrid, own>>

(* The neighbours a label spreads to: those its hub outranks.              *)
MutSpreadsAnywhere(u) == Nbrs(w, u.to)
Spreads(u) == {y \in Nbrs(w, u.to) : u.hub < y}

(* What gen_gather offers for the labels of the previous hop.              *)
Candidates ==
  UNION {LET u == T[i]
         IN  {[to |-> x, par |-> u.to, hub |-> u.hub, hop |-> hop,
               dist |-> u.dist + w[<<u.to, x>>]] : x \in Spreads(u)} :
         i \in lastPos .. lastPos + lastSize - 1}

SameKey(a, b) == a.to = b.to /\ a.hub = b.hub

(* gen_das_insert lets one candidate per key out, and gen_das_clear puts   *)
(* the cheapest one in its place; which of several is up to the race.      *)
MutFirstClaimed(C) == C
Cheapest(C) == {c \in C : \A d \in C : SameKey(c, d) => c.dist <= d.dist}
Selections(C) ==
  LET best == Cheapest(C)
      tied == {c \in best : \E d \in best \ {c} : SameKey(c, d)}
      OnePerKey(S) == \A c \in best : \E d \in S : \A x \in S : SameKey(c, x) <=> x = d
  IN  {S \in {best \ lost : lost \in SUBSET tied} : OnePerKey(S)}

(* gen_gather, gen_das_clear and the radix sort.                           *)
Expand ==
  /\ pc = "expand" /\ hop <= K /\ lastSize > 0
  /\ lastPos' = lastPos + lastSize
  /\ \E out \in Selections(Candidates) :
       /\ lastSize' = Cardinality(out)
       /\ T' = Put(T, lastPos', RadixSort(out))
       /\ pc' = IF out = {} THEN "finish" ELSE "prune"
  /\ UNCHANGED <<w, groups, gid, hop, begin, end, has, L, totL, LHybrid, own>>

(* gen_traverse_prune of one label: a label of its vertex at a smaller hop *)
(* and what the table knows of the hub answer it already.                  *)
MutPrunedStrictly(l) ==
  \E i \in 1 .. l.hop - 1 :
    \E j \in begin[<<i, l.to>>] .. end[<<i, l.to>>] - 1 :
      At(T, j).dist + HashQuery(<<l.hub, At(T, j).hub, l.hop - i>>) < l.dist
Pruned(l) ==
  \E i \in 1 .. l.hop - 1 :
    \E j \in begin[<<i, l.to>>] .. end[<<i, l.to>>] - 1 :
      At(T, j).dist + HashQuery(<<l.hub, At(T, j).hub, l.hop - i>>) <= l.dist

(* gen_traverse_prune, the flagged select in place, the copy to the host.  *)
Prune ==
  /\ pc = "prune"
  /\ LET new  == lastPos .. lastPos + lastSize - 1
         kept == Select(T, {i \in new : ~Pruned(T[i])})
     IN  /\ T' = Put(T, lastPos, kept)
         /\ L' = Put(L, totL + lastPos, kept)
         /\ lastSize' = Len(kept)
  /\ pc' = "update"
  /\ UNCHANGED <<w, groups, gid, hop, lastPos, begin, end, has, totL, LHybrid,
                 own>>

(* gen_update_hash.  A thread whose neighbour in T has the same vertex     *)
(* leaves the offset alone, whichever hop or launch the neighbour is of.   *)
UpdateHash ==
  /\ pc = "update"
  /\ LET new == lastPos .. lastPos + lastSize - 1
         Opens(i)  == T[i].to # At(T, i - 1).to
         Closes(i) == T[i].to # At(T, i + 1).to
         OpenersOf(v) == {i \in new : T[i].to = v /\ Opens(i)}
         ClosersOf(v) == {i \in new : T[i].to = v /\ Closes(i)}
     IN  /\ has' = InsertAll(has, {T[i] : i \in new}, hop .. K - 1)
         /\ begin' = [p \in DOMAIN begin |->
                        IF p[1] = hop /\ OpenersOf(p[2]) # {}
                        THEN Min(OpenersOf(p[2])) ELSE begin[p]]
         /\ end'   = [p \in DOMAIN end |->
                        IF p[1] = hop /\ ClosersOf(p[2]) # {}
                        THEN Max(ClosersOf(p[2])) + 1 ELSE end[p]]
  /\ hop' = hop + 1
  /\ pc' = "expand"
  /\ UNCHANGED <<w, groups, gid, T, lastPos, lastSize, L, totL, LHybrid, own>>

(* The runs of T a vertex's labels of one hop really occupy.               *)
OffsetsExact ==
  \A h \in 1 .. K - 1, v \in Vertices :
     begin[<<h, v>>] .. end[<<h, v>>] - 1 =
       {i \in 1 .. lastPos + lastSize - 1 : T[i].to = v /\ T[i].hop = h}

(* No run takes in a label of another vertex or hop; it may miss some.     *)
OffsetsOwn ==
  \A h \in 1 .. K - 1, v \in Vertices :
     begin[<<h, v>>] .. end[<<h, v>>] - 1 \subseteq
       {i \in 1 .. lastPos + lastSize - 1 : T[i].to = v /\ T[i].hop = h}

(* The keys gen_hash_clear looks for, from the labels in T[1 .. n].        *)
ClearedKeys(n) == UNION {Keys({T[i]}, T[i].hop .. K) : i \in 1 .. n}

(* The loop ended or broke: gen_hash_clear, and L_size += last_pos.        *)
FinishGroup ==
  /\ \/ pc = "finish"
     \/ pc = "expand" /\ (hop > K \/ lastSize = 0)
  /\ lastPos' = lastPos + lastSize - 1
  /\ has' = [x \in DOMAIN has \ ClearedKeys(lastPos') |-> has[x]]
  /\ totL' = totL + lastPos'
  /\ own' = (own /\ OffsetsOwn)
  /\ gid' = gid + 1
  /\ pc' = "idle"
  /\ UNCHANGED <<w, groups, hop, T, lastSize, begin, end, L, LHybrid>>

(* main.cu hands L[0 .. tot_L - 1] out to the vertices.                    *)
Collect ==
  /\ pc = "idle" /\ gid > Len(groups)
  /\ LET read == [j \in 1 .. totL |-> At(L, j - 1)]
         Entry(l) == [hub |-> l.hub, hop |-> l.hop, dist |-> l.dist, par |-> l.par]
         Of(v) == SelectSeq(read, LAMBDA l : l.to = v)
     IN  LHybrid' = [v \in Vertices |->
           LHybrid[v] \o [i \in DOMAIN Of(v) |-> Entry(Of(v)[i])]]
  /\ pc' = "done"
  /\ UNCHANGED <<w, groups, gid, hop, T, lastPos, lastSize, begin, end, has, L,
                 totL, own>>

Init ==
  /\ w \in Graphs
  /\ groups \in Groupings
  /\ gid = 1 /\ pc = "idle" /\ hop = 0
  /\ T = [i \in {0} |-> Sentinel]
  /\ lastPos = 0 /\ lastSize = 0
  /\ begin = [p \in (0 .. K) \X Vertices |-> 0]
  /\ end = [p \in (0 .. K) \X Vertices |-> 0]
  /\ has = <<>>
  /\ L = <<>>
  /\ totL = 0
  /\ LHybrid = [v \in Vertices |-> <<>>]
  /\ own = TRUE

Done == pc = "done" /\ UNCHANGED vars

Next == StartGroup \/ Expand \/ Prune \/ UpdateHash \/ FinishGroup \/ Collect
          \/ Done

Spec == Init /\ [][Next]_vars
----------------------------------------------------------------------------
(* The labels of the current group that the device holds.                  *)
HeldCount == IF pc \in {"idle", "done"} THEN lastPos ELSE lastPos + lastSize - 1
Held == {T[i] : i \in 1 .. HeldCount}

(* Between hops: every label of an earlier hop is pruned and recorded.     *)
Settled == pc = "expand" \/ (pc = "finish" /\ lastSize = 0)

(* The labels offloaded so far, as sets per vertex.                        *)
Offloaded == [v \in Vertices |->
                {L[j] : j \in {i \in 1 .. totL : L[i].to = v}}]

(* Every label on the device is a walk of the graph: of exactly its hops   *)
(* and length, from its hub, whose rank no later vertex of it reaches, and *)
(* its last edge continues a label that was kept at the hop before.  The   *)
(* path of a query is unrolled along these edges (gen_gather, das_clear).  *)
LabelsAreWalks ==
  \A l \in Held :
    /\ l.dist \in WalkLengths(w, l.hub)[l.hop][l.to]
    /\ l.hop > 0 =>
         \E m \in Held : /\ m.to = l.par /\ m.hub = l.hub
                         /\ m.hop = l.hop - 1
                         /\ l.dist = m.dist + w[<<l.par, l.to>>]

(* While the offsets are right the table holds, for every vertex, hub and  *)
(* hop bound below hop_cst, the least distance of the labels within the    *)
(* bound: gen_hash_insert's plain overwrite never raises an entry.         *)
HasIsPrefixMin ==
  (Settled /\ OffsetsExact) =>
    \A v, m \in Vertices, k \in 0 .. K - 1 :
      LET within == {l.dist : l \in {x \in Held : /\ x.to = v /\ x.hub = m
                                                 /\ x.hop <= k}}
      IN  <<v, m, k>> # <<0, 0, 0>> =>
            HashQuery(<<v, m, k>>) = Min({Inf} \cup within)

(* Unless a run took in labels of another vertex, the offloaded labels     *)
(* answer every query within hop_cst, over all hubs and all groups: a run  *)
(* that misses labels, as the word behind the last label of a hop makes it *)
(* do, costs redundant labels and raised table entries but no answer.      *)
OffloadedCover ==
  (pc = "idle" /\ gid > Len(groups) /\ own) => Covers(Offloaded, w)

(* With the offsets right, the labels of one group are minimal at every    *)
(* hop boundary: no label is answered by other labels within its hops.     *)
GroupMinimal ==
  (Settled /\ OffsetsExact) =>
     Minimal([v \in Vertices |-> {l \in Held : l.to = v}])

(* What the README promises of the label set: it satisfies the             *)
(* hop-constrained label cover, whatever the groups are.                   *)
AlwaysCover ==
  (pc = "idle" /\ gid > Len(groups)) => Covers(Offloaded, w)

(* What the checker asserts of the labels main.cu collects: the query on   *)
(* them equals the hop-constrained Dijkstra.                               *)
CollectedCover ==
  (pc = "done" /\ own) =>
     Covers([v \in Vertices |-> ToSet(LHybrid[v])], w)
=============================================================================
