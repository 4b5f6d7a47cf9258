--------------------------- MODULE GpuLabelClean ---------------------------
(***************************************************************************)
(* Label cleaning on the GPU (gpu_label_clean.cu): init_clean lays the     *)
(* sorted labels of all vertices out in one array; main.cu cleans it a     *)
(* range of clean_size vertices at a time, and in the end hands the cleaned *)
(* ranges out again.  One action is one kernel with the host code after    *)
(* it; the hash table of a range, which is emptied by the loop HasTable     *)
(* models access by access, appears here by its effect.                    *)
(* An edge id is modelled by its source, to.                               *)
(***************************************************************************)
EXTENDS HopLabels, SequencesExt

VARIABLES
  pc,           \* the next kernel
  L,            \* L_clean; L[0] is the sentinel
  start, end,   \* L_start, L_end
  lo, hi,       \* L_clean_start and L_clean_end as positions
  mark,         \* the positions whose mark is still 1
  has,          \* has_clean
  ranges,       \* gpu_clean_ranges
  LHybrid       \* L_hybrid: the labels of each vertex

vars == <<pc, L, start, end, lo, hi, mark, has, ranges, LHybrid>>
----------------------------------------------------------------------------
Word(v, l) == [to |-> v, hub |-> l.hub, hop |-> l.hop, dist |-> l.dist]
LabelOf(x) == [hub |-> x.hub, hop |-> x.hop, dist |-> x.dist]

Sentinel == [to |-> N, hub |-> N, hop |-> 7, dist |-> 1023]

(* The word behind the array is not allocated; a managed page reads as 0.  *)
To(buf, i) == IF i \in DOMAIN buf THEN buf[i].to ELSE 0

(* clean_hash_init: a label goes under every bound from its hop on; of one *)
(* key atomicMin keeps the least distance, whatever the order.             *)
HashKeys(x) == {<<x.to, x.hub, k>> : k \in x.hop .. K}
Inserted(words) ==
  [k \in UNION {HashKeys(x) : x \in words} |->
     Min({x.dist : x \in {y \in words : k \in HashKeys(y)}})]

(* gpu_label_clean finds the range and fills the table; it returns if the  *)
(* range is empty.                                                         *)
InitHash(start_id, end_id) ==
  /\ pc = "rest"
  /\ lo' = start[start_id] /\ hi' = end[end_id - 1]
  /\ has' = Inserted({L[i] : i \in lo' .. hi' - 1})
  /\ pc' = IF hi' <= lo' THEN "select" ELSE "prune"
  /\ UNCHANGED <<L, start, end, mark, ranges, LHybrid>>

HashQuery(k) == IF k \in DOMAIN has THEN has[k] ELSE Inf

(* A word is answered by a label of its hub and what the range holds of    *)
(* its own vertex; the hub's own label stands for one hop less.            *)
MutAnsweredLate(x, y) ==
  /\ 1 < y.hop /\ y.hop < x.hop
  /\ y.dist + HashQuery(<<x.to, y.hub, x.hop - y.hop>>) <= x.dist
AnsweredBy(x, y) ==
  \/ /\ 0 < y.hop /\ y.hop < x.hop
     /\ y.dist + HashQuery(<<x.to, y.hub, x.hop - y.hop>>) <= x.dist
  \/ /\ y.hop = 0
     /\ HashQuery(<<x.to, y.hub, x.hop - 1>>) <= x.dist

(* clean_label_prune.                                                      *)
Prune ==
  /\ pc = "prune"
  /\ mark' = mark \ {i \in lo .. hi - 1 :
                       /\ L[i].hop # 0
                       /\ \E j \in start[L[i].hub] .. end[L[i].hub] - 1 :
                            AnsweredBy(L[i], L[j])}
  /\ pc' = "clear"
  /\ UNCHANGED <<L, start, end, lo, hi, has, ranges, LHybrid>>

(* clean_hash_clear, for the words of the range.                           *)
ClearHash ==
  /\ pc = "clear"
  /\ LET keys == UNION {HashKeys(L[i]) : i \in lo .. hi - 1}
     IN  has' = [k \in DOMAIN has \ keys |-> has[k]]
  /\ pc' = "select"
  /\ UNCHANGED <<L, start, end, lo, hi, mark, ranges, LHybrid>>

(* The flagged select moves the marked words to the front of the range, in *)
(* place; what was behind them stays.                                      *)
Selected == Ordered(mark \cap (lo .. hi - 1), <)
Select ==
  /\ pc = "select"
  /\ L' = [i \in DOMAIN L |->
             IF i \in lo .. lo + Len(Selected) - 1 THEN L[Selected[i - lo + 1]]
             ELSE L[i]]
  /\ pc' = "update"
  /\ UNCHANGED <<start, end, lo, hi, mark, has, ranges, LHybrid>>

(* clean_update_labels: a thread sets an offset of its vertex unless the   *)
(* word beside it, stale or not, is of the same vertex.  main.cu drops the *)
(* range's labels on the host and notes where the cleaned ones are.        *)
MutUpdateOffsets(start_id, end_id) ==
  /\ pc = "update"
  /\ ranges' = Append(ranges, <<lo, lo + Len(Selected)>>)
  /\ LHybrid' = [v \in Vertices |->
                   IF v \in start_id .. end_id - 1 THEN <<>> ELSE LHybrid[v]]
  /\ pc' = "rest"
  /\ UNCHANGED <<L, start, end, lo, hi, mark, has>>
UpdateOffsets(start_id, end_id) ==
  /\ pc = "update"
  /\ LET new == lo .. lo + Len(Selected) - 1
         Opens(v)  == {i \in new : L[i].to = v /\ To(L, i - 1) # v}
         Closes(v) == {i \in new : L[i].to = v /\ To(L, i + 1) # v}
     IN  /\ start' = [v \in Vertices |->
                        IF Opens(v) # {} THEN Min(Opens(v)) ELSE start[v]]
         /\ end' = [v \in Vertices |->
                      IF Closes(v) # {} THEN Max(Closes(v)) + 1 ELSE end[v]]
         /\ ranges' = Append(ranges, <<lo, lo + Len(Selected)>>)
  /\ LHybrid' = [v \in Vertices |->
                   IF v \in start_id .. end_id - 1 THEN <<>> ELSE LHybrid[v]]
  /\ pc' = "rest"
  /\ UNCHANGED <<L, lo, hi, mark, has>>

(* The words of the ranges go back to their vertices, whose own rows have  *)
(* been dropped, and the rows are sorted.                                  *)
InRanges == UNION {r[1] .. r[2] - 1 : r \in ToSet(ranges)}
Cleaned(v) == {LabelOf(L[i]) : i \in {j \in InRanges : L[j].to = v}}
Convert ==
  /\ LHybrid' = [v \in Vertices |-> SortLabels(ToSet(LHybrid[v]) \cup Cleaned(v))]
  /\ UNCHANGED <<pc, L, start, end, lo, hi, mark, has, ranges>>

(* init_clean: the sentinel, then the labels of vertex 0, of vertex 1, ..., *)
(* each row in the order main has sorted it into.                          *)
WordLess(x, y) == x.to < y.to \/ (x.to = y.to /\ LabelLess(x, y))
Words == UNION {{Word(v, l) : l \in ToSet(LHybrid[v])} : v \in Vertices}
Layout ==
  LET row == Ordered(Words, WordLess)
  IN  [i \in 0 .. Cardinality(Words) |-> IF i = 0 THEN Sentinel ELSE row[i]]
WordsOf(v) == {i \in DOMAIN L : L[i].to = v}
Init ==
  /\ L = Layout
  /\ start = [v \in Vertices |-> Min(WordsOf(v))]
  /\ end = [v \in Vertices |-> Max(WordsOf(v)) + 1]
  /\ mark = DOMAIN L
  /\ pc = "rest" /\ lo = 0 /\ hi = 0
  /\ has = <<>> /\ ranges = <<>>

Step == Prune \/ ClearHash \/ Select
=============================================================================
