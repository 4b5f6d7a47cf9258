----------------------------- MODULE GroupMerge -----------------------------
(***************************************************************************)
(* generate_Group_CDLP (graph_partition.cuh): the communities that label   *)
(* propagation found become groups, and small groups are merged while the  *)
(* sum fits.  The ordered set `se' is walked from its largest unit; the    *)
(* partner is the largest unit that still fits.  When none does the code   *)
(* decrements the set's first iterator, which is undefined: libstdc++      *)
(* answers end(), except that in a tree of at most two units whose root is *)
(* the first unit it answers that unit.                                    *)
(***************************************************************************)
EXTENDS Integers, Sequences, FiniteSets, Ordering

CONSTANTS
  N,          \* number of vertices
  MaxGroup    \* MAX_GROUP_SIZE

Vertices == 0 .. N - 1

VARIABLES
  labels,  \* the community of each vertex, as CDLP_GPU returned it
  deg,     \* the degree of each vertex
  pc,      \* the next stretch of code
  se,      \* se: the units still to place
  after,   \* groups_after
  groups   \* groups, the result

vars == <<labels, deg, pc, se, after, groups>>
----------------------------------------------------------------------------
(* operator < of group_union_unit.                                         *)
Less(a, b) == a.size < b.size \/ (a.size = b.size /\ a.id < b.id)
Largest(S) == CHOOSE a \in S : \A b \in S \ {a} : Less(b, a)

(* Group nodes by label, drop the empty groups, and number the rest.       *)
Collect ==
  /\ pc = "collect"
  /\ LET used == Ordered({labels[v] : v \in Vertices}, <)
         Nodes(l) == Ordered({v \in Vertices : labels[v] = l}, <)
     IN  se' = {[id |-> i - 1, size |-> Len(Nodes(used[i])),
                 node |-> Nodes(used[i])] : i \in DOMAIN used}
  /\ pc' = "merge"
  /\ UNCHANGED <<labels, deg, after, groups>>

(* The units --upper_bound((size MAX_GROUP_SIZE - size of a)) ranges over. *)
MutFits(a) == {b \in se \ {a} : b.size < MaxGroup - a.size}
Fits(a) == {b \in se \ {a} : b.size <= MaxGroup - a.size}

(* What it2 may point to, other than the largest unit itself.              *)
Partners ==
  LET a == Largest(se)
  IN  CASE Fits(a) # {} -> {Largest(Fits(a))}
        [] Fits(a) = {} /\ Cardinality(se) = 2 -> se \ {a}
        [] OTHER -> {}

(* Two units become one, which keeps the id of the larger.                 *)
MutMerge ==
  /\ pc = "merge" /\ se # {}
  /\ \E b \in Partners :
       LET a == Largest(se)
       IN  se' = (se \ {a, b}) \cup {[a EXCEPT !.size = @ + b.size]}
  /\ UNCHANGED <<labels, deg, pc, after, groups>>
Merge ==
  /\ pc = "merge" /\ se # {}
  /\ \E b \in Partners :
       LET a == Largest(se)
       IN  se' = (se \ {a, b}) \cup
                   {[id |-> a.id, size |-> a.size + b.size, node |-> a.node \o b.node]}
  /\ UNCHANGED <<labels, deg, pc, after, groups>>

(* Nothing is found beside the largest unit: it is a group.                *)
Emit ==
  /\ pc = "merge" /\ se # {} /\ Fits(Largest(se)) = {}
  /\ after' = Append(after, Largest(se).node)
  /\ se' = se \ {Largest(se)}
  /\ UNCHANGED <<labels, deg, pc, groups>>

(* Sort as rank: the group of the largest total degree comes first.        *)
TotalDegree(g) ==
  LET total[j \in 0 .. Len(g)] ==
        IF j = 0 THEN 0 ELSE total[j - 1] + deg[g[j]]
  IN  total[Len(g)]
Sort ==
  /\ pc = "merge" /\ se = {}
  /\ LET unit(i) == [id |-> i - 1, size |-> 0 - TotalDegree(after[i]),
                     node |-> after[i]]
         sorted == Ordered({unit(i) : i \in DOMAIN after}, Less)
     IN  groups' = [i \in DOMAIN sorted |-> sorted[i].node]
  /\ pc' = "done"
  /\ UNCHANGED <<labels, deg, se, after>>

Init ==
  /\ pc = "collect" /\ se = {} /\ after = <<>> /\ groups = <<>>

Next == Collect \/ Merge \/ Emit \/ Sort
----------------------------------------------------------------------------
(* Merging moves vertices and never loses or repeats one: at every turn of *)
(* the loop the units and the finished groups hold each vertex once, and   *)
(* so do the groups main.cu passes to the generators.                      *)
Units == {<<"unit", x.id, x.node>> : x \in se}
Listed(gs) == {<<"group", i, gs[i]>> : i \in DOMAIN gs}
Once(parts) ==
  LET places == UNION {{p} \X DOMAIN p[3] : p \in parts}
      At(x) == x[1][3][x[2]]
  IN  /\ {At(x) : x \in places} = Vertices
      /\ \A x, y \in places : At(x) = At(y) => x = y
EachVertexOnce ==
  /\ pc = "merge" => Once(Units \cup Listed(after))
  /\ pc = "done" => Once(Listed(groups))

(* The merge is maximal: no two groups that come out would fit together,   *)
(* so the number of passes over the GPU cannot be lowered by one merge.    *)
NoTwoFit ==
  pc = "done" =>
    \A i, j \in DOMAIN groups :
      i # j => Len(groups[i]) + Len(groups[j]) > MaxGroup

(* The README promises groups within a strict size bound G_max: if label   *)
(* propagation kept it, merging does.                                      *)
MergeKeepsBound ==
  (/\ pc = "done"
   /\ \A l \in Vertices :
        Cardinality({v \in Vertices : labels[v] = l}) <= MaxGroup) =>
    \A i \in DOMAIN groups : Len(groups[i]) <= MaxGroup
=============================================================================
