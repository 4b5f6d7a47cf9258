----------------------------- MODULE Partition -----------------------------
(***************************************************************************)
(* generate_Group_CDLP as a whole: label propagation on the GPU, then the  *)
(* communities it leaves become groups and are merged.  The degrees that   *)
(* order the groups are those of the graph the labels were propagated on.  *)
(***************************************************************************)
EXTENDS Cdlp

VARIABLES
  mpc,     \* where the host is after CDLP_GPU has returned
  se,      \* se: the units still to place
  after,   \* groups_after
  groups   \* groups, the result

merge == <<mpc, se, after, groups>>

Degree == [v \in Vertices |-> Cardinality(adj[v])]

Merging == INSTANCE GroupMerge WITH pc <- mpc, deg <- Degree
----------------------------------------------------------------------------
Propagation ==
  /\ \/ Propagate \/ EndIteration
     \/ \E v \in Vertices : Read(v) \/ Swap(v)
  /\ UNCHANGED merge

(* CDLP_GPU returns the labels after the last iteration.                   *)
Grouping ==
  /\ it = Iterations
  /\ UNCHANGED <<adj, newLabels, size, it, pc, offers, seen>>
  /\ Merging!Next

PartitionInit == Init /\ Merging!Init

PartitionDone == mpc = "done" /\ UNCHANGED <<vars, merge>>

PartitionNext == Propagation \/ Grouping \/ PartitionDone

(* Every thread of a launched kernel runs, and so does the host.           *)
PartitionSpec ==
  /\ PartitionInit /\ [][PartitionNext]_<<vars, merge>>
  /\ WF_<<vars, merge>>((Propagate \/ EndIteration) /\ UNCHANGED merge)
  /\ \A v \in Vertices : WF_<<vars, merge>>((Read(v) \/ Swap(v)) /\ UNCHANGED merge)
  /\ WF_<<vars, merge>>(Grouping)
----------------------------------------------------------------------------
(* From the labels the racing threads leave to the groups that main.cu     *)
(* passes to the generators, merging never loses or repeats a vertex.      *)
EachVertexOnce == Merging!EachVertexOnce

(* No two of the groups would fit together: the merge is maximal.          *)
NoTwoFit == Merging!NoTwoFit

(* The compare-and-swap loops of every iteration end, and the walk over    *)
(* the set ends although it inserts units while it removes them.           *)
PartitionEnds == <>(mpc = "done")
=============================================================================
