----------------------------- MODULE LabelIndex -----------------------------
(***************************************************************************)
(* What cleaning promises, whoever does it: an index that answers every    *)
(* query exactly loses labels, never gets a label it did not have, and     *)
(* answers every query exactly at every moment in between.                 *)
(***************************************************************************)
EXTENDS HopLabels

VARIABLES w,      \* the graph
          index   \* the label set of each vertex

Init == Covers(index, w)

Drop ==
  /\ index' # index
  /\ \A v \in Vertices : index'[v] \subseteq index[v]
  /\ Covers(index', w)
  /\ UNCHANGED w

Spec == Init /\ [][Drop]_<<w, index>>
=============================================================================
