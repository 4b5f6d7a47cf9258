---------------------------- MODULE MCGroupMerge ----------------------------
(* GroupMerge alone, on two communities of which the smaller one has the   *)
(* smaller label: it is inserted first, and the second unit is its child,  *)
(* so the set's root is its first unit.                                    *)
EXTENDS GroupMerge

MCInit ==
  /\ Init
  /\ labels = [v \in Vertices |-> IF v <= 1 THEN 0 ELSE 1]
  /\ deg = [v \in Vertices |-> 1]

MCSpec == MCInit /\ [][Next]_vars
=============================================================================
