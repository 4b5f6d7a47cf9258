----------------------------- MODULE LabelQuery -----------------------------
(***************************************************************************)
(* A query on the finished index, as the checker asks it (label_types.cuh): *)
(* the distance by merging the sorted labels of the two vertices, then the *)
(* path, which merges again, steps from both ends to the parents of the    *)
(* labels that met, and calls itself for the rest.  One turn of the merge  *)
(* loop is a step; the recursion is a loop, as the call is the last one.   *)
(***************************************************************************)
EXTENDS HopLabels, SequencesExt

VARIABLES
  L,         \* the sorted labels of each vertex
  dis,       \* what hop_constrained_extract_distance answered
  phase,     \* which of the two functions the merge loop runs for
  pc,        \* where that function is
  s, t, k,   \* source, terminal, hop_cst of the current call
  i, j,      \* vector1_check_pointer, vector2_check_pointer
  best,      \* distance and the capped parents
  path       \* paths

vars == <<L, dis, phase, pc, s, t, k, i, j, best, path>>

NoMeeting == [dist |-> Inf, ps |-> 0, pt |-> 0]
StartMerge == i' = 1 /\ j' = 1 /\ best' = NoMeeting /\ pc' = "merge"
----------------------------------------------------------------------------
(* hop_constrained_extract_distance: its early returns, or the merge.      *)
AskDistance ==
  /\ pc = "ask"
  /\ \/ s = t /\ dis' = 0 /\ phase' = "path" /\ pc' = "answered" /\ UNCHANGED <<i, j, best>>
     \/ s # t /\ k = 0 /\ dis' = Inf /\ phase' = "path" /\ pc' = "answered"
          /\ UNCHANGED <<i, j, best>>
     \/ s # t /\ k # 0 /\ StartMerge /\ UNCHANGED <<dis, phase>>
  /\ UNCHANGED <<L, s, t, k, path>>

AtEnd == i > Len(L[s]) \/ j > Len(L[t])

(* The pointer at the smaller hub moves on.                                *)
MutSkip ==
  /\ pc = "merge" /\ ~AtEnd
  /\ L[s][i].hub # L[t][j].hub
  /\ IF L[s][i].hub > L[t][j].hub THEN j' = j + 1 /\ UNCHANGED i
                                  ELSE UNCHANGED <<i, j>>
  /\ UNCHANGED <<L, dis, phase, pc, s, t, k, best, path>>
Skip ==
  /\ pc = "merge" /\ ~AtEnd
  /\ L[s][i].hub # L[t][j].hub
  /\ IF L[s][i].hub > L[t][j].hub THEN j' = j + 1 /\ UNCHANGED i
                                  ELSE i' = i + 1 /\ UNCHANGED j
  /\ UNCHANGED <<L, dis, phase, pc, s, t, k, best, path>>

(* The position behind the run of equal hubs that starts at p.  The code   *)
(* reads the hub behind the last label before it tests the index; the read *)
(* is undefined, but whatever it gives the index ends the run.             *)
RunEnd(row, p) ==
  Min({q \in p .. Len(row) + 1 : q > Len(row) \/ row[q].hub # row[p].hub})

(* The pairs of a block the two loops look at: the inner loop breaks at    *)
(* the first pair that is over the hop bound.                              *)
MutLooked(a, b) ==
  {p \in (i .. a - 1) \X (j .. b - 1) : L[s][p[1]].hop + L[t][p[2]].hop < k}
Looked(a, b) ==
  {p \in (i .. a - 1) \X (j .. b - 1) :
     \A q \in j .. p[2] : L[s][p[1]].hop + L[t][q].hop <= k}

(* Both pointers are at one hub: the first of the cheapest pairs becomes   *)
(* the best, if it is cheaper than what was found before.                  *)
Meet ==
  /\ pc = "merge" /\ ~AtEnd
  /\ L[s][i].hub = L[t][j].hub
  /\ LET a == RunEnd(L[s], i)
         b == RunEnd(L[t], j)
         Sum(p) == L[s][p[1]].dist + L[t][p[2]].dist
         cheapest == {p \in Looked(a, b) : \A q \in Looked(a, b) : Sum(p) <= Sum(q)}
         Before(p, q) == p[1] < q[1] \/ (p[1] = q[1] /\ p[2] <= q[2])
     IN  /\ IF \E p \in cheapest : Sum(p) < best.dist
            THEN \E p \in cheapest :
                   /\ \A q \in cheapest : Before(p, q)
                   /\ best' = [dist |-> Sum(p), ps |-> L[s][p[1]].par,
                               pt |-> L[t][p[2]].par]
            ELSE UNCHANGED best
         /\ i' = a /\ j' = b
  /\ UNCHANGED <<L, dis, phase, pc, s, t, k, path>>

(* The distance is answered.                                               *)
Answer ==
  /\ pc = "merge" /\ AtEnd /\ phase = "distance"
  /\ dis' = best.dist
  /\ phase' = "path" /\ pc' = "answered"
  /\ UNCHANGED <<L, s, t, k, i, j, best, path>>

(* hop_constrained_extract_shortest_path is called.                        *)
CallPath ==
  /\ pc = "call"
  /\ IF s = t THEN pc' = "done" /\ UNCHANGED <<i, j, best>> ELSE StartMerge
  /\ UNCHANGED <<L, dis, phase, s, t, k, path>>

(* Each end that is not the hub steps to its parent and uses up a hop.     *)
EdgesTo(ps, pt) == (IF s # ps THEN << <<s, ps>> >> ELSE <<>>)
                     \o (IF t # pt THEN << <<t, pt>> >> ELSE <<>>)
MutUnrollOneEnd ==
  /\ pc = "merge" /\ AtEnd /\ phase = "path"
  /\ IF best.dist < Inf
     THEN /\ path' = path \o EdgesTo(best.ps, t)
          /\ s' = best.ps /\ t' = best.pt
          /\ k' = k - Len(EdgesTo(best.ps, best.pt))
          /\ pc' = "call"
     ELSE pc' = "done" /\ UNCHANGED <<path, s, t, k>>
  /\ UNCHANGED <<L, dis, phase, i, j, best>>
Unroll ==
  /\ pc = "merge" /\ AtEnd /\ phase = "path"
  /\ IF best.dist < Inf
     THEN /\ path' = path \o EdgesTo(best.ps, best.pt)
          /\ s' = best.ps /\ t' = best.pt
          /\ k' = k - Len(EdgesTo(best.ps, best.pt))
          /\ pc' = "call"
     ELSE pc' = "done" /\ UNCHANGED <<path, s, t, k>>
  /\ UNCHANGED <<L, dis, phase, i, j, best>>

Init ==
  /\ dis = 0 /\ phase = "distance" /\ pc = "ask"
  /\ i = 1 /\ j = 1 /\ best = NoMeeting /\ path = <<>>

Step == AskDistance \/ Skip \/ Meet \/ Answer \/ CallPath \/ Unroll
=============================================================================
