------------------------------ MODULE Checker ------------------------------
(***************************************************************************)
(* The checker on the finished index (checker.cuh): for a query it runs    *)
(* the hop-constrained Dijkstra, asks the index for the distance, stops if *)
(* the two differ, and asks the index for the path.  A query of the file   *)
(* runs Dijkstra twice, for the distance and for the path, each to the     *)
(* terminal; a random query runs it once, to no terminal, as it compares   *)
(* the distances of many.  From its hundredth query on the file's checker  *)
(* runs no Dijkstra and compares no distance.                              *)
(***************************************************************************)
EXTENDS HopLabels, SequencesExt

CONSTANT Indexes   \* the graphs with the sorted labels of their vertices

(* What the checker is given: rows in order, labels that answer every      *)
(* query, each as long as a way of its hops through its parent.            *)
Label == [hub : Vertices, hop : 0 .. K, dist : Nat, par : Vertices]
FromParent(g, v, l) ==
  IF l.hop = 0 THEN l.hub = v /\ l.par = v /\ l.dist = 0
  ELSE /\ l.par \in Nbrs(g, v)
       /\ HopDist(g)[l.hop - 1][<<l.hub, l.par>>] + g[<<l.par, v>>] <= l.dist
Finished(x) ==
  /\ x.w \in [Vertices \X Vertices -> Nat]
  /\ \A u, v \in Vertices :
       x.w[<<u, v>>] = x.w[<<v, u>>] /\ K * x.w[<<u, v>>] < Inf /\ x.w[<<v, v>>] = 0
  /\ x.rows \in [Vertices -> Seq(Label)]
  /\ \A v \in Vertices : \A a, b \in DOMAIN x.rows[v] :
       a < b => ~LabelLess(x.rows[v][b], x.rows[v][a])
  /\ \A v \in Vertices : \A a \in DOMAIN x.rows[v] : FromParent(x.w, v, x.rows[v][a])
  /\ Covers([v \in Vertices |-> ToSet(x.rows[v])], x.w)
ASSUME IndexAssumption == \A x \in Indexes : Finished(x)

VARIABLES
  w, L,      \* the graph and its labels, fixed by Init
  query,     \* the query: its two vertices and hop bound, fixed by Init
  goal,      \* the terminal Dijkstra is called with, -1 by the random checker
  stage,     \* the call the checker is in; "later": no reference is run
  pq, distAtHop, distance, parent, final,    \* Dijkstra's
  dis, phase, pc, s, t, k, i, j, best, path  \* the query's

fixed == <<w, L, query, goal>>
dijkstra == <<pq, distAtHop, distance, parent, final>>
asked == <<dis, phase, pc, s, t, k, i, j, best, path>>
vars == <<fixed, stage, dijkstra, asked>>

Reference == INSTANCE Dijkstra
Answers == INSTANCE LabelQuery
----------------------------------------------------------------------------
CallDijkstra ==
  /\ \/ stage = "start" /\ stage' = "distances"
     \/ stage = "distances" /\ pq = {} /\ goal # -1 /\ stage' = "paths"
  /\ UNCHANGED fixed
  /\ Reference!Call(query[1])
  /\ UNCHANGED asked

Arrive == Reference!Arrive(goal) /\ UNCHANGED <<fixed, stage, asked>>
Discard == Reference!Discard(goal, query[3]) /\ UNCHANGED <<fixed, stage, asked>>
Expand == Reference!Expand(goal, query[3]) /\ UNCHANGED <<fixed, stage, asked>>

ReferenceDone == pq = {} /\ stage = (IF goal = -1 THEN "distances" ELSE "paths")
AskIndex ==
  /\ ReferenceDone
  /\ stage' = "ask"
  /\ UNCHANGED <<fixed, dijkstra, asked>>

QueryStep == stage \in {"ask", "later"} /\ Answers!Step /\ UNCHANGED <<fixed, stage, dijkstra>>

(* The checker compares and goes on to the path, or gives up; a later      *)
(* query (yy >= 100) is not compared.                                      *)
Compare ==
  /\ pc = "answered"
  /\ pc' = IF stage = "later" \/ dis = distance[query[2]]
             THEN "call" ELSE "rejected"
  /\ UNCHANGED <<fixed, stage, dijkstra, dis, phase, s, t, k, i, j, best, path>>

Init ==
  /\ \E x \in Indexes : w = x.w /\ L = x.rows
  /\ s \in Vertices /\ t \in Vertices /\ k \in 0 .. K
  /\ query = <<s, t, k>>
  /\ goal \in {t, -1}
  /\ stage \in IF goal = -1 THEN {"start"} ELSE {"start", "later"}
  /\ Reference!Init
  /\ Answers!Init

Done == pc \in {"done", "rejected"} /\ UNCHANGED vars

Next == CallDijkstra \/ Arrive \/ Discard \/ Expand \/ AskIndex \/ QueryStep
          \/ Compare \/ Done

Spec == Init /\ [][Next]_vars

(* The functions run to their end.                                         *)
FairSpec == Spec /\ WF_vars(Next)
----------------------------------------------------------------------------
Distance(u, v) == HopDist(w)[query[3]][<<u, v>>]
LengthOf(edges) ==
  LET sum[n \in 0 .. Len(edges)] == IF n = 0 THEN 0 ELSE sum[n - 1] + w[edges[n]]
  IN  sum[Len(edges)]

(* The reference is right where the checker reads it, although the loop    *)
(* ends at the terminal and a vertex may be popped again with fewer hops   *)
(* and a larger distance; and the path it tracks back is a walk of that    *)
(* length within the hops.                                                 *)
ReferenceIsExact ==
  ReferenceDone =>
    LET walk == Reference!Path(query[1], goal)
        edges == [n \in 1 .. Len(walk) - 1 |-> <<walk[n], walk[n + 1]>>]
    IN  /\ \A v \in Vertices :
             goal \in {v, -1} => distance[v] = Distance(query[1], v)
        /\ (walk # <<>>) = (goal # -1 /\ distance[query[2]] < Inf)
        /\ walk # <<>> =>
             /\ Len(edges) <= query[3]
             /\ \A n \in DOMAIN edges : w[edges[n]] > 0
             /\ LengthOf(edges) = distance[goal]

(* The merge with its early break answers the hop-constrained distance of  *)
(* the graph, and the checker never gives up.                              *)
AnswerIsExact ==
  /\ pc = "answered" => dis = Distance(query[1], query[2])
  /\ pc # "rejected"

(* The path is one of the graph: its edges lead from the source and, back  *)
(* to front, from the terminal to a common vertex, within the hop bound    *)
(* and with the distance answered, although every call of the recursion    *)
(* may meet at another hub.                                                *)
WalkTo(from, mine) ==
  LET at[n \in 0 .. Len(path)] ==
        IF n = 0 THEN from
        ELSE IF n \notin mine THEN at[n - 1]
        ELSE IF path[n][1] = at[n - 1] /\ w[path[n]] > 0 THEN path[n][2]
        ELSE -1
  IN  at[Len(path)]
PathIsRight ==
  pc = "done" =>
    IF dis = Inf THEN path = <<>>
    ELSE /\ Len(path) <= query[3] /\ LengthOf(path) = dis
         /\ \E mine \in SUBSET DOMAIN path :
              /\ WalkTo(query[1], mine) = s
              /\ WalkTo(query[2], DOMAIN path \ mine) = s

(* Dijkstra's loop and the recursion end.                                  *)
CheckEnds == <>(pc \in {"done", "rejected"})
=============================================================================
