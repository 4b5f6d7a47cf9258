------------------------------ MODULE CsrGraph ------------------------------
(***************************************************************************)
(* How the graph comes to the label generators: txt_read adds the edges of *)
(* a file one by one to sorted adjacency vectors, the reorder step renames *)
(* the vertices by degree, the LDBC form keeps the edges in two directions, *)
(* and toCSR puts them in one array, where each gets the id that packed    *)
(* labels name and the id of its reverse edge.  Ids start at 0.            *)
(***************************************************************************)
EXTENDS Integers, Sequences, FiniteSets, SequencesExt

CONSTANTS
  N,         \* |V|
  Weights,   \* the weights in the file
  MaxEdges   \* bound: how many different pairs the file names

ASSUME GraphAssumption ==
  N \in Nat \ {0} /\ Weights \subseteq Nat \ {0} /\ MaxEdges \in Nat

VARIABLES
  stage,     \* what is done next
  file,      \* history: the last weight of each pair of the file
  ADJs,      \* instance_graph.ADJs
  rank,      \* vertexID_old_to_new
  OUTs, INs, \* the LDBC form
  start,     \* OUTs_Neighbor_start_pointers
  edges, source, weights,   \* OUTs_Edges, ARRAY_source, OUTs_Edge_weights
  pointer,   \* pointer: per vertex the next of its edges to be linked
  edge_id,   \* edge_id
  inv        \* ARRAY_inv

graphVars == <<stage, file, ADJs, rank, OUTs, INs, start, edges, source, weights,
               pointer, edge_id, inv>>
ldbc == <<OUTs, INs>>
csr == <<start, edges, source, weights>>
links == <<pointer, edge_id, inv>>

Vertices == 0 .. N - 1
NoEdges == [v \in Vertices |-> <<>>]
----------------------------------------------------------------------------
(* sorted_vector_binary_operations_insert: behind the smaller keys, or in  *)
(* the place of the same key.                                              *)
MutInsertKeeps(row, key, load) ==
  LET p == Cardinality({i \in DOMAIN row : row[i].to < key})
  IN  IF p < Len(row) /\ row[p + 1].to = key THEN row
      ELSE InsertAt(row, p + 1, [to |-> key, wt |-> load])
Insert(row, key, load) ==
  LET p == Cardinality({i \in DOMAIN row : row[i].to < key})
  IN  IF p < Len(row) /\ row[p + 1].to = key
      THEN [row EXCEPT ![p + 1].wt = load]
      ELSE InsertAt(row, p + 1, [to |-> key, wt |-> load])

(* graph_v_of_v::add_edge: both directions.                                *)
AddEdge(adj, u, v, wt) ==
  LET one == [adj EXCEPT ![u] = Insert(@, v, wt)]
  IN  [one EXCEPT ![v] = Insert(@, u, wt)]

(* A line of the file.                                                     *)
ReadLine ==
  /\ stage = "read"
  /\ \E u, v \in Vertices, wt \in Weights :
       /\ Cardinality(DOMAIN file \cup {{u, v}}) <= MaxEdges
       /\ file' = [p \in DOMAIN file \cup {{u, v}} |-> IF p = {u, v} THEN wt ELSE file[p]]
       /\ ADJs' = AddEdge(ADJs, u, v, wt)
  /\ UNCHANGED <<stage, rank, ldbc, csr, links>>

(* The rows of a graph one after the other, as <<vertex, entry>>.          *)
AllEntries(adj) ==
  FlattenSeq([i \in 1 .. N |->
                [j \in DOMAIN adj[i - 1] |-> <<i - 1, adj[i - 1][j]>>]])

(* The reorder step: larger degrees first, then smaller ids; an edge is    *)
(* added once, from its smaller end, and a loop never.                     *)
Ranks(adj) ==
  [v \in Vertices |->
     Cardinality({x \in Vertices : \/ Len(adj[x]) > Len(adj[v])
                                   \/ Len(adj[x]) = Len(adj[v]) /\ x < v})]
Renamed(all, name) ==
  LET new[n \in 0 .. Len(all)] ==
        IF n = 0 THEN NoEdges
        ELSE LET e == all[n]
             IN  IF e[1] < e[2].to
                 THEN AddEdge(new[n - 1], name[e[1]], name[e[2].to], e[2].wt)
                 ELSE new[n - 1]
  IN  new[Len(all)]
Reorder ==
  /\ stage = "read"
  /\ rank' = Ranks(ADJs)
  /\ ADJs' = Renamed(AllEntries(ADJs), rank')
  /\ stage' = "convert"
  /\ UNCHANGED <<file, ldbc, csr, links>>

(* graph_v_of_v_to_LDBC: is_directed is true, so add_edge adds one way.    *)
Directed(all) ==
  LET out[n \in 0 .. Len(all)] ==
        IF n = 0 THEN NoEdges
        ELSE [out[n - 1] EXCEPT ![all[n][1]] = Insert(@, all[n][2].to, all[n][2].wt)]
  IN  out[Len(all)]
Turned(all) ==
  [i \in DOMAIN all |-> <<all[i][2].to, [to |-> all[i][1], wt |-> all[i][2].wt]>>]
ToLDBC ==
  /\ stage = "convert"
  /\ OUTs' = Directed(AllEntries(ADJs))
  /\ INs' = Directed(Turned(AllEntries(ADJs)))
  /\ stage' = "csr"
  /\ UNCHANGED <<file, ADJs, rank, csr, links>>

(* toCSR: the start pointers and the edges.  Its arrays of the edges in    *)
(* and of all edges are left out: nothing reads them.                      *)
Before(v) == {u \in Vertices : u < v}
ToCSR ==
  /\ stage = "csr"
  /\ LET all == AllEntries(OUTs)
     IN  /\ start' = [v \in 0 .. N |->
                        Cardinality({i \in DOMAIN all : all[i][1] \in Before(v)})]
         /\ edges' = [i \in 0 .. Len(all) - 1 |-> all[i + 1][2].to]
         /\ source' = [i \in 0 .. Len(all) - 1 |-> all[i + 1][1]]
         /\ weights' = [i \in 0 .. Len(all) - 1 |-> all[i + 1][2].wt]
  /\ pointer' = [v \in Vertices |-> start'[v]]
  /\ stage' = "link"
  /\ UNCHANGED <<file, ADJs, rank, ldbc, edge_id, inv>>

(* One turn of the loop over all edges, which gives edge number id, from i *)
(* to x, its id and the place of its reverse: the next edge of x that is   *)
(* not linked yet.  If that does not lead to i, the program exits.        *)
Id == Len(inv)
Paired ==
  /\ pointer[edges[Id]] \in DOMAIN edges
  /\ edges[pointer[edges[Id]]] = source[Id]
MutLink ==
  /\ stage = "link" /\ Id \in DOMAIN edges
  /\ IF Paired
     THEN /\ edge_id' = [p \in DOMAIN edge_id \cup {<<source[Id], edges[Id]>>} |->
                           IF p = <<source[Id], edges[Id]>> THEN Id + 1 ELSE edge_id[p]]
          /\ inv' = Append(inv, pointer[edges[Id]])
          /\ pointer' = [pointer EXCEPT ![edges[Id]] = @ + 1]
          /\ UNCHANGED stage
     ELSE stage' = "exit" /\ UNCHANGED links
  /\ UNCHANGED <<file, ADJs, rank, ldbc, csr>>
Link ==
  /\ stage = "link" /\ Id \in DOMAIN edges
  /\ IF Paired
     THEN /\ edge_id' = [p \in DOMAIN edge_id \cup {<<source[Id], edges[Id]>>} |->
                           IF p = <<source[Id], edges[Id]>> THEN Id ELSE edge_id[p]]
          /\ inv' = Append(inv, pointer[edges[Id]])
          /\ pointer' = [pointer EXCEPT ![edges[Id]] = @ + 1]
          /\ UNCHANGED stage
     ELSE stage' = "exit" /\ UNCHANGED links
  /\ UNCHANGED <<file, ADJs, rank, ldbc, csr>>

(* The arrays are copied to the device.                                    *)
Finish ==
  /\ stage = "link" /\ Id \notin DOMAIN edges
  /\ stage' = "done"
  /\ UNCHANGED <<file, ADJs, rank, ldbc, csr, links>>

LoadInit ==
  /\ stage = "read" /\ file = <<>> /\ ADJs = NoEdges
  /\ rank = [v \in Vertices |-> v]
  /\ OUTs = NoEdges /\ INs = NoEdges
  /\ start = [v \in 0 .. N |-> 0]
  /\ edges = <<>> /\ source = <<>> /\ weights = <<>>
  /\ pointer = [v \in Vertices |-> 0] /\ edge_id = <<>> /\ inv = <<>>

Done == stage \in {"done", "exit"} /\ UNCHANGED graphVars

LoadNext == ReadLine \/ Reorder \/ ToLDBC \/ ToCSR \/ Link \/ Finish \/ Done

LoadSpec == LoadInit /\ [][LoadNext]_graphVars
----------------------------------------------------------------------------
(* The entries of all rows, as <<vertex, neighbour, weight>>.              *)
Entries(adj) == {<<p[1], adj[p[1]][p[2]].to, adj[p[1]][p[2]].wt>> : p \in
                   {q \in Vertices \X (1 .. N) : q[2] \in DOMAIN adj[q[1]]}}

(* Whatever the order of the lines, both ends of an edge hold it once: the *)
(* edges of the graph are those of the file with the last weight of        *)
(* each, under their new names, without the loops; no two vertices have    *)
(* got one name.                                                           *)
GraphIsFile ==
  stage # "read" =>
    /\ \A u, v \in Vertices : u # v => rank[u] # rank[v]
    /\ Entries(ADJs) =
         UNION {{<<rank[p[1]], rank[p[2]], file[{p[1], p[2]}]>> :
                   p \in {q \in Vertices \X Vertices : q[1] # q[2] /\ {q[1], q[2]} = pair}} :
                pair \in DOMAIN file}

(* Although the reverse of an edge is found by counting alone, toCSR never *)
(* gives up, and at the end an id, its source and its target agree, the    *)
(* reverse of the reverse is the edge itself, and a label's (vertex,       *)
(* parent) finds the edge that leads from the vertex to the parent.        *)
IdsAgree ==
  /\ stage # "exit"
  /\ stage = "done" =>
    /\ DOMAIN edge_id = {<<e[1], e[2]>> : e \in Entries(ADJs)}
    /\ \A p \in DOMAIN edge_id :
         LET i == edge_id[p]
         IN  /\ source[i] = p[1] /\ edges[i] = p[2]
             /\ i \in start[p[1]] .. start[p[1] + 1] - 1
             /\ inv[i + 1] = edge_id[<<p[2], p[1]>>]
             /\ weights[i] = weights[inv[i + 1]]
=============================================================================
