--------------------------- MODULE CheckerProofs ---------------------------
(***************************************************************************)
(* Theorems about the checker for every graph, every sorted index that     *)
(* answers all queries, every hop bound and every query: the reference is  *)
(* exact where it is read, the merge answers the same, and the path that   *)
(* the parents give is one of that length.                                 *)
(***************************************************************************)
EXTENDS Checker, HopLabelsProofs

(***************************************************************************)
(* 1. The index.  x is a graph with the rows of its vertices.              *)
(***************************************************************************)
LEMMA IndexIs ==
  ASSUME NEW x \in Indexes
  PROVE  /\ Undirected(x.w) /\ \A v \in Vertices : x.w[<<v, v>>] = 0
         /\ x.rows \in [Vertices -> Seq(Label)]
         /\ \A v \in Vertices : \A a, b \in DOMAIN x.rows[v] :
              a < b => ~LabelLess(x.rows[v][b], x.rows[v][a])
         /\ \A v \in Vertices : \A a \in DOMAIN x.rows[v] : FromParent(x.w, v, x.rows[v][a])
         /\ Covers([v \in Vertices |-> ToSet(x.rows[v])], x.w)
BY IndexAssumption, Zenon DEF Finished, Undirected

(* The two parts' own copies of the shared operators are the shared ones.  *)
LEMMA SameReference ==
  /\ Reference!Vertices = Vertices /\ Reference!Inf = Inf
  /\ \A S : Reference!Min(S) = Min(S)
  /\ \A g, v : Reference!Nbrs(g, v) = Nbrs(g, v)
BY DEF Reference!Vertices, Vertices, Reference!Inf, Inf, Reference!Min, Min, Reference!Nbrs, Nbrs

LEMMA SameAnswers ==
  /\ Answers!Vertices = Vertices /\ Answers!Inf = Inf
  /\ \A S : Answers!Min(S) = Min(S)
BY DEF Answers!Vertices, Vertices, Answers!Inf, Inf, Answers!Min, Min
-----------------------------------------------------------------------------
(***************************************************************************)
(* 2. The reference.  g is the graph and D its distances, a the source, c  *)
(* the terminal or -1, n the hop bound.                                    *)
(***************************************************************************)
Tables ==
  /\ distAtHop \in [Vertices -> [0 .. K -> 0 .. Inf]]
  /\ distance \in [Vertices -> 0 .. Inf]
  /\ parent \in [Vertices -> [0 .. K -> Vertices \cup {-1}]]

(* What a vertex is known to be away is never less than its distance, and  *)
(* its parent is known to be nearer by the edge.                           *)
AtSource(a) ==
  /\ distAtHop[a][0] = 0
  /\ \A v \in Vertices : v # a => distAtHop[v][0] = Inf
NotLess(D, a, n) ==
  /\ \A v \in Vertices : \A h \in 0 .. K :
       /\ distAtHop[v][h] < Inf => h <= n
       /\ D[h][<<a, v>>] <= distAtHop[v][h]
       /\ distance[v] <= distAtHop[v][h]
  /\ \A v \in Vertices : D[n][<<a, v>>] <= distance[v]
ByParents(g) ==
  \A v \in Vertices : \A h \in 1 .. K : distAtHop[v][h] < Inf =>
    /\ parent[v][h] \in Nbrs(g, v)
    /\ distAtHop[parent[v][h]][h - 1] + g[<<parent[v][h], v>>] <= distAtHop[v][h]

Queue(n) ==
  /\ pq \subseteq (0 .. Inf - 1) \X (0 .. n) \X Vertices
  /\ \A x \in pq : distAtHop[x[3]][x[2]] <= x[1]

(* What is known of a vertex waits in the queue, or its neighbours know.   *)
Relaxed(g, n, v, h) ==
  h >= n \/ \A y \in Nbrs(g, v) : distAtHop[y][h + 1] <= distAtHop[v][h] + g[<<v, y>>]
Waits(g, c, n) ==
  \A v \in Vertices : \A h \in 0 .. K : distAtHop[v][h] < Inf =>
    <<distAtHop[v][h], h, v>> \in pq \/ (v # c /\ Relaxed(g, n, v, h))

Arrived(D, a, c, n) ==
  /\ pq = {} /\ c \in Vertices /\ final \in 0 .. n
  /\ distAtHop[c][final] = D[n][<<a, c>>] /\ distAtHop[c][final] < Inf
  /\ distance[c] = D[n][<<a, c>>]

Searching(g, D, a, c, n) ==
  /\ Tables /\ AtSource(a) /\ NotLess(D, a, n) /\ ByParents(g) /\ Queue(n)
  /\ (final = -1 /\ Waits(g, c, n)) \/ Arrived(D, a, c, n)

(* As far as the queue has come, every vertex is known at its distance.    *)
LEMMA Reached ==
  ASSUME NEW g, Undirected(g), NEW D, D = HopDist(g), NEW a \in Vertices, NEW c, NEW n \in 0 .. K,
         Tables, AtSource(a), Queue(n), Waits(g, c, n),
         NEW b \in 0 .. Inf, \A x \in pq : b <= x[1]
  PROVE  \A h \in 0 .. n : \A v \in Vertices : D[h][<<a, v>>] < b =>
           \E e \in 0 .. h : distAtHop[v][e] <= D[h][<<a, v>>]
<1> DEFINE Good(h) == \A v \in Vertices : D[h][<<a, v>>] < b =>
                        \E e \in 0 .. h : distAtHop[v][e] <= D[h][<<a, v>>]
           Q == {h \in 0 .. n : Good(h)}
<1>1. K \in Nat /\ n \in Nat /\ n <= K /\ Inf \in Nat /\ b \in Nat /\ b <= Inf
  BY Sizes
<1>2. \A h \in 0 .. K : \A u, v \in Vertices : D[h][<<u, v>>] \in Nat /\ D[h][<<u, v>>] <= Inf
  BY DistSteps
<1>2a. \A y \in Vertices : \A h \in 0 .. K : distAtHop[y][h] \in Nat
  <2> SUFFICES ASSUME NEW y \in Vertices, NEW h \in 0 .. K PROVE distAtHop[y][h] \in Nat
    OBVIOUS
  <2>1. distAtHop[y] \in [0 .. K -> 0 .. Inf]
    BY DEF Tables
  <2>2. distAtHop[y][h] \in 0 .. Inf
    BY <2>1
  <2> QED BY <1>1, <2>2
<1>3. 0 \in Q
  <2> SUFFICES ASSUME NEW v \in Vertices, D[0][<<a, v>>] < b
               PROVE  distAtHop[v][0] <= D[0][<<a, v>>]
    BY <1>1
  <2>1. D[0][<<a, v>>] = IF a = v THEN 0 ELSE Inf
    BY DistSteps
  <2>2. a = v /\ D[0][<<a, v>>] = 0
    BY <1>1, <2>1
  <2> QED BY <2>2 DEF AtSource
<1>4. ASSUME NEW h \in 0 .. n - 1, h \in Q PROVE h + 1 \in Q
  <2> DEFINE m == h + 1
  <2>0. m \in 1 .. K /\ m - 1 = h /\ m \in 0 .. n /\ h \in 0 .. K /\ m \in 0 .. K /\ h < n /\ m \in Nat
    BY <1>1
  <2>1. Good(h)
    BY <1>4
  <2>1a. Good(m) => m \in Q
    BY <2>0
  <2> HIDE DEF m, Q
  <2> SUFFICES ASSUME NEW v \in Vertices, D[m][<<a, v>>] < b
               PROVE  \E e \in 0 .. m : distAtHop[v][e] <= D[m][<<a, v>>]
    BY <2>1a DEF m
  <2>2. \/ D[m][<<a, v>>] = D[h][<<a, v>>]
        \/ D[m][<<a, v>>] = Inf
        \/ \E y \in Nbrs(g, v) : D[m][<<a, v>>] = D[h][<<a, y>>] + g[<<y, v>>]
    <3>1. \/ D[m][<<a, v>>] = D[m - 1][<<a, v>>]
          \/ D[m][<<a, v>>] = Inf
          \/ \E y \in Nbrs(g, v) : D[m][<<a, v>>] = D[m - 1][<<a, y>>] + g[<<y, v>>]
      BY <2>0, DistSteps
    <3> QED BY <2>0, <3>1
  <2>3. ASSUME D[m][<<a, v>>] = D[h][<<a, v>>]
        PROVE  \E e \in 0 .. m : distAtHop[v][e] <= D[m][<<a, v>>]
    <3>1. D[h][<<a, v>>] < b
      BY <2>3
    <3>2. PICK e \in 0 .. h : distAtHop[v][e] <= D[h][<<a, v>>]
      BY <2>1, <3>1
    <3>3. e \in 0 .. m
      BY <2>0
    <3> QED BY <2>3, <3>2, <3>3
  <2>4. ASSUME NEW y \in Nbrs(g, v), D[m][<<a, v>>] = D[h][<<a, y>>] + g[<<y, v>>]
        PROVE  \E e \in 0 .. m : distAtHop[v][e] <= D[m][<<a, v>>]
    <3>1. y \in Vertices /\ g[<<y, v>>] \in Nat /\ v \in Nbrs(g, y)
      BY DEF Nbrs, Undirected
    <3>2. D[h][<<a, y>>] \in Nat /\ D[h][<<a, y>>] < b /\ D[h][<<a, y>>] <= D[m][<<a, v>>]
      <4>1. D[h][<<a, y>>] \in Nat /\ D[m][<<a, v>>] \in Nat
        BY <1>2, <2>0, <3>1
      <4> QED BY <1>1, <2>4, <3>1, <4>1
    <3>3. PICK e \in 0 .. h : distAtHop[y][e] <= D[h][<<a, y>>]
      BY <2>1, <3>1, <3>2
    <3>4. e \in 0 .. K /\ e + 1 \in 0 .. m /\ e + 1 \in 0 .. K /\ ~(e >= n) /\ e \in Nat
      BY <1>1, <2>0
    <3>5. distAtHop[y][e] \in Nat /\ distAtHop[v][e + 1] \in Nat
      BY <1>2a, <3>1, <3>4
    <3>6. distAtHop[y][e] < Inf /\ distAtHop[y][e] < b
      BY <1>1, <3>2, <3>3, <3>5
    <3>7. <<distAtHop[y][e], e, y>> \notin pq
      BY <1>1, <3>5, <3>6
    <3>8. distAtHop[v][e + 1] <= distAtHop[y][e] + g[<<y, v>>]
      BY <3>1, <3>4, <3>6, <3>7 DEF Waits, Relaxed
    <3>9. distAtHop[v][e + 1] <= D[m][<<a, v>>]
      BY <2>4, <3>1, <3>2, <3>3, <3>5, <3>8
    <3> QED BY <3>4, <3>9
  <2>5. D[m][<<a, v>>] # Inf
    <3>1. D[m][<<a, v>>] \in Nat
      BY <1>2, <2>0
    <3> QED BY <1>1, <3>1
  <2> QED BY <2>2, <2>3, <2>4, <2>5
<1>5. 0 .. n \subseteq Q
  <2> HIDE DEF Q
  <2> QED BY <1>1, <1>3, <1>4, UpTo
<1> QED BY <1>5

(* When the queue is empty the reference is exact where it is read, and it *)
(* has found its terminal if there is a way.                               *)
LEMMA ExactAtEnd ==
  ASSUME NEW g, Undirected(g), NEW D, D = HopDist(g), NEW a \in Vertices,
         NEW c \in Vertices \cup {-1}, NEW n \in 0 .. K,
         Searching(g, D, a, c, n), pq = {}
  PROVE  /\ \A v \in Vertices : c \in {v, -1} => distance[v] = D[n][<<a, v>>]
         /\ final = -1 => c = -1 \/ D[n][<<a, c>>] = Inf
         /\ final # -1 => Arrived(D, a, c, n)
<1>1. K \in Nat /\ n \in Nat /\ n <= K /\ Inf \in Nat /\ -1 \notin Vertices
  BY Sizes DEF Vertices
<1>2. \A v \in Vertices : D[n][<<a, v>>] \in Nat /\ D[n][<<a, v>>] <= Inf
  BY DistSteps
<1>3. \A v \in Vertices : distance[v] \in Nat /\ D[n][<<a, v>>] <= distance[v]
  <2> SUFFICES ASSUME NEW v \in Vertices PROVE distance[v] \in Nat /\ D[n][<<a, v>>] <= distance[v]
    OBVIOUS
  <2>1. distance[v] \in 0 .. Inf
    BY DEF Searching, Tables
  <2> QED BY <1>1, <2>1 DEF Searching, NotLess
<1>4. CASE final = -1 /\ Waits(g, c, n)
  <2>1. \A h \in 0 .. n : \A v \in Vertices : D[h][<<a, v>>] < Inf =>
          \E e \in 0 .. h : distAtHop[v][e] <= D[h][<<a, v>>]
    <3>1. \A x \in pq : Inf <= x[1]
      OBVIOUS
    <3>2. Tables /\ AtSource(a) /\ Queue(n)
      BY DEF Searching
    <3>3. Inf \in 0 .. Inf
      BY <1>1
    <3> QED BY <1>4, <3>1, <3>2, <3>3, Reached
  <2>2. ASSUME NEW v \in Vertices, D[n][<<a, v>>] < Inf
        PROVE  \E e \in 0 .. K : /\ distAtHop[v][e] \in Nat /\ distAtHop[v][e] <= D[n][<<a, v>>]
                                 /\ distance[v] <= distAtHop[v][e]
    <3>1. PICK e \in 0 .. n : distAtHop[v][e] <= D[n][<<a, v>>]
      BY <1>1, <2>1, <2>2
    <3>2. e \in 0 .. K
      BY <1>1
    <3>3. distAtHop[v] \in [0 .. K -> 0 .. Inf]
      BY DEF Searching, Tables
    <3>4. distAtHop[v][e] \in 0 .. Inf
      BY <3>2, <3>3
    <3>5. distance[v] <= distAtHop[v][e]
      BY <3>2 DEF Searching, NotLess
    <3> QED BY <1>1, <3>1, <3>2, <3>4, <3>5
  <2>3. ASSUME NEW v \in Vertices PROVE distance[v] = D[n][<<a, v>>]
    <3>1. CASE D[n][<<a, v>>] < Inf
      <4>1. PICK e \in 0 .. K : /\ distAtHop[v][e] \in Nat /\ distAtHop[v][e] <= D[n][<<a, v>>]
                                /\ distance[v] <= distAtHop[v][e]
        BY <2>2, <3>1
      <4> QED BY <1>2, <1>3, <4>1
    <3>2. CASE ~(D[n][<<a, v>>] < Inf)
      <4>1. distance[v] \in 0 .. Inf
        BY DEF Searching, Tables
      <4> QED BY <1>1, <1>2, <1>3, <3>2, <4>1
    <3> QED BY <3>1, <3>2
  <2>4. c = -1 \/ D[n][<<a, c>>] = Inf
    <3> SUFFICES ASSUME c \in Vertices, D[n][<<a, c>>] # Inf PROVE FALSE
      OBVIOUS
    <3>1. D[n][<<a, c>>] < Inf
      BY <1>1, <1>2
    <3>2. PICK e \in 0 .. K : distAtHop[c][e] \in Nat /\ distAtHop[c][e] <= D[n][<<a, c>>]
      BY <2>2, <3>1
    <3>3. distAtHop[c][e] < Inf
      BY <1>1, <1>2, <3>1, <3>2
    <3> QED BY <1>4, <3>3 DEF Waits
  <2> QED BY <1>1, <1>4, <2>3, <2>4
<1>5. CASE Arrived(D, a, c, n)
  <2>1. final # -1 /\ c # -1 /\ c \in Vertices
    BY <1>1, <1>5 DEF Arrived
  <2> QED BY <1>5, <2>1 DEF Arrived
<1> QED BY <1>4, <1>5 DEF Searching
-----------------------------------------------------------------------------
(* The steps of the reference.                                             *)
LEMMA CallSearches ==
  ASSUME NEW g, Undirected(g), NEW D, D = HopDist(g), NEW a \in Vertices, NEW c,
         NEW n \in 0 .. K, Reference!Call(a)
  PROVE  Searching(g, D, a, c, n)'
<1>1. K \in Nat /\ n \in Nat /\ n <= K /\ Inf \in Nat /\ Inf > 0 /\ 0 \in 0 .. K
  BY Sizes
<1>2. \A h \in 0 .. K : \A u, v \in Vertices : D[h][<<u, v>>] \in Nat /\ D[h][<<u, v>>] <= Inf
  BY DistSteps
<1>3. D[0][<<a, a>>] = 0
  BY DistSteps
<1>4. D[n][<<a, a>>] = 0
  <2>1. D[n][<<a, a>>] <= D[0][<<a, a>>]
    BY <1>1, DistMonotone
  <2> QED BY <1>2, <1>3, <2>1
<1>5. /\ pq' = {<<0, 0, a>>} /\ final' = -1
      /\ distAtHop' = [v \in Vertices |-> [h \in 0 .. K |-> IF v = a /\ h = 0 THEN 0 ELSE Inf]]
      /\ distance' = [v \in Vertices |-> IF v = a THEN 0 ELSE Inf]
      /\ parent' = [v \in Vertices |-> [h \in 0 .. K |-> -1]]
  BY SameReference DEF Reference!Call, Reference!NoParent
<1>6. \A v \in Vertices : \A h \in 0 .. K : distAtHop'[v][h] = IF v = a /\ h = 0 THEN 0 ELSE Inf
  BY <1>5
<1>7. Tables'
  BY <1>1, <1>5 DEF Tables
<1>8. AtSource(a)'
  BY <1>1, <1>6 DEF AtSource
<1>9. NotLess(D, a, n)'
  <2>1. ASSUME NEW v \in Vertices, NEW h \in 0 .. K
        PROVE  /\ distAtHop'[v][h] < Inf => h <= n
               /\ D[h][<<a, v>>] <= distAtHop'[v][h]
               /\ distance'[v] <= distAtHop'[v][h]
    <3>1. distance'[v] = IF v = a THEN 0 ELSE Inf
      BY <1>5
    <3>2. CASE v = a /\ h = 0
      BY <1>1, <1>3, <1>6, <3>1, <3>2
    <3>3. CASE ~(v = a /\ h = 0)
      <4>1. distAtHop'[v][h] = Inf
        BY <1>6, <3>3
      <4> QED BY <1>1, <1>2, <3>1, <4>1
    <3> QED BY <3>2, <3>3
  <2>2. ASSUME NEW v \in Vertices PROVE D[n][<<a, v>>] <= distance'[v]
    <3>1. distance'[v] = IF v = a THEN 0 ELSE Inf
      BY <1>5
    <3>2. D[n][<<a, v>>] \in Nat /\ D[n][<<a, v>>] <= Inf
      BY <1>2
    <3> QED BY <1>1, <1>4, <3>1, <3>2
  <2> QED BY <2>1, <2>2 DEF NotLess
<1>10. ByParents(g)'
  BY <1>1, <1>6 DEF ByParents
<1>11. Queue(n)'
  <2>1. distAtHop'[a][0] = 0
    BY <1>1, <1>6
  <2>2. <<0, 0, a>> \in (0 .. Inf - 1) \X (0 .. n) \X Vertices
    BY <1>1
  <2>3. <<0, 0, a>>[1] = 0 /\ <<0, 0, a>>[2] = 0 /\ <<0, 0, a>>[3] = a
    OBVIOUS
  <2>4. distAtHop'[<<0, 0, a>>[3]][<<0, 0, a>>[2]] <= <<0, 0, a>>[1]
    BY <2>1, <2>3
  <2> QED BY <1>5, <2>2, <2>4 DEF Queue
<1>12. Waits(g, c, n)'
  <2> SUFFICES ASSUME NEW v \in Vertices, NEW h \in 0 .. K, distAtHop'[v][h] < Inf
               PROVE  <<distAtHop'[v][h], h, v>> \in pq'
    BY DEF Waits
  <2>1. v = a /\ h = 0
    BY <1>1, <1>6
  <2> QED BY <1>5, <1>6, <2>1
<1> QED BY <1>5, <1>7, <1>8, <1>9, <1>10, <1>11, <1>12 DEF Searching

(* The state on top of the queue.                                          *)
LEMMA TopIs ==
  ASSUME NEW n \in 0 .. K, Tables, Queue(n), NEW x, Reference!IsTop(x)
  PROVE  /\ x[1] \in Nat /\ x[1] < Inf /\ x[2] \in 0 .. n /\ x[2] \in 0 .. K /\ x[3] \in Vertices
         /\ x \in pq /\ x = <<x[1], x[2], x[3]>>
         /\ distAtHop[x[3]][x[2]] \in Nat /\ distAtHop[x[3]][x[2]] <= x[1]
         /\ \A y \in pq : x[1] <= y[1]
<1>1. K \in Nat /\ n \in Nat /\ n <= K /\ Inf \in Nat
  BY Sizes
<1>2. \A y \in pq : y[1] \in Nat /\ y \in (0 .. Inf - 1) \X (0 .. n) \X Vertices
  BY <1>1 DEF Queue
<1>3. x \in pq /\ \A y \in pq : ~(y[1] < x[1])
  BY DEF Reference!IsTop, Reference!Less
<1>4. x[1] \in 0 .. Inf - 1 /\ x[2] \in 0 .. n /\ x[3] \in Vertices /\ x = <<x[1], x[2], x[3]>>
  BY <1>2, <1>3
<1>5. x[1] \in Nat /\ x[1] < Inf /\ x[2] \in 0 .. K
  BY <1>1, <1>4
<1>6. distAtHop[x[3]][x[2]] \in 0 .. Inf
  <2>1. distAtHop[x[3]] \in [0 .. K -> 0 .. Inf]
    BY <1>4 DEF Tables
  <2> QED BY <1>5, <2>1
<1>7. distAtHop[x[3]][x[2]] <= x[1]
  BY <1>3 DEF Queue
<1>8. \A y \in pq : x[1] <= y[1]
  BY <1>2, <1>3, <1>5
<1> QED BY <1>1, <1>3, <1>4, <1>5, <1>6, <1>7, <1>8

LEMMA ArriveSearches ==
  ASSUME NEW g, Undirected(g), NEW D, D = HopDist(g), NEW a \in Vertices,
         NEW c \in Vertices \cup {-1}, NEW n \in 0 .. K,
         Searching(g, D, a, c, n), Reference!Arrive(c)
  PROVE  Searching(g, D, a, c, n)'
<1>1. K \in Nat /\ n \in Nat /\ n <= K /\ Inf \in Nat /\ -1 \notin Vertices
  BY Sizes DEF Vertices
<1>2. PICK x \in pq : Reference!IsTop(x) /\ x[3] = c /\ final' = x[2]
  BY DEF Reference!Arrive
<1>3. pq' = {} /\ UNCHANGED <<distAtHop, distance, parent>>
  BY DEF Reference!Arrive, Reference!tables
<1>4. Tables /\ AtSource(a) /\ Queue(n) /\ NotLess(D, a, n) /\ Waits(g, c, n)
  BY <1>2 DEF Searching, Arrived
<1>5. /\ x[1] \in Nat /\ x[1] < Inf /\ x[2] \in 0 .. n /\ x[2] \in 0 .. K /\ c \in Vertices
      /\ distAtHop[c][x[2]] \in Nat /\ distAtHop[c][x[2]] <= x[1]
      /\ \A y \in pq : x[1] <= y[1]
  BY <1>2, <1>4, TopIs
<1>6. D[n][<<a, c>>] \in Nat /\ distance[c] \in Nat
  <2>1. D[n][<<a, c>>] \in Nat
    BY <1>5, DistSteps
  <2>2. distance[c] \in 0 .. Inf
    BY <1>4, <1>5 DEF Tables
  <2> QED BY <1>1, <2>1, <2>2
<1>7. D[n][<<a, c>>] <= distance[c] /\ distance[c] <= distAtHop[c][x[2]]
  BY <1>4, <1>5 DEF NotLess
<1>8. ~(D[n][<<a, c>>] < x[1])
  <2> SUFFICES ASSUME D[n][<<a, c>>] < x[1] PROVE FALSE
    OBVIOUS
  <2>1. \A h \in 0 .. n : \A v \in Vertices : D[h][<<a, v>>] < x[1] =>
          \E e \in 0 .. h : distAtHop[v][e] <= D[h][<<a, v>>]
    <3>1. x[1] \in 0 .. Inf
      BY <1>1, <1>5
    <3> QED BY <1>4, <1>5, <3>1, Reached
  <2>2. PICK e \in 0 .. n : distAtHop[c][e] <= D[n][<<a, c>>]
    BY <1>1, <1>5, <2>1
  <2>3. e \in 0 .. K
    BY <1>1
  <2>4. distAtHop[c][e] \in Nat
    <3>1. distAtHop[c] \in [0 .. K -> 0 .. Inf]
      BY <1>4, <1>5 DEF Tables
    <3>2. distAtHop[c][e] \in 0 .. Inf
      BY <2>3, <3>1
    <3> QED BY <1>1, <3>2
  <2>5. distAtHop[c][e] < x[1] /\ distAtHop[c][e] < Inf
    BY <1>1, <1>5, <1>6, <2>2, <2>4
  <2>6. <<distAtHop[c][e], e, c>> \in pq
    BY <1>4, <1>5, <2>3, <2>5 DEF Waits
  <2>7. x[1] <= distAtHop[c][e]
    BY <1>5, <2>6
  <2> QED BY <1>5, <2>4, <2>5, <2>7
<1>9. distAtHop[c][x[2]] = D[n][<<a, c>>] /\ distance[c] = D[n][<<a, c>>] /\ distAtHop[c][x[2]] < Inf
  BY <1>1, <1>5, <1>6, <1>7, <1>8
<1>10. Arrived(D, a, c, n)'
  BY <1>2, <1>3, <1>5, <1>9 DEF Arrived
<1>11. Tables' /\ AtSource(a)' /\ NotLess(D, a, n)' /\ ByParents(g)'
  BY <1>3 DEF Searching, Tables, AtSource, NotLess, ByParents
<1>12. Queue(n)'
  BY <1>3 DEF Queue
<1> QED BY <1>10, <1>11, <1>12 DEF Searching

LEMMA DiscardSearches ==
  ASSUME NEW g, NEW D, NEW a, NEW c, NEW n \in 0 .. K,
         Searching(g, D, a, c, n), Reference!Discard(c, n)
  PROVE  Searching(g, D, a, c, n)'
<1>1. PICK x \in pq : /\ Reference!IsTop(x) /\ x[3] # c
                      /\ x[1] > distAtHop[x[3]][x[2]] \/ x[2] >= n
                      /\ pq' = pq \ {x}
  BY DEF Reference!Discard, Reference!Stale
<1>2. UNCHANGED <<distAtHop, distance, parent, final>>
  BY DEF Reference!Discard, Reference!tables
<1>3. final = -1 /\ Waits(g, c, n) /\ Queue(n) /\ Tables
  BY <1>1 DEF Searching, Arrived
<1>4. Tables' /\ AtSource(a)' /\ NotLess(D, a, n)' /\ ByParents(g)'
  BY <1>2 DEF Searching, Tables, AtSource, NotLess, ByParents
<1>5. Queue(n)'
  BY <1>1, <1>2, <1>3 DEF Queue
<1>6. /\ x[1] \in Nat /\ x[2] \in 0 .. n /\ x[2] \in 0 .. K /\ distAtHop[x[3]][x[2]] \in Nat
  BY <1>1, <1>3, TopIs
<1>7. Waits(g, c, n)'
  <2> SUFFICES ASSUME NEW v \in Vertices, NEW h \in 0 .. K, distAtHop[v][h] < Inf
               PROVE  <<distAtHop[v][h], h, v>> \in pq' \/ (v # c /\ Relaxed(g, n, v, h))
    BY <1>2 DEF Waits, Relaxed
  <2>1. CASE x = <<distAtHop[v][h], h, v>>
    <3>1. x[1] = distAtHop[v][h] /\ x[2] = h /\ x[3] = v
      BY <2>1
    <3>2. v # c /\ h >= n
      BY <1>1, <1>6, <3>1
    <3> QED BY <3>2 DEF Relaxed
  <2>2. CASE x # <<distAtHop[v][h], h, v>>
    BY <1>1, <1>3, <2>2 DEF Waits
  <2> QED BY <2>1, <2>2
<1> QED BY <1>2, <1>3, <1>4, <1>5, <1>7 DEF Searching

(* What an expansion writes.  x is the state on top, d, h, u its parts.    *)
Improves(g, d, h, u) == {v \in Nbrs(g, u) : d + g[<<u, v>>] < distAtHop[v][h + 1]}
Writes(g, d, h, u) ==
  LET imp == Improves(g, d, h, u) IN
  /\ pq' = (pq \ {<<d, h, u>>}) \cup {<<d + g[<<u, v>>], h + 1, v>> : v \in imp}
  /\ \A v \in Vertices : \A e \in 0 .. K :
       distAtHop'[v][e] = IF v \in imp /\ e = h + 1 THEN d + g[<<u, v>>] ELSE distAtHop[v][e]
  /\ \A v \in Vertices : \A e \in 0 .. K :
       parent'[v][e] = IF v \in imp /\ e = h + 1 THEN u ELSE parent[v][e]
  /\ \A v \in Vertices :
       /\ v \in imp => distance'[v] = Min({distance[v], d + g[<<u, v>>]})
       /\ v \notin imp => distance'[v] = distance[v]
  /\ final' = final

(* The smaller of two.                                                     *)
LEMMA Smaller ==
  ASSUME NEW m \in Nat, NEW o \in Nat
  PROVE  Min({m, o}) \in {m, o} /\ Min({m, o}) <= m /\ Min({m, o}) <= o
BY MinNatural

LEMMA ExpandWrites ==
  ASSUME NEW g, Undirected(g), w = g, NEW D, NEW a, NEW c, NEW n \in 0 .. K,
         Searching(g, D, a, c, n), Reference!Expand(c, n)
  PROVE  \E d \in 0 .. Inf - 1, h \in 0 .. n - 1, u \in Vertices :
           /\ <<d, h, u>> \in pq /\ d = distAtHop[u][h] /\ u # c
           /\ Writes(g, d, h, u) /\ Tables'
<1>1. K \in Nat /\ n \in Nat /\ n <= K /\ Inf \in Nat
  BY Sizes
<1> DEFINE New(x, v) == x[1] + w[<<x[3], v>>]
           Imp(x) == Reference!Improved(x[1], x[2], x[3])
<1>a. PICK x \in pq :
        /\ Reference!IsTop(x) /\ x[3] # c /\ ~Reference!Stale(x[1], x[2], x[3]) /\ x[2] < n
        /\ pq' = (pq \ {x}) \cup {<<New(x, v), x[2] + 1, v>> : v \in Imp(x)}
        /\ distAtHop' = [v \in Reference!Vertices |->
             IF v \in Imp(x) THEN [distAtHop[v] EXCEPT ![x[2] + 1] = New(x, v)]
             ELSE distAtHop[v]]
        /\ distance' = [v \in Reference!Vertices |->
             IF v \in Imp(x) THEN Reference!Min({distance[v], New(x, v)}) ELSE distance[v]]
        /\ parent' = [v \in Reference!Vertices |->
             IF v \in Imp(x) THEN [parent[v] EXCEPT ![x[2] + 1] = x[3]]
             ELSE parent[v]]
  BY Zenon DEF Reference!Expand
<1>2. /\ Reference!IsTop(x) /\ x[3] # c /\ ~(x[1] > distAtHop[x[3]][x[2]]) /\ x[2] < n
      /\ pq' = (pq \ {x}) \cup {<<New(x, v), x[2] + 1, v>> : v \in Imp(x)}
      /\ distAtHop' = [v \in Vertices |->
           IF v \in Imp(x) THEN [distAtHop[v] EXCEPT ![x[2] + 1] = New(x, v)]
           ELSE distAtHop[v]]
      /\ distance' = [v \in Vertices |->
           IF v \in Imp(x) THEN Min({distance[v], New(x, v)}) ELSE distance[v]]
      /\ parent' = [v \in Vertices |->
           IF v \in Imp(x) THEN [parent[v] EXCEPT ![x[2] + 1] = x[3]]
           ELSE parent[v]]
  <2> HIDE DEF Imp, New
  <2>1. Reference!Vertices = Vertices
    BY SameReference
  <2>2. \A v : Reference!Min({distance[v], New(x, v)}) = Min({distance[v], New(x, v)})
    BY SameReference, Zenon
  <2>3. ~(x[1] > distAtHop[x[3]][x[2]])
    BY <1>a DEF Reference!Stale
  <2> QED BY <1>a, <2>1, <2>2, <2>3
<1>3. Tables /\ Queue(n)
  BY DEF Searching
<1>4. /\ x[1] \in Nat /\ x[1] < Inf /\ x[2] \in 0 .. n /\ x[2] \in 0 .. K /\ x[3] \in Vertices
      /\ distAtHop[x[3]][x[2]] \in Nat /\ distAtHop[x[3]][x[2]] <= x[1]
      /\ x = <<x[1], x[2], x[3]>>
  BY <1>2, <1>3, TopIs
<1> DEFINE d == x[1]
           h == x[2]
           u == x[3]
<1>5. d \in 0 .. Inf - 1 /\ h \in 0 .. n - 1 /\ u \in Vertices /\ h + 1 \in 0 .. K /\ d \in Nat
  BY <1>1, <1>2, <1>4
<1>6. Imp(x) = Improves(g, d, h, u) /\ Imp(x) \subseteq Nbrs(g, u)
  BY SameReference DEF Reference!Improved, Improves
<1>7. x = <<d, h, u>> /\ d = distAtHop[u][h] /\ u # c
  <2>1. ~(x[1] > distAtHop[x[3]][x[2]]) /\ x[3] # c
    BY <1>2
  <2>2. x[1] = distAtHop[x[3]][x[2]]
    BY <1>4, <2>1
  <2> QED BY <1>4, <2>1, <2>2
<1>8. /\ distAtHop \in [Vertices -> [0 .. K -> 0 .. Inf]] /\ distance \in [Vertices -> 0 .. Inf]
      /\ parent \in [Vertices -> [0 .. K -> Vertices \cup {-1}]]
  BY <1>3 DEF Tables
<1>9. \A v \in Imp(x) : v \in Vertices /\ g[<<u, v>>] \in Nat /\ d + g[<<u, v>>] \in 0 .. Inf
  <2> SUFFICES ASSUME NEW v \in Imp(x)
               PROVE  v \in Vertices /\ g[<<u, v>>] \in Nat /\ d + g[<<u, v>>] \in 0 .. Inf
    OBVIOUS
  <2>1. v \in Vertices /\ g[<<u, v>>] \in Nat
    BY <1>4, <1>6 DEF Nbrs, Undirected
  <2>2. d + g[<<u, v>>] < distAtHop[v][h + 1]
    BY <1>6 DEF Improves
  <2>3. distAtHop[v][h + 1] \in 0 .. Inf
    <3>1. distAtHop[v] \in [0 .. K -> 0 .. Inf]
      BY <1>8, <2>1
    <3> QED BY <1>5, <3>1
  <2> QED BY <1>1, <1>5, <2>1, <2>2, <2>3
<1>10. \A v \in Vertices : \A e \in 0 .. K :
         distAtHop'[v][e] = IF v \in Imp(x) /\ e = h + 1 THEN d + g[<<u, v>>] ELSE distAtHop[v][e]
  <2> HIDE DEF Imp
  <2> QED BY <1>2, <1>8
<1>11. \A v \in Vertices : \A e \in 0 .. K :
         parent'[v][e] = IF v \in Imp(x) /\ e = h + 1 THEN u ELSE parent[v][e]
  <2> HIDE DEF Imp
  <2> QED BY <1>2, <1>8
<1>12. \A v \in Vertices : /\ v \in Imp(x) => distance'[v] = Min({distance[v], d + g[<<u, v>>]})
                           /\ v \notin Imp(x) => distance'[v] = distance[v]
  <2> HIDE DEF Imp
  <2> QED BY <1>2
<1>13. pq' = (pq \ {<<d, h, u>>}) \cup {<<d + g[<<u, v>>], h + 1, v>> : v \in Imp(x)}
  <2> HIDE DEF Imp
  <2> QED BY <1>2, <1>7
<1>14. final' = final
  BY DEF Reference!Expand
<1>15. Writes(g, d, h, u)
  <2> HIDE DEF Imp, d, h, u
  <2> QED BY <1>6, <1>10, <1>11, <1>12, <1>13, <1>14 DEF Writes
<1>16. Tables'
  <2>1. distAtHop' \in [Vertices -> [0 .. K -> 0 .. Inf]]
    <3>1. ASSUME NEW v \in Vertices PROVE distAtHop'[v] \in [0 .. K -> 0 .. Inf]
      <4>1. distAtHop[v] \in [0 .. K -> 0 .. Inf]
        BY <1>8
      <4>2. CASE v \in Imp(x)
        <5>1. distAtHop'[v] = [distAtHop[v] EXCEPT ![h + 1] = d + g[<<u, v>>]]
          <6> HIDE DEF Imp
          <6> QED BY <1>2, <4>2
        <5>2. d + g[<<u, v>>] \in 0 .. Inf
          BY <1>9, <4>2
        <5> QED BY <4>1, <5>1, <5>2
      <4>3. CASE v \notin Imp(x)
        <5>1. distAtHop'[v] = distAtHop[v]
          <6> HIDE DEF Imp
          <6> QED BY <1>2, <4>3
        <5> QED BY <4>1, <5>1
      <4> QED BY <4>2, <4>3
    <3>2. distAtHop' = [v \in Vertices |-> distAtHop'[v]]
      <4> HIDE DEF Imp, New
      <4> QED BY <1>2
    <3> QED BY <3>1, <3>2
  <2>2. distance' \in [Vertices -> 0 .. Inf]
    <3>1. ASSUME NEW v \in Vertices
          PROVE  (IF v \in Imp(x) THEN Min({distance[v], New(x, v)}) ELSE distance[v]) \in 0 .. Inf
      <4>1. distance[v] \in 0 .. Inf /\ distance[v] \in Nat
        BY <1>1, <1>8
      <4>2. CASE v \in Imp(x)
        <5>1. New(x, v) \in 0 .. Inf /\ New(x, v) \in Nat
          BY <1>1, <1>9, <4>2
        <5> HIDE DEF New, Imp
        <5>2. Min({distance[v], New(x, v)}) \in {distance[v], New(x, v)}
          BY <4>1, <5>1, Smaller
        <5> QED BY <4>1, <4>2, <5>1, <5>2
      <4> QED BY <4>1, <4>2
    <3> HIDE DEF Imp, New
    <3> QED BY <1>2, <3>1
  <2>3. parent' \in [Vertices -> [0 .. K -> Vertices \cup {-1}]]
    <3>1. ASSUME NEW v \in Vertices
          PROVE  (IF v \in Imp(x) THEN [parent[v] EXCEPT ![x[2] + 1] = x[3]] ELSE parent[v])
                   \in [0 .. K -> Vertices \cup {-1}]
      <4>1. parent[v] \in [0 .. K -> Vertices \cup {-1}]
        BY <1>8
      <4> HIDE DEF Imp
      <4> QED BY <1>4, <4>1
    <3> HIDE DEF Imp
    <3> QED BY <1>2, <3>1
  <2> QED BY <2>1, <2>2, <2>3 DEF Tables
<1> QED BY <1>5, <1>7, <1>2, <1>15, <1>16

LEMMA ExpandSearches ==
  ASSUME NEW g, Undirected(g), w = g, NEW D, D = HopDist(g), NEW a \in Vertices, NEW c, NEW n \in 0 .. K,
         Searching(g, D, a, c, n), Reference!Expand(c, n)
  PROVE  Searching(g, D, a, c, n)'
<1>1. K \in Nat /\ n \in Nat /\ n <= K /\ Inf \in Nat
  BY Sizes
<1>2. PICK d \in 0 .. Inf - 1, h \in 0 .. n - 1, u \in Vertices :
        /\ <<d, h, u>> \in pq /\ d = distAtHop[u][h] /\ u # c
        /\ Writes(g, d, h, u) /\ Tables'
  BY ExpandWrites
<1> DEFINE imp == Improves(g, d, h, u)
<1>3. /\ pq' = (pq \ {<<d, h, u>>}) \cup {<<d + g[<<u, v>>], h + 1, v>> : v \in imp}
      /\ \A v \in Vertices : \A e \in 0 .. K :
           distAtHop'[v][e] = IF v \in imp /\ e = h + 1 THEN d + g[<<u, v>>] ELSE distAtHop[v][e]
      /\ \A v \in Vertices : \A e \in 0 .. K :
           parent'[v][e] = IF v \in imp /\ e = h + 1 THEN u ELSE parent[v][e]
      /\ \A v \in Vertices :
           /\ v \in imp => distance'[v] = Min({distance[v], d + g[<<u, v>>]})
           /\ v \notin imp => distance'[v] = distance[v]
      /\ final' = final
  BY <1>2 DEF Writes
<1>4. /\ d \in Nat /\ d < Inf /\ h \in Nat /\ h \in 0 .. K /\ h + 1 \in 0 .. K /\ h + 1 \in 1 .. K
      /\ h + 1 <= n /\ h < n /\ h + 1 \in 0 .. n /\ (h + 1) - 1 = h
  BY <1>1
<1>5. /\ Tables /\ AtSource(a) /\ NotLess(D, a, n) /\ ByParents(g) /\ Queue(n)
      /\ Waits(g, c, n) /\ final = -1
  BY <1>2 DEF Searching, Arrived
<1>6. \A v \in Vertices : \A e \in 0 .. K : distAtHop[v][e] \in Nat /\ distAtHop[v][e] <= Inf
  <2> SUFFICES ASSUME NEW v \in Vertices, NEW e \in 0 .. K
               PROVE  distAtHop[v][e] \in Nat /\ distAtHop[v][e] <= Inf
    OBVIOUS
  <2>1. distAtHop[v] \in [0 .. K -> 0 .. Inf]
    BY <1>5 DEF Tables
  <2>2. distAtHop[v][e] \in 0 .. Inf
    BY <2>1
  <2> QED BY <1>1, <2>2
<1>7. \A v \in imp : /\ v \in Vertices /\ v \in Nbrs(g, u) /\ u \in Nbrs(g, v) /\ g[<<u, v>>] \in Nat
                     /\ d + g[<<u, v>>] < distAtHop[v][h + 1] /\ d + g[<<u, v>>] < Inf
                     /\ d + g[<<u, v>>] \in Nat
  <2> SUFFICES ASSUME NEW v \in imp
               PROVE  /\ v \in Vertices /\ v \in Nbrs(g, u) /\ u \in Nbrs(g, v) /\ g[<<u, v>>] \in Nat
                      /\ d + g[<<u, v>>] < distAtHop[v][h + 1] /\ d + g[<<u, v>>] < Inf
                      /\ d + g[<<u, v>>] \in Nat
    OBVIOUS
  <2>1. v \in Nbrs(g, u) /\ d + g[<<u, v>>] < distAtHop[v][h + 1]
    BY DEF Improves
  <2>2. v \in Vertices /\ u \in Nbrs(g, v) /\ g[<<u, v>>] \in Nat
    BY <2>1 DEF Nbrs, Undirected
  <2>3. distAtHop[v][h + 1] \in Nat /\ distAtHop[v][h + 1] <= Inf
    BY <1>4, <1>6, <2>2
  <2> QED BY <1>1, <1>4, <2>1, <2>2, <2>3
<1>8. \A v \in Nbrs(g, u) : v \notin imp => distAtHop[v][h + 1] <= d + g[<<u, v>>]
  <2> SUFFICES ASSUME NEW v \in Nbrs(g, u), v \notin imp
               PROVE  distAtHop[v][h + 1] <= d + g[<<u, v>>]
    OBVIOUS
  <2>1. v \in Vertices /\ g[<<u, v>>] \in Nat
    BY DEF Nbrs, Undirected
  <2>2. distAtHop[v][h + 1] \in Nat
    BY <1>4, <1>6, <2>1
  <2>3. ~(d + g[<<u, v>>] < distAtHop[v][h + 1])
    BY DEF Improves
  <2> QED BY <1>4, <2>1, <2>2, <2>3
<1> HIDE DEF imp
(* Nothing known grows, and the state expanded stays as it is.             *)
<1>9. \A v \in Vertices : \A e \in 0 .. K :
        /\ distAtHop'[v][e] \in Nat /\ distAtHop'[v][e] <= distAtHop[v][e]
        /\ distAtHop'[v][e] <= Inf
        /\ ~(v \in imp /\ e = h + 1) => distAtHop'[v][e] = distAtHop[v][e]
        /\ v \in imp /\ e = h + 1 => distAtHop'[v][e] = d + g[<<u, v>>]
  <2> SUFFICES ASSUME NEW v \in Vertices, NEW e \in 0 .. K
               PROVE  /\ distAtHop'[v][e] \in Nat /\ distAtHop'[v][e] <= distAtHop[v][e]
                      /\ distAtHop'[v][e] <= Inf
                      /\ ~(v \in imp /\ e = h + 1) => distAtHop'[v][e] = distAtHop[v][e]
                      /\ v \in imp /\ e = h + 1 => distAtHop'[v][e] = d + g[<<u, v>>]
    OBVIOUS
  <2>1. distAtHop[v][e] \in Nat /\ distAtHop[v][e] <= Inf
    BY <1>6
  <2>2. CASE v \in imp /\ e = h + 1
    <3>1. distAtHop'[v][e] = d + g[<<u, v>>]
      BY <1>3, <2>2
    <3>2. d + g[<<u, v>>] < distAtHop[v][e] /\ d + g[<<u, v>>] \in Nat
      BY <1>7, <2>2
    <3> QED BY <1>1, <2>1, <2>2, <3>1, <3>2
  <2>3. CASE ~(v \in imp /\ e = h + 1)
    <3>1. distAtHop'[v][e] = distAtHop[v][e]
      BY <1>3, <2>3
    <3> QED BY <2>1, <2>3, <3>1
  <2> QED BY <2>2, <2>3
<1>10. AtSource(a)'
  <2>1. \A v \in Vertices : distAtHop'[v][0] = distAtHop[v][0]
    <3>1. ~(0 = h + 1) /\ 0 \in 0 .. K
      BY <1>1, <1>4
    <3> QED BY <1>9, <3>1
  <2> QED BY <1>5, <2>1 DEF AtSource
<1>11. \A e \in 0 .. K : \A v, y \in Vertices : D[e][<<v, y>>] \in Nat /\ D[e][<<v, y>>] <= Inf
  BY DistSteps
<1>12. \A v \in imp : D[h + 1][<<a, v>>] <= d + g[<<u, v>>] /\ D[n][<<a, v>>] <= d + g[<<u, v>>]
  <2> SUFFICES ASSUME NEW v \in imp
               PROVE  D[h + 1][<<a, v>>] <= d + g[<<u, v>>] /\ D[n][<<a, v>>] <= d + g[<<u, v>>]
    OBVIOUS
  <2>1. v \in Vertices /\ u \in Nbrs(g, v) /\ g[<<u, v>>] \in Nat
    BY <1>7
  <2>2. D[h + 1][<<a, v>>] <= D[h][<<a, u>>] + g[<<u, v>>]
    <3>1. D[h + 1][<<a, v>>] <= D[(h + 1) - 1][<<a, u>>] + g[<<u, v>>]
      BY <1>4, <2>1, DistSteps
    <3> QED BY <1>4, <3>1
  <2>3. D[h][<<a, u>>] <= d
    BY <1>2, <1>4, <1>5 DEF NotLess
  <2>4. D[n][<<a, v>>] <= D[h + 1][<<a, v>>]
    BY <1>1, <1>4, <2>1, DistMonotone
  <2>5. D[h][<<a, u>>] \in Nat /\ D[h + 1][<<a, v>>] \in Nat /\ D[n][<<a, v>>] \in Nat
    BY <1>4, <1>11, <2>1
  <2> QED BY <1>4, <2>1, <2>2, <2>3, <2>4, <2>5
<1>13. \A v \in Vertices : /\ distance'[v] \in Nat /\ distance'[v] <= distance[v]
                           /\ v \in imp => distance'[v] <= d + g[<<u, v>>]
                           /\ D[n][<<a, v>>] <= distance'[v]
  <2> SUFFICES ASSUME NEW v \in Vertices
               PROVE  /\ distance'[v] \in Nat /\ distance'[v] <= distance[v]
                      /\ v \in imp => distance'[v] <= d + g[<<u, v>>]
                      /\ D[n][<<a, v>>] <= distance'[v]
    OBVIOUS
  <2>1. distance[v] \in Nat /\ D[n][<<a, v>>] <= distance[v]
    <3>1. distance[v] \in 0 .. Inf
      BY <1>5 DEF Tables
    <3> QED BY <1>1, <1>5, <3>1 DEF NotLess
  <2>2. CASE v \in imp
    <3> DEFINE o == d + g[<<u, v>>]
    <3>1. o \in Nat /\ D[n][<<a, v>>] <= o
      BY <1>7, <1>12, <2>2
    <3>2. distance'[v] = Min({distance[v], o})
      BY <1>3, <2>2
    <3>a. o = d + g[<<u, v>>]
      OBVIOUS
    <3> HIDE DEF o
    <3>3. Min({distance[v], o}) \in {distance[v], o} /\ Min({distance[v], o}) <= distance[v]
          /\ Min({distance[v], o}) <= o
      BY <2>1, <3>1, Smaller
    <3> QED BY <2>1, <3>1, <3>2, <3>3, <3>a
  <2>3. CASE v \notin imp
    <3>1. distance'[v] = distance[v]
      BY <1>3, <2>3
    <3> QED BY <2>1, <2>3, <3>1
  <2> QED BY <2>2, <2>3
<1>14. NotLess(D, a, n)'
  <2>1. ASSUME NEW v \in Vertices, NEW e \in 0 .. K
        PROVE  /\ distAtHop'[v][e] < Inf => e <= n
               /\ D[e][<<a, v>>] <= distAtHop'[v][e]
               /\ distance'[v] <= distAtHop'[v][e]
    <3>1. CASE v \in imp /\ e = h + 1
      <4>1. distAtHop'[v][e] = d + g[<<u, v>>]
        BY <1>9, <3>1
      <4> QED BY <1>4, <1>12, <1>13, <3>1, <4>1
    <3>2. CASE ~(v \in imp /\ e = h + 1)
      <4>1. distAtHop'[v][e] = distAtHop[v][e] /\ distAtHop[v][e] \in Nat
        BY <1>6, <1>9, <3>2
      <4>2. /\ distAtHop[v][e] < Inf => e <= n
            /\ D[e][<<a, v>>] <= distAtHop[v][e]
            /\ distance[v] <= distAtHop[v][e]
        BY <1>5 DEF NotLess
      <4>3. distance'[v] <= distAtHop[v][e]
        <5>1. distance[v] \in 0 .. Inf
          BY <1>5 DEF Tables
        <5>2. distance'[v] \in Nat /\ distance'[v] <= distance[v]
          BY <1>13
        <5> QED BY <1>1, <4>1, <4>2, <5>1, <5>2
      <4> QED BY <4>1, <4>2, <4>3
    <3> QED BY <3>1, <3>2
  <2> QED BY <1>13, <2>1 DEF NotLess
<1>15. ByParents(g)'
  <2> SUFFICES ASSUME NEW v \in Vertices, NEW e \in 1 .. K, distAtHop'[v][e] < Inf
               PROVE  /\ parent'[v][e] \in Nbrs(g, v)
                      /\ distAtHop'[parent'[v][e]][e - 1] + g[<<parent'[v][e], v>>] <= distAtHop'[v][e]
    BY DEF ByParents
  <2>0. e \in 0 .. K /\ e - 1 \in 0 .. K /\ e \in Nat
    BY <1>1
  <2>1. CASE v \in imp /\ e = h + 1
    <3>1. parent'[v][e] = u /\ u \in Nbrs(g, v) /\ distAtHop'[v][e] = d + g[<<u, v>>] /\ e - 1 = h
      BY <1>3, <1>4, <1>7, <1>9, <2>0, <2>1
    <3>2. distAtHop'[u][h] = d
      <4>1. h # h + 1
        BY <1>4
      <4> QED BY <1>2, <1>4, <1>9, <4>1
    <3>3. g[<<u, v>>] \in Nat
      BY <1>7, <2>1
    <3> QED BY <1>4, <3>1, <3>2, <3>3
  <2>2. CASE ~(v \in imp /\ e = h + 1)
    <3> DEFINE y == parent[v][e]
    <3>1. parent'[v][e] = y /\ distAtHop'[v][e] = distAtHop[v][e]
      BY <1>3, <1>9, <2>0, <2>2
    <3>2. y \in Nbrs(g, v) /\ distAtHop[y][e - 1] + g[<<y, v>>] <= distAtHop[v][e]
      BY <1>5, <3>1 DEF ByParents
    <3>3. y \in Vertices /\ g[<<y, v>>] \in Nat
      BY <3>2 DEF Nbrs, Undirected
    <3> HIDE DEF y
    <3>4. distAtHop'[y][e - 1] \in Nat /\ distAtHop'[y][e - 1] <= distAtHop[y][e - 1]
          /\ distAtHop[y][e - 1] \in Nat /\ distAtHop[v][e] \in Nat
      BY <1>6, <1>9, <2>0, <3>3
    <3>5. distAtHop'[y][e - 1] + g[<<y, v>>] <= distAtHop[v][e]
      BY <3>2, <3>3, <3>4
    <3> QED BY <3>1, <3>2, <3>5
  <2> QED BY <2>1, <2>2
<1>16. Queue(n)'
  <2> DEFINE Box == (0 .. Inf - 1) \X (0 .. n) \X Vertices
  <2>1. \A x \in pq : x \in Box /\ x[1] \in Nat /\ x[2] \in 0 .. K /\ x[3] \in Vertices
                      /\ distAtHop[x[3]][x[2]] <= x[1]
    BY <1>1, <1>5 DEF Queue
  <2>2. ASSUME NEW x \in pq PROVE distAtHop'[x[3]][x[2]] <= x[1]
    <3>1. distAtHop'[x[3]][x[2]] \in Nat /\ distAtHop'[x[3]][x[2]] <= distAtHop[x[3]][x[2]]
          /\ distAtHop[x[3]][x[2]] \in Nat
      BY <1>6, <1>9, <2>1
    <3> QED BY <2>1, <3>1
  <2>3. ASSUME NEW v \in imp
        PROVE  /\ <<d + g[<<u, v>>], h + 1, v>> \in Box
               /\ distAtHop'[v][h + 1] <= d + g[<<u, v>>]
    <3>1. v \in Vertices /\ d + g[<<u, v>>] \in 0 .. Inf - 1
      BY <1>1, <1>7
    <3>2. distAtHop'[v][h + 1] = d + g[<<u, v>>] /\ d + g[<<u, v>>] \in Nat
      BY <1>4, <1>7, <1>9, <3>1
    <3> QED BY <1>4, <3>1, <3>2
  <2>4. ASSUME NEW x \in pq' PROVE x \in Box /\ distAtHop'[x[3]][x[2]] <= x[1]
    <3>1. CASE x \in pq
      BY <2>1, <2>2, <3>1
    <3>2. CASE x \notin pq
      <4>1. PICK v \in imp : x = <<d + g[<<u, v>>], h + 1, v>>
        BY <1>3, <3>2
      <4>2. x[1] = d + g[<<u, v>>] /\ x[2] = h + 1 /\ x[3] = v
        BY <4>1
      <4> QED BY <2>3, <4>1, <4>2
    <3> QED BY <3>1, <3>2
  <2> QED BY <2>4 DEF Queue
<1>17. Waits(g, c, n)'
  <2> SUFFICES ASSUME NEW v \in Vertices, NEW e \in 0 .. K, distAtHop'[v][e] < Inf
               PROVE  <<distAtHop'[v][e], e, v>> \in pq' \/ (v # c /\ Relaxed(g, n, v, e)')
    BY DEF Waits
  <2>1. CASE v \in imp /\ e = h + 1
    <3>1. distAtHop'[v][e] = d + g[<<u, v>>]
      BY <1>9, <2>1
    <3> QED BY <1>3, <2>1, <3>1
  <2>2. CASE v = u /\ e = h
    <3>1. distAtHop'[v][e] = d
      <4>1. h # h + 1
        BY <1>4
      <4> QED BY <1>2, <1>4, <1>9, <2>2, <4>1
    <3>2. ASSUME NEW y \in Nbrs(g, v)
          PROVE  distAtHop'[y][e + 1] <= distAtHop'[v][e] + g[<<v, y>>]
      <4>1. y \in Vertices
        BY DEF Nbrs
      <4>2. CASE y \in imp
        <5>1. distAtHop'[y][h + 1] = d + g[<<u, y>>] /\ d + g[<<u, y>>] \in Nat
          BY <1>4, <1>7, <1>9, <4>1, <4>2
        <5> QED BY <2>2, <3>1, <5>1
      <4>3. CASE y \notin imp
        <5>1. distAtHop'[y][h + 1] = distAtHop[y][h + 1]
          BY <1>4, <1>9, <4>1, <4>3
        <5>2. distAtHop[y][h + 1] <= d + g[<<u, y>>]
          BY <1>8, <2>2, <4>3
        <5> QED BY <2>2, <3>1, <5>1, <5>2
      <4> QED BY <4>2, <4>3
    <3> QED BY <1>2, <2>2, <3>2 DEF Relaxed
  <2>3. CASE ~(v \in imp /\ e = h + 1) /\ ~(v = u /\ e = h)
    <3>1. distAtHop'[v][e] = distAtHop[v][e] /\ distAtHop[v][e] < Inf
      BY <1>9, <2>3
    <3>2. <<distAtHop[v][e], e, v>> \in pq \/ (v # c /\ Relaxed(g, n, v, e))
      BY <1>5, <3>1 DEF Waits
    <3>3. CASE <<distAtHop[v][e], e, v>> \in pq
      <4>1. <<distAtHop[v][e], e, v>> # <<d, h, u>>
        BY <2>3
      <4> QED BY <1>3, <3>1, <3>3, <4>1
    <3>4. CASE v # c /\ Relaxed(g, n, v, e)
      <4>1. ASSUME NEW y \in Nbrs(g, v), ~(e >= n)
            PROVE  distAtHop'[y][e + 1] <= distAtHop'[v][e] + g[<<v, y>>]
        <5>1. y \in Vertices /\ g[<<v, y>>] \in Nat /\ e + 1 \in 0 .. K
          BY <1>1, <4>1 DEF Nbrs, Undirected
        <5>2. distAtHop[y][e + 1] <= distAtHop[v][e] + g[<<v, y>>]
          BY <3>4, <4>1 DEF Relaxed
        <5>3. distAtHop'[y][e + 1] \in Nat /\ distAtHop'[y][e + 1] <= distAtHop[y][e + 1]
              /\ distAtHop[y][e + 1] \in Nat /\ distAtHop[v][e] \in Nat
          BY <1>6, <1>9, <5>1
        <5>4. distAtHop'[y][e + 1] <= distAtHop[v][e] + g[<<v, y>>]
          BY <5>1, <5>2, <5>3
        <5> QED BY <3>1, <5>4
      <4>2. Relaxed(g, n, v, e)'
        BY <4>1 DEF Relaxed
      <4> QED BY <3>4, <4>2
    <3> QED BY <3>2, <3>3, <3>4
  <2> QED BY <2>1, <2>2, <2>3
<1> QED BY <1>2, <1>3, <1>5, <1>10, <1>14, <1>15, <1>16, <1>17 DEF Searching
-----------------------------------------------------------------------------
(***************************************************************************)
(* 3. Lengths.  The length of a list of edges is the sum.                  *)
(***************************************************************************)
Pairs2 == Vertices \X Vertices

LEMMA LengthIs ==
  ASSUME NEW g, Undirected(g), w = g, NEW edges \in Seq(Pairs2)
  PROVE  \E sum \in [0 .. Len(edges) -> Nat] :
           /\ sum[0] = 0
           /\ \A m \in 1 .. Len(edges) : sum[m] = sum[m - 1] + g[edges[m]]
           /\ LengthOf(edges) = sum[Len(edges)]
<1> DEFINE n == Len(edges)
           step == [p \in Nat \X (1 .. n) |-> p[1] + g[edges[p[2]]]]
           Total(f) == f = [m \in 0 .. n |-> IF m = 0 THEN 0 ELSE f[m - 1] + w[edges[m]]]
<1>1. n \in Nat
  OBVIOUS
<1>2. \A m \in 1 .. n : g[edges[m]] \in Nat
  <2> SUFFICES ASSUME NEW m \in 1 .. n PROVE g[edges[m]] \in Nat
    OBVIOUS
  <2>1. edges[m] \in Pairs2
    OBVIOUS
  <2> QED BY <2>1 DEF Pairs2, Undirected
<1>3. step \in Steps(n, Nat)
  <2> HIDE DEF n
  <2> QED BY <1>2 DEF Steps
<1> DEFINE f == Iterate(n, 0, step)
<1>4. /\ f \in [0 .. n -> Nat] /\ f[0] = 0
      /\ \A m \in 1 .. n : f[m] = step[<<f[m - 1], m>>]
  <2>1. \E R : R = Nat
    OBVIOUS
  <2>2. PICK R : R = Nat
    BY <2>1
  <2>3. 0 \in R /\ step \in Steps(n, R)
    BY <1>3, <2>2
  <2> HIDE DEF n, step
  <2>4. f \in [0 .. n -> R]
    BY <1>1, <2>3, Iterates
  <2>5. f[0] = 0
    BY <1>1, <2>3, Iterates
  <2>6. \A e \in 1 .. n : f[e] = step[<<f[e - 1], e>>]
    BY <1>1, <2>3, Iterates
  <2> QED BY <2>2, <2>4, <2>5, <2>6
<1> HIDE DEF n, f
<1>9. \A m \in 1 .. n : f[m] = f[m - 1] + g[edges[m]]
  <2> SUFFICES ASSUME NEW m \in 1 .. n PROVE f[m] = f[m - 1] + g[edges[m]]
    OBVIOUS
  <2>1. m - 1 \in 0 .. n
    BY <1>1
  <2>2. f[m - 1] \in Nat
    BY <1>4, <2>1
  <2>3. step[<<f[m - 1], m>>] = f[m - 1] + g[edges[m]]
    BY <2>2
  <2> QED BY <1>4, <2>3
<1>10. Total(f)
  <2> HIDE DEF step
  <2>1. \A m \in 0 .. n : f[m] = IF m = 0 THEN 0 ELSE f[m - 1] + w[edges[m]]
    <3> SUFFICES ASSUME NEW m \in 0 .. n, m # 0 PROVE f[m] = f[m - 1] + w[edges[m]]
      BY <1>4
    <3>1. m \in 1 .. n
      BY <1>1
    <3> QED BY <1>9, <3>1
  <2>2. f = [m \in 0 .. n |-> f[m]]
    BY <1>4
  <2> QED BY <2>1, <2>2
<1>11. PICK o : Total(o) /\ LengthOf(edges) = o[n]
  BY <1>10 DEF LengthOf, n
<1>12. \A m \in 0 .. n : o[m] = f[m]
  <2> DEFINE S == {m \in 0 .. n : o[m] = f[m]}
  <2>1. 0 \in S
    BY <1>1, <1>4, <1>11
  <2>2. ASSUME NEW m \in 0 .. n - 1, m \in S PROVE m + 1 \in S
    <3>1. m + 1 \in 1 .. n /\ m + 1 \in 0 .. n /\ (m + 1) - 1 = m /\ m + 1 # 0
      BY <1>1
    <3>2. o[m + 1] = o[m] + w[edges[m + 1]]
      BY <1>11, <3>1
    <3>3. f[m + 1] = f[m] + g[edges[m + 1]]
      BY <1>9, <3>1
    <3> QED BY <2>2, <3>1, <3>2, <3>3
  <2>3. 0 .. n \subseteq S
    <3> HIDE DEF S, Total
    <3> QED BY <1>1, <2>1, <2>2, UpTo
  <2> QED BY <2>3
<1>14. LengthOf(edges) = f[n]
  BY <1>1, <1>11, <1>12
<1> QED BY <1>4, <1>9, <1>14 DEF n

(* The path tracked back from the terminal: each vertex is known at its    *)
(* number of hops through the one before.                                  *)
LEMMA TrackedBack ==
  ASSUME NEW g, Undirected(g), NEW D, D = HopDist(g), NEW a \in Vertices, NEW c,
         NEW n \in 0 .. K, Searching(g, D, a, c, n), Arrived(D, a, c, n)
  PROVE  \E at \in [0 .. final -> Vertices] :
           /\ at[0] = a /\ at[final] = c
           /\ Reference!Path(a, c) = [e \in 1 .. final + 1 |-> at[e - 1]]
           /\ \A h \in 1 .. final :
                /\ at[h - 1] \in Nbrs(g, at[h])
                /\ distAtHop[at[h - 1]][h - 1] + g[<<at[h - 1], at[h]>>] <= distAtHop[at[h]][h]
<1> DEFINE z == final
           step == [p \in Vertices \X (1 .. z) |->
                      IF parent[p[1]][z - p[2] + 1] \in Vertices
                      THEN parent[p[1]][z - p[2] + 1] ELSE p[1]]
           f == Iterate(z, c, step)
<1>1. /\ K \in Nat /\ n \in Nat /\ n <= K /\ z \in 0 .. n /\ z \in Nat /\ z \in 0 .. K /\ z # -1
      /\ c \in Vertices /\ distAtHop[c][z] < Inf /\ Inf \in Nat
  BY Sizes DEF Arrived
<1>2. /\ f \in [0 .. z -> Vertices] /\ f[0] = c
      /\ \A m \in 1 .. z : f[m] = step[<<f[m - 1], m>>]
  <2>1. step \in Steps(z, Vertices)
    <3> HIDE DEF z
    <3> QED BY <1>1 DEF Steps
  <2> HIDE DEF z, step
  <2>2. f \in [0 .. z -> Vertices]
    BY <1>1, <2>1, Iterates
  <2>3. f[0] = c
    BY <1>1, <2>1, Iterates
  <2>4. \A e \in 1 .. z : f[e] = step[<<f[e - 1], e>>]
    BY <1>1, <2>1, Iterates
  <2> QED BY <2>2, <2>3, <2>4
<1>3. /\ AtSource(a) /\ ByParents(g)
      /\ \A v \in Vertices : \A h \in 1 .. K : distAtHop[v][h] < Inf =>
           /\ parent[v][h] \in Nbrs(g, v) /\ parent[v][h] \in Vertices
           /\ g[<<parent[v][h], v>>] \in Nat
           /\ distAtHop[parent[v][h]][h - 1] \in Nat
           /\ distAtHop[parent[v][h]][h - 1] + g[<<parent[v][h], v>>] <= distAtHop[v][h]
           /\ distAtHop[parent[v][h]][h - 1] < Inf
  <2>1. AtSource(a) /\ ByParents(g) /\ Tables
    BY DEF Searching
  <2> SUFFICES ASSUME NEW v \in Vertices, NEW h \in 1 .. K, distAtHop[v][h] < Inf
               PROVE  /\ parent[v][h] \in Nbrs(g, v) /\ parent[v][h] \in Vertices
                      /\ g[<<parent[v][h], v>>] \in Nat
                      /\ distAtHop[parent[v][h]][h - 1] \in Nat
                      /\ distAtHop[parent[v][h]][h - 1] + g[<<parent[v][h], v>>] <= distAtHop[v][h]
                      /\ distAtHop[parent[v][h]][h - 1] < Inf
    BY <2>1
  <2>2. /\ parent[v][h] \in Nbrs(g, v)
        /\ distAtHop[parent[v][h]][h - 1] + g[<<parent[v][h], v>>] <= distAtHop[v][h]
    BY <2>1 DEF ByParents
  <2>3. parent[v][h] \in Vertices /\ g[<<parent[v][h], v>>] \in Nat
    BY <2>2 DEF Nbrs, Undirected
  <2>4. h \in 0 .. K /\ h - 1 \in 0 .. K
    BY <1>1
  <2>5. distAtHop[parent[v][h]][h - 1] \in 0 .. Inf /\ distAtHop[v][h] \in 0 .. Inf
    <3>1. distAtHop[parent[v][h]] \in [0 .. K -> 0 .. Inf] /\ distAtHop[v] \in [0 .. K -> 0 .. Inf]
      BY <2>1, <2>3 DEF Tables
    <3> QED BY <2>4, <3>1
  <2> QED BY <1>1, <2>2, <2>3, <2>5
<1> HIDE DEF f, z
<1> DEFINE Q == {m \in 0 .. z : distAtHop[f[m]][z - m] < Inf}
<1>4. 0 .. z \subseteq Q
  <2>1. 0 \in Q
    BY <1>1, <1>2
  <2>2. ASSUME NEW m \in 0 .. z - 1, m \in Q PROVE m + 1 \in Q
    <3>1. /\ m + 1 \in 1 .. z /\ m + 1 \in 0 .. z /\ (m + 1) - 1 = m /\ m \in 0 .. z
          /\ z - m \in 1 .. K /\ z - (m + 1) + 1 = z - m /\ (z - m) - 1 = z - (m + 1)
      BY <1>1
    <3>2. f[m] \in Vertices /\ distAtHop[f[m]][z - m] < Inf
      BY <1>2, <2>2, <3>1
    <3>3. parent[f[m]][z - m] \in Vertices /\ distAtHop[parent[f[m]][z - m]][(z - m) - 1] < Inf
      BY <1>3, <3>1, <3>2
    <3>4. f[m + 1] = parent[f[m]][z - m]
      <4>1. f[m + 1] = step[<<f[m], m + 1>>]
        BY <1>2, <3>1
      <4> QED BY <3>1, <3>2, <3>3, <4>1
    <3> QED BY <3>1, <3>3, <3>4
  <2> HIDE DEF Q
  <2> QED BY <1>1, <2>1, <2>2, UpTo
<1>5. \A m \in 1 .. z : f[m] = parent[f[m - 1]][z - m + 1] /\ distAtHop[f[m - 1]][z - m + 1] < Inf
  <2> SUFFICES ASSUME NEW m \in 1 .. z
               PROVE  f[m] = parent[f[m - 1]][z - m + 1] /\ distAtHop[f[m - 1]][z - m + 1] < Inf
    OBVIOUS
  <2>1. m - 1 \in 0 .. z /\ z - (m - 1) = z - m + 1 /\ z - m + 1 \in 1 .. K
    BY <1>1
  <2>2. f[m - 1] \in Vertices /\ distAtHop[f[m - 1]][z - m + 1] < Inf
    BY <1>2, <1>4, <2>1
  <2>3. parent[f[m - 1]][z - m + 1] \in Vertices
    BY <1>3, <2>1, <2>2
  <2>4. f[m] = step[<<f[m - 1], m>>]
    BY <1>2
  <2> QED BY <2>2, <2>3, <2>4
<1> HIDE DEF step
<1> DEFINE at == [h \in 0 .. z |-> f[z - h]]
<1>6. at \in [0 .. z -> Vertices] /\ at[z] = c
  BY <1>1, <1>2
<1>7. \A h \in 0 .. z - 1 : at[h] = parent[at[h + 1]][h + 1] /\ distAtHop[at[h + 1]][h + 1] < Inf
  <2> SUFFICES ASSUME NEW h \in 0 .. z - 1
               PROVE  at[h] = parent[at[h + 1]][h + 1] /\ distAtHop[at[h + 1]][h + 1] < Inf
    OBVIOUS
  <2>1. z - h \in 1 .. z /\ z - (z - h) + 1 = h + 1 /\ (z - h) - 1 = z - (h + 1)
        /\ h \in 0 .. z /\ h + 1 \in 0 .. z
    BY <1>1
  <2>2. f[z - h] = parent[f[(z - h) - 1]][z - (z - h) + 1]
        /\ distAtHop[f[(z - h) - 1]][z - (z - h) + 1] < Inf
    BY <1>5, <2>1
  <2>3. at[h] = f[z - h] /\ at[h + 1] = f[z - (h + 1)]
    BY <2>1
  <2> QED BY <2>1, <2>2, <2>3
<1>8. at[0] = a
  <2>1. at[0] = f[z] /\ distAtHop[f[z]][0] < Inf /\ f[z] \in Vertices
    <3>1. z \in Q /\ z \in 0 .. z /\ 0 \in 0 .. z /\ z - z = 0 /\ z - 0 = z
      BY <1>1, <1>4
    <3> QED BY <1>2, <3>1
  <2> QED BY <1>1, <1>3, <2>1 DEF AtSource
<1> HIDE DEF at
<1>9. \A h \in 1 .. z :
        /\ at[h - 1] \in Nbrs(g, at[h])
        /\ distAtHop[at[h - 1]][h - 1] + g[<<at[h - 1], at[h]>>] <= distAtHop[at[h]][h]
  <2> SUFFICES ASSUME NEW h \in 1 .. z
               PROVE  /\ at[h - 1] \in Nbrs(g, at[h])
                      /\ distAtHop[at[h - 1]][h - 1] + g[<<at[h - 1], at[h]>>] <= distAtHop[at[h]][h]
    OBVIOUS
  <2>1. h - 1 \in 0 .. z - 1 /\ (h - 1) + 1 = h /\ h \in 1 .. K /\ h \in 0 .. z
    BY <1>1
  <2>2. at[h - 1] = parent[at[h]][h] /\ distAtHop[at[h]][h] < Inf
    BY <1>7, <2>1
  <2> QED BY <1>3, <1>6, <2>1, <2>2
<1> DEFINE Total(o) == o = [h \in 0 .. z |-> IF h = z THEN c ELSE parent[o[h + 1]][h + 1]]
<1>10. Total(at)
  <2>1. \A h \in 0 .. z : at[h] = IF h = z THEN c ELSE parent[at[h + 1]][h + 1]
    <3> SUFFICES ASSUME NEW h \in 0 .. z, h # z PROVE at[h] = parent[at[h + 1]][h + 1]
      BY <1>6
    <3>1. h \in 0 .. z - 1
      BY <1>1
    <3> QED BY <1>7, <3>1
  <2> QED BY <1>6, <2>1
<1>11. PICK o : Total(o) /\ Reference!Path(a, c) = [e \in 1 .. z + 1 |-> IF e = 1 THEN a ELSE o[e - 1]]
  BY <1>1, <1>10 DEF Reference!Path, z
<1>12. \A h \in 0 .. z : o[h] = at[h]
  <2> DEFINE S == {m \in 0 .. z : o[z - m] = at[z - m]}
  <2>1. 0 \in S
    BY <1>1, <1>6, <1>11
  <2>2. ASSUME NEW m \in 0 .. z - 1, m \in S PROVE m + 1 \in S
    <3> DEFINE h == z - (m + 1)
    <3>1. h \in 0 .. z - 1 /\ h \in 0 .. z /\ h # z /\ h + 1 = z - m /\ m + 1 \in 0 .. z
      BY <1>1
    <3>2. o[h] = parent[o[h + 1]][h + 1]
      <4> HIDE DEF h
      <4> QED BY <1>11, <3>1
    <3>3. at[h] = parent[at[h + 1]][h + 1]
      BY <1>7, <3>1
    <3>4. o[h + 1] = at[h + 1]
      BY <2>2, <3>1
    <3> QED BY <3>1, <3>2, <3>3, <3>4
  <2>3. 0 .. z \subseteq S
    <3> HIDE DEF S, Total
    <3> QED BY <1>1, <2>1, <2>2, UpTo
  <2>4. ASSUME NEW h \in 0 .. z PROVE o[h] = at[h]
    <3>1. z - h \in 0 .. z /\ z - (z - h) = h
      BY <1>1
    <3>2. z - h \in S
      BY <2>3, <3>1
    <3> QED BY <3>1, <3>2
  <2> QED BY <2>4
<1>13. Reference!Path(a, c) = [e \in 1 .. z + 1 |-> at[e - 1]]
  <2>1. \A e \in 1 .. z + 1 : (IF e = 1 THEN a ELSE o[e - 1]) = at[e - 1]
    <3> SUFFICES ASSUME NEW e \in 1 .. z + 1 PROVE (IF e = 1 THEN a ELSE o[e - 1]) = at[e - 1]
      OBVIOUS
    <3>1. e - 1 \in 0 .. z /\ 1 - 1 = 0
      BY <1>1
    <3> QED BY <1>8, <1>12, <3>1
  <2> QED BY <1>11, <2>1
<1> QED BY <1>6, <1>8, <1>9, <1>13 DEF z

(* It has no more edges than hops, and its length is the distance.         *)
EdgesOf(walk) == [e \in 1 .. Len(walk) - 1 |-> <<walk[e], walk[e + 1]>>]

LEMMA WalkBack ==
  ASSUME NEW g, Undirected(g), w = g, NEW D, D = HopDist(g), NEW a \in Vertices, NEW c,
         NEW n \in 0 .. K, Searching(g, D, a, c, n), Arrived(D, a, c, n),
         NEW walk, walk = Reference!Path(a, c)
  PROVE  /\ walk # <<>> /\ Len(EdgesOf(walk)) <= n
         /\ \A e \in DOMAIN EdgesOf(walk) : w[EdgesOf(walk)[e]] > 0
         /\ LengthOf(EdgesOf(walk)) = distance[c]
<1> DEFINE z == final
           edges == EdgesOf(walk)
<1>1. /\ K \in Nat /\ n \in Nat /\ n <= K /\ z \in 0 .. n /\ z \in Nat /\ z \in 0 .. K /\ z <= n
      /\ c \in Vertices /\ Inf \in Nat
      /\ distAtHop[c][z] = D[n][<<a, c>>] /\ distance[c] = D[n][<<a, c>>]
  BY Sizes DEF Arrived
<1>2. PICK at \in [0 .. z -> Vertices] :
        /\ at[0] = a /\ at[z] = c /\ walk = [e \in 1 .. z + 1 |-> at[e - 1]]
        /\ \A h \in 1 .. z :
             /\ at[h - 1] \in Nbrs(g, at[h])
             /\ distAtHop[at[h - 1]][h - 1] + g[<<at[h - 1], at[h]>>] <= distAtHop[at[h]][h]
  BY TrackedBack
<1>3. \A v \in Vertices : \A h \in 0 .. K : distAtHop[v][h] \in Nat
  <2> SUFFICES ASSUME NEW v \in Vertices, NEW h \in 0 .. K PROVE distAtHop[v][h] \in Nat
    OBVIOUS
  <2>1. distAtHop[v] \in [0 .. K -> 0 .. Inf]
    BY DEF Searching, Tables
  <2>2. distAtHop[v][h] \in 0 .. Inf
    BY <2>1
  <2> QED BY <1>1, <2>2
<1>4. distAtHop[a][0] = 0
  BY DEF Searching, AtSource
<1> HIDE DEF z
<1>5. \A e \in 1 .. z + 1 : at[e - 1] \in Vertices
  <2> SUFFICES ASSUME NEW e \in 1 .. z + 1 PROVE at[e - 1] \in Vertices
    OBVIOUS
  <2>1. e - 1 \in 0 .. z
    BY <1>1
  <2> QED BY <1>2, <2>1
<1>6. walk \in Seq(Vertices) /\ Len(walk) = z + 1 /\ walk # <<>>
  <2>1. walk \in [1 .. z + 1 -> Vertices] /\ z + 1 \in Nat
    BY <1>1, <1>2, <1>5
  <2> QED BY <1>1, <2>1
<1>7. edges = [e \in 1 .. z |-> <<at[e - 1], at[e]>>]
  <2>0. edges = [e \in 1 .. Len(walk) - 1 |-> <<walk[e], walk[e + 1]>>]
    BY DEF EdgesOf
  <2>1. Len(walk) - 1 = z
    BY <1>1, <1>6
  <2>2. \A e \in 1 .. z : walk[e] = at[e - 1] /\ walk[e + 1] = at[e]
    <3> SUFFICES ASSUME NEW e \in 1 .. z PROVE walk[e] = at[e - 1] /\ walk[e + 1] = at[e]
      OBVIOUS
    <3>1. e \in 1 .. z + 1 /\ e + 1 \in 1 .. z + 1 /\ (e + 1) - 1 = e
      BY <1>1
    <3> QED BY <1>2, <3>1
  <2> HIDE DEF edges
  <2> QED BY <2>0, <2>1, <2>2
<1> HIDE DEF edges
<1>8. edges \in Seq(Pairs2) /\ Len(edges) = z /\ DOMAIN edges = 1 .. z
  <2>1. \A e \in 1 .. z : at[e - 1] \in Vertices /\ at[e] \in Vertices
    <3> SUFFICES ASSUME NEW e \in 1 .. z PROVE at[e - 1] \in Vertices /\ at[e] \in Vertices
      OBVIOUS
    <3>1. e - 1 \in 0 .. z /\ e \in 0 .. z
      BY <1>1
    <3> QED BY <1>2, <3>1
  <2>2. edges \in [1 .. z -> Pairs2]
    BY ONLY <1>7, <2>1 DEF Pairs2
  <2> QED BY ONLY <1>1, <2>2
<1>9. PICK sum \in [0 .. z -> Nat] :
        /\ sum[0] = 0
        /\ \A m \in 1 .. z : sum[m] = sum[m - 1] + g[edges[m]]
        /\ LengthOf(edges) = sum[z]
  <2>1. \E sum \in [0 .. Len(edges) -> Nat] :
          /\ sum[0] = 0
          /\ \A m \in 1 .. Len(edges) : sum[m] = sum[m - 1] + g[edges[m]]
          /\ LengthOf(edges) = sum[Len(edges)]
    <3>1. \A h \in Seq(Pairs2) : \E sum \in [0 .. Len(h) -> Nat] :
            /\ sum[0] = 0
            /\ \A m \in 1 .. Len(h) : sum[m] = sum[m - 1] + g[h[m]]
            /\ LengthOf(h) = sum[Len(h)]
      BY ONLY LengthIs, Undirected(g), w = g
    <3> QED BY <1>8, <3>1, Zenon
  <2>2. Len(edges) = z
    BY <1>8
  <2> QED BY <2>1, <2>2, Zenon
<1>10. \A m \in 1 .. z : /\ edges[m] = <<at[m - 1], at[m]>> /\ g[<<at[m - 1], at[m]>>] \in Nat
                         /\ g[<<at[m - 1], at[m]>>] > 0 /\ at[m - 1] \in Vertices /\ at[m] \in Vertices
  <2> SUFFICES ASSUME NEW m \in 1 .. z
               PROVE  /\ edges[m] = <<at[m - 1], at[m]>> /\ g[<<at[m - 1], at[m]>>] \in Nat
                      /\ g[<<at[m - 1], at[m]>>] > 0 /\ at[m - 1] \in Vertices /\ at[m] \in Vertices
    OBVIOUS
  <2>1. m - 1 \in 0 .. z /\ m \in 0 .. z
    BY <1>1
  <2>2. at[m - 1] \in Vertices /\ at[m] \in Vertices /\ at[m - 1] \in Nbrs(g, at[m])
    BY <1>2, <2>1
  <2> QED BY <1>7, <2>2 DEF Nbrs, Undirected
<1> DEFINE Q == {m \in 0 .. z : sum[m] <= distAtHop[at[m]][m] /\ D[m][<<a, at[m]>>] <= sum[m]}
<1>11. 0 .. z \subseteq Q
  <2>1. 0 \in Q
    <3>1. D[0][<<a, a>>] = 0
      BY DistSteps
    <3>2. sum[0] = 0 /\ at[0] = a /\ 0 \in 0 .. z
      BY <1>1, <1>2, <1>9
    <3> QED BY <1>4, <3>1, <3>2
  <2>2. ASSUME NEW m \in 0 .. z - 1, m \in Q PROVE m + 1 \in Q
    <3> DEFINE o == m + 1
    <3>1. o \in 1 .. z /\ o \in 0 .. z /\ o - 1 = m /\ o \in 1 .. K /\ o \in 0 .. K /\ m \in 0 .. K /\ m \in 0 .. z
      BY <1>1
    <3>2. sum[m] <= distAtHop[at[m]][m] /\ D[m][<<a, at[m]>>] <= sum[m]
      BY <2>2
    <3> HIDE DEF o
    <3> DEFINE l == g[<<at[m], at[o]>>]
    <3>3. sum[o] = sum[m] + l /\ l \in Nat /\ at[m] \in Vertices /\ at[o] \in Vertices
      <4>1. sum[o] = sum[o - 1] + g[edges[o]]
        BY <1>9, <3>1
      <4>2. edges[o] = <<at[o - 1], at[o]>> /\ g[<<at[o - 1], at[o]>>] \in Nat /\ at[o] \in Vertices
            /\ at[o - 1] \in Vertices
        BY <1>10, <3>1
      <4> QED BY <3>1, <4>1, <4>2
    <3>4. distAtHop[at[m]][m] + l <= distAtHop[at[o]][o]
      BY <1>2, <3>1
    <3>5. D[o][<<a, at[o]>>] <= D[m][<<a, at[m]>>] + l
      <4>1. at[m] \in Nbrs(g, at[o])
        BY <1>2, <3>1
      <4>2. D[o][<<a, at[o]>>] <= D[o - 1][<<a, at[m]>>] + g[<<at[m], at[o]>>]
        BY <3>1, <3>3, <4>1, DistSteps
      <4> QED BY <3>1, <4>2
    <3>6. /\ distAtHop[at[m]][m] \in Nat /\ distAtHop[at[o]][o] \in Nat /\ sum[m] \in Nat
          /\ D[m][<<a, at[m]>>] \in Nat /\ D[o][<<a, at[o]>>] \in Nat
      <4>1. D[m][<<a, at[m]>>] \in Nat /\ D[o][<<a, at[o]>>] \in Nat
        BY <3>1, <3>3, DistSteps
      <4> QED BY <1>3, <1>9, <3>1, <3>3, <4>1
    <3> HIDE DEF l
    <3>7. sum[o] <= distAtHop[at[o]][o] /\ D[o][<<a, at[o]>>] <= sum[o]
      <4> DEFINE s0 == sum[m]
                 d0 == distAtHop[at[m]][m]
                 e0 == D[m][<<a, at[m]>>]
                 s1 == sum[o]
                 d1 == distAtHop[at[o]][o]
                 e1 == D[o][<<a, at[o]>>]
      <4>1. s0 <= d0 /\ e0 <= s0
        BY <3>2
      <4>2. s1 = s0 + l /\ l \in Nat
        BY <3>3
      <4>3. d0 + l <= d1 
        BY <3>4
      <4>4. e1 <= e0 + l
        BY <3>5
      <4>5. s0 \in Nat /\ d0 \in Nat /\ e0 \in Nat /\ d1 \in Nat /\ e1 \in Nat
        BY <3>6
      <4> HIDE DEF s0, d0, e0, s1, d1, e1, Q
      <4>6. s1 <= d1
        BY <4>1, <4>2, <4>3, <4>5
      <4>7. e1 <= s1
        BY <4>1, <4>2, <4>4, <4>5
      <4> QED BY <4>6, <4>7 DEF s1, d1, e1
    <3>8. o \in Q
      BY <3>1, <3>7
    <3> QED BY <3>8 DEF o
  <2> HIDE DEF Q
  <2> QED BY <1>1, <2>1, <2>2, UpTo
<1>12. sum[z] = D[n][<<a, c>>]
  <2>1. sum[z] <= D[n][<<a, c>>] /\ D[z][<<a, c>>] <= sum[z]
    <3>1. z \in Q
      BY <1>1, <1>11
    <3> QED BY <1>1, <1>2, <3>1
  <2>2. D[n][<<a, c>>] <= D[z][<<a, c>>]
    BY <1>1, DistMonotone
  <2>3. D[n][<<a, c>>] \in Nat /\ D[z][<<a, c>>] \in Nat /\ sum[z] \in Nat
    <3>1. D[n][<<a, c>>] \in Nat /\ D[z][<<a, c>>] \in Nat
      BY <1>1, DistSteps
    <3> QED BY <1>1, <1>9, <3>1
  <2> QED BY <2>1, <2>2, <2>3
<1> QED BY <1>1, <1>6, <1>8, <1>9, <1>10, <1>12 DEF edges

(* What the check of the reference asks.                                   *)
LEMMA ReferenceChecked ==
  ASSUME NEW g, Undirected(g), w = g, NEW D, D = HopDist(g),
         NEW a \in Vertices, NEW b \in Vertices, NEW n \in 0 .. K, query = <<a, b, n>>,
         goal \in {b, -1}, Searching(g, D, a, goal, n)
  PROVE  ReferenceIsExact
<1> SUFFICES ASSUME ReferenceDone PROVE ReferenceIsExact
  BY DEF ReferenceIsExact
<1> DEFINE walk == Reference!Path(query[1], goal)
           edges == [e \in 1 .. Len(walk) - 1 |-> <<walk[e], walk[e + 1]>>]
<1>1. /\ pq = {} /\ query[1] = a /\ query[2] = b /\ query[3] = n /\ goal \in Vertices \cup {-1}
      /\ -1 \notin Vertices /\ Inf \in Nat
  BY Sizes DEF ReferenceDone, Vertices
<1>2. /\ \A v \in Vertices : goal \in {v, -1} => distance[v] = D[n][<<a, v>>]
      /\ final = -1 => goal = -1 \/ D[n][<<a, goal>>] = Inf
      /\ final # -1 => Arrived(D, a, goal, n)
  BY <1>1, ExactAtEnd
<1>3. \A v \in Vertices : goal \in {v, -1} => distance[v] = Distance(query[1], v)
  BY <1>1, <1>2 DEF Distance
<1>4. CASE final = -1
  <2>1. walk = <<>>
    BY <1>4 DEF Reference!Path
  <2>2. ~(goal # -1 /\ distance[query[2]] < Inf)
    BY <1>1, <1>2, <1>4
  <2> QED BY <1>3, <2>1, <2>2 DEF ReferenceIsExact
<1>5. CASE final # -1
  <2>1. Arrived(D, a, goal, n) /\ goal \in Vertices /\ goal = b /\ distance[b] < Inf
    BY <1>1, <1>2, <1>5 DEF Arrived
  <2>2. /\ walk # <<>> /\ Len(edges) <= n /\ \A e \in DOMAIN edges : w[edges[e]] > 0
        /\ LengthOf(edges) = distance[goal]
    <3>1. walk = Reference!Path(a, goal)
      BY <1>1
    <3>2. edges = EdgesOf(walk)
      BY DEF EdgesOf
    <3> HIDE DEF walk, edges
    <3>3. /\ walk # <<>> /\ Len(EdgesOf(walk)) <= n
          /\ \A e \in DOMAIN EdgesOf(walk) : w[EdgesOf(walk)[e]] > 0
          /\ LengthOf(EdgesOf(walk)) = distance[goal]
      BY <2>1, <3>1, WalkBack
    <3> QED BY <3>2, <3>3
  <2>3. (walk # <<>>) = (goal # -1 /\ distance[query[2]] < Inf)
    BY <1>1, <2>1, <2>2
  <2> HIDE DEF edges
  <2>4. /\ Len(edges) <= query[3] /\ \A e \in DOMAIN edges : w[edges[e]] > 0
        /\ LengthOf(edges) = distance[goal]
    BY <1>1, <2>2
  <2> QED BY <1>3, <2>3, <2>4, Zenon DEF ReferenceIsExact, edges
<1> QED BY <1>4, <1>5
-----------------------------------------------------------------------------
(***************************************************************************)
(* 4. The merge.  A and B are two rows, m the hop bound, e and f where the *)
(* pointers are, o the best meeting so far: none behind a pointer is       *)
(* cheaper, and it is one of them.                                         *)
(***************************************************************************)
Sorted(A) == \A a, b \in DOMAIN A : a < b => ~LabelLess(A[b], A[a])
Cells(A, B) == (1 .. Len(A)) \X (1 .. Len(B))
Meets(A, B, m, p) ==
  A[p[1]].hub = B[p[2]].hub /\ A[p[1]].hop + B[p[2]].hop <= m
Cost(A, B, p) == A[p[1]].dist + B[p[2]].dist
BestOf(A, B, p) == [dist |-> Cost(A, B, p), ps |-> A[p[1]].par, pt |-> B[p[2]].par]
None == [dist |-> Inf, ps |-> 0, pt |-> 0]
Attained(A, B, m, o) ==
  o = None \/ \E p \in Cells(A, B) :
                Meets(A, B, m, p) /\ Cost(A, B, p) < Inf /\ o = BestOf(A, B, p)
Merged(A, B, m, e, f, o) ==
  /\ e \in 1 .. Len(A) + 1 /\ f \in 1 .. Len(B) + 1
  /\ \A p \in Cells(A, B) : Meets(A, B, m, p) /\ (p[1] < e \/ p[2] < f) => o.dist <= Cost(A, B, p)
  /\ Attained(A, B, m, o)

LEMMA LabelIs ==
  ASSUME NEW A \in Seq(Label), NEW e \in 1 .. Len(A)
  PROVE  /\ A[e] \in Label /\ A[e].hub \in Vertices /\ A[e].hub \in Int /\ A[e].hop \in 0 .. K
         /\ A[e].hop \in Nat /\ A[e].dist \in Nat /\ A[e].par \in Vertices
<1>1. A[e] \in Label
  OBVIOUS
<1> QED BY <1>1, Sizes DEF Label, Vertices

(* Hubs grow along a row, and hops along the labels of a hub.              *)
LEMMA RowGrows ==
  ASSUME NEW A \in Seq(Label), Sorted(A), NEW a \in 1 .. Len(A), NEW b \in 1 .. Len(A), a <= b
  PROVE  A[a].hub <= A[b].hub /\ (A[a].hub = A[b].hub => A[a].hop <= A[b].hop)
<1>1. /\ A[a].hub \in Int /\ A[b].hub \in Int /\ A[a].hop \in Nat /\ A[b].hop \in Nat
  BY LabelIs
<1>2. CASE a = b
  BY <1>1, <1>2
<1>3. CASE a < b
  <2>1. ~LabelLess(A[b], A[a])
    BY <1>3 DEF Sorted
  <2> QED BY <1>1, <2>1 DEF LabelLess
<1> QED BY <1>2, <1>3

LEMMA SkipMerges ==
  ASSUME NEW A \in Seq(Label), NEW B \in Seq(Label), Sorted(A), Sorted(B), NEW m, NEW e, NEW f, NEW o,
         Merged(A, B, m, e, f, o), e <= Len(A), f <= Len(B), A[e].hub # B[f].hub
  PROVE  /\ A[e].hub > B[f].hub => Merged(A, B, m, e, f + 1, o)
         /\ ~(A[e].hub > B[f].hub) => Merged(A, B, m, e + 1, f, o)
<1>1. e \in 1 .. Len(A) /\ f \in 1 .. Len(B) /\ Len(A) \in Nat /\ Len(B) \in Nat /\ e \in Nat /\ f \in Nat
  BY DEF Merged
<1>2. \A p \in Cells(A, B) : p[1] \in 1 .. Len(A) /\ p[2] \in 1 .. Len(B)
  BY DEF Cells
<1>3. ASSUME A[e].hub > B[f].hub, NEW p \in Cells(A, B), Meets(A, B, m, p), p[1] < e \/ p[2] < f + 1
      PROVE  o.dist <= Cost(A, B, p)
  <2>1. p[1] \in 1 .. Len(A) /\ p[2] \in 1 .. Len(B)
    BY <1>2
  <2>2. CASE p[1] < e \/ p[2] < f
    BY <1>3, <2>2 DEF Merged
  <2>3. CASE ~(p[1] < e \/ p[2] < f)
    <3>1. p[2] = f /\ e <= p[1]
      BY <1>1, <1>3, <2>1, <2>3
    <3>2. A[e].hub <= A[p[1]].hub
      BY <1>1, <2>1, <3>1, RowGrows
    <3>3. A[p[1]].hub = B[f].hub
      BY <1>3, <3>1 DEF Meets
    <3>4. A[e].hub \in Int /\ B[f].hub \in Int
      BY <1>1, LabelIs
    <3> QED BY <1>3, <3>2, <3>3, <3>4
  <2> QED BY <2>2, <2>3
<1>4. ASSUME ~(A[e].hub > B[f].hub), NEW p \in Cells(A, B), Meets(A, B, m, p), p[1] < e + 1 \/ p[2] < f
      PROVE  o.dist <= Cost(A, B, p)
  <2>1. p[1] \in 1 .. Len(A) /\ p[2] \in 1 .. Len(B)
    BY <1>2
  <2>2. CASE p[1] < e \/ p[2] < f
    BY <1>4, <2>2 DEF Merged
  <2>3. CASE ~(p[1] < e \/ p[2] < f)
    <3>1. p[1] = e /\ f <= p[2]
      BY <1>1, <1>4, <2>1, <2>3
    <3>2. B[f].hub <= B[p[2]].hub
      BY <1>1, <2>1, <3>1, RowGrows
    <3>3. B[p[2]].hub = A[e].hub
      BY <1>4, <3>1 DEF Meets
    <3>4. A[e].hub \in Int /\ B[f].hub \in Int
      BY <1>1, LabelIs
    <3> QED BY <1>4, <3>2, <3>3, <3>4
  <2> QED BY <2>2, <2>3
<1>5. e + 1 \in 1 .. Len(A) + 1 /\ f + 1 \in 1 .. Len(B) + 1
  BY <1>1
<1> QED BY <1>3, <1>4, <1>5 DEF Merged

(* The run of one hub, and what lies behind it.                            *)
LEMMA RunIs ==
  ASSUME NEW A \in Seq(Label), Sorted(A), NEW e \in 1 .. Len(A), NEW a, a = Answers!RunEnd(A, e)
  PROVE  /\ a \in e + 1 .. Len(A) + 1
         /\ \A q \in e .. a - 1 : A[q].hub = A[e].hub
         /\ \A q \in a .. Len(A) : A[q].hub > A[e].hub
<1> DEFINE S == {q \in e .. Len(A) + 1 : q > Len(A) \/ A[q].hub # A[e].hub}
<1>1. Len(A) \in Nat /\ e \in Nat /\ Len(A) + 1 \in S /\ S \subseteq Nat
  OBVIOUS
<1>2. a = Min(S)
  BY SameAnswers, Zenon DEF Answers!RunEnd
<1>a. \A q : q \in S <=> q \in e .. Len(A) + 1 /\ (q > Len(A) \/ A[q].hub # A[e].hub)
  OBVIOUS
<1> HIDE DEF S
<1>3. a \in S /\ \A q \in S : a <= q
  BY <1>1, <1>2, MinNatural
<1>4. a \in e .. Len(A) + 1 /\ (a > Len(A) \/ A[a].hub # A[e].hub)
  BY <1>3, <1>a
<1>5. a # e /\ a \in e + 1 .. Len(A) + 1
  BY <1>1, <1>4
<1>6. ASSUME NEW q \in e .. a - 1 PROVE A[q].hub = A[e].hub
  <2>1. q \in e .. Len(A) + 1 /\ ~(q > Len(A)) /\ ~(a <= q)
    BY <1>1, <1>5
  <2> QED BY <1>3, <1>a, <2>1
<1>7. ASSUME NEW q \in a .. Len(A) PROVE A[q].hub > A[e].hub
  <2>1. q \in 1 .. Len(A) /\ a \in 1 .. Len(A) /\ e <= a /\ a <= q
    BY <1>1, <1>5
  <2>2. A[e].hub <= A[a].hub /\ A[a].hub <= A[q].hub
    BY <2>1, RowGrows
  <2>3. A[a].hub # A[e].hub
    BY <1>1, <1>4, <2>1
  <2>4. A[e].hub \in Int /\ A[a].hub \in Int /\ A[q].hub \in Int
    BY <2>1, LabelIs
  <2> QED BY <2>2, <2>3, <2>4
<1> QED BY <1>5, <1>6, <1>7

LEMMA BestIs ==
  ASSUME NEW A \in Seq(Label), NEW B \in Seq(Label), NEW m, NEW o, Attained(A, B, m, o)
  PROVE  o.dist \in Nat /\ o.dist <= Inf
<1>1. CASE o = None
  BY <1>1, Sizes DEF None
<1>2. ASSUME NEW p \in Cells(A, B), Cost(A, B, p) < Inf, o = BestOf(A, B, p)
      PROVE  o.dist \in Nat /\ o.dist <= Inf
  <2>1. p[1] \in 1 .. Len(A) /\ p[2] \in 1 .. Len(B)
    BY DEF Cells
  <2>2. A[p[1]].dist \in Nat /\ B[p[2]].dist \in Nat
    BY <2>1, LabelIs
  <2>3. o.dist = A[p[1]].dist + B[p[2]].dist
    BY <1>2 DEF BestOf, Cost
  <2> QED BY <1>2, <2>2, <2>3, Sizes DEF Cost
<1> QED BY <1>1, <1>2 DEF Attained

(* The pairs of a block the loops look at, and what they make of the best. *)
Block(A, B, m, e, f, a, b) ==
  {p \in (e .. a - 1) \X (f .. b - 1) : \A q \in f .. p[2] : A[p[1]].hop + B[q].hop <= m}
Takes(A, B, S, o, o2) ==
  \/ \E p \in S : /\ \A q \in S : Cost(A, B, p) <= Cost(A, B, q)
                  /\ Cost(A, B, p) < o.dist /\ o2 = BestOf(A, B, p)
  \/ /\ \A p \in S : (\A q \in S : Cost(A, B, p) <= Cost(A, B, q)) => ~(Cost(A, B, p) < o.dist)
     /\ o2 = o

(* At one hub: what the inner loop does not look at is over the bound, as  *)
(* hops grow along the row.                                                *)
LEMMA MeetMerges ==
  ASSUME NEW A \in Seq(Label), NEW B \in Seq(Label), Sorted(A), Sorted(B), NEW m \in Nat,
         NEW e, NEW f, NEW o, NEW o2,
         Merged(A, B, m, e, f, o), e <= Len(A), f <= Len(B), A[e].hub = B[f].hub,
         NEW a, a = Answers!RunEnd(A, e), NEW b, b = Answers!RunEnd(B, f),
         NEW S, S = Block(A, B, m, e, f, a, b), Takes(A, B, S, o, o2)
  PROVE  Merged(A, B, m, a, b, o2)
<1>1. e \in 1 .. Len(A) /\ f \in 1 .. Len(B) /\ Len(A) \in Nat /\ Len(B) \in Nat /\ e \in Nat /\ f \in Nat
  BY DEF Merged
<1>2. /\ a \in e + 1 .. Len(A) + 1
      /\ \A q \in e .. a - 1 : A[q].hub = A[e].hub
      /\ \A q \in a .. Len(A) : A[q].hub > A[e].hub
  BY <1>1, RunIs
<1>3. /\ b \in f + 1 .. Len(B) + 1
      /\ \A q \in f .. b - 1 : B[q].hub = A[e].hub
      /\ \A q \in b .. Len(B) : B[q].hub > A[e].hub
  BY <1>1, RunIs
<1>4. \A p \in Cells(A, B) : p[1] \in 1 .. Len(A) /\ p[2] \in 1 .. Len(B) /\ p = <<p[1], p[2]>>
                             /\ Cost(A, B, p) \in Nat
  <2> SUFFICES ASSUME NEW p \in Cells(A, B)
               PROVE  p[1] \in 1 .. Len(A) /\ p[2] \in 1 .. Len(B) /\ p = <<p[1], p[2]>>
                      /\ Cost(A, B, p) \in Nat
    OBVIOUS
  <2>1. p[1] \in 1 .. Len(A) /\ p[2] \in 1 .. Len(B) /\ p = <<p[1], p[2]>>
    BY DEF Cells
  <2>2. A[p[1]].dist \in Nat /\ B[p[2]].dist \in Nat
    BY <2>1, LabelIs
  <2> QED BY <2>1, <2>2 DEF Cost
<1>5. \A p \in S : p \in Cells(A, B) /\ Meets(A, B, m, p)
  <2> SUFFICES ASSUME NEW p \in S PROVE p \in Cells(A, B) /\ Meets(A, B, m, p)
    OBVIOUS
  <2>1. p \in (e .. a - 1) \X (f .. b - 1) /\ \A q \in f .. p[2] : A[p[1]].hop + B[q].hop <= m
    BY DEF Block
  <2>2. p[1] \in e .. a - 1 /\ p[2] \in f .. b - 1 /\ p = <<p[1], p[2]>>
    BY <2>1
  <2>3. p[1] \in 1 .. Len(A) /\ p[2] \in 1 .. Len(B) /\ p[2] \in f .. p[2]
    <3>1. a \in e + 1 .. Len(A) + 1 /\ b \in f + 1 .. Len(B) + 1
      BY <1>2, <1>3
    <3> QED BY ONLY <1>1, <2>2, <3>1
  <2>4. A[p[1]].hop + B[p[2]].hop <= m
    BY <2>1, <2>3
  <2>5. A[p[1]].hub = B[p[2]].hub
    BY <1>2, <1>3, <2>2
  <2> QED BY <2>2, <2>3, <2>4, <2>5 DEF Cells, Meets
<1>6. ASSUME NEW p \in Cells(A, B), Meets(A, B, m, p), p[1] < a \/ p[2] < b, ~(p[1] < e \/ p[2] < f)
      PROVE  p \in S
  <2>1. p[1] \in 1 .. Len(A) /\ p[2] \in 1 .. Len(B) /\ p = <<p[1], p[2]>>
    BY <1>4, <1>6
  <2>2. A[p[1]].hub = B[p[2]].hub /\ A[p[1]].hop + B[p[2]].hop <= m
    BY <1>6 DEF Meets
  <2>3. A[p[1]].hub \in Int /\ B[p[2]].hub \in Int /\ A[e].hub \in Int
    BY <1>1, <2>1, LabelIs
  <2>4. p[1] < a
    <3> SUFFICES ASSUME ~(p[1] < a) PROVE FALSE
      OBVIOUS
    <3>1. p[1] \in a .. Len(A) /\ p[2] \in f .. b - 1
      BY <1>1, <1>2, <1>3, <1>6, <2>1
    <3>2. A[p[1]].hub > A[e].hub /\ B[p[2]].hub = A[e].hub
      BY <1>2, <1>3, <3>1
    <3> QED BY <2>2, <2>3, <3>2
  <2>5. p[2] < b
    <3> SUFFICES ASSUME ~(p[2] < b) PROVE FALSE
      OBVIOUS
    <3>1. p[2] \in b .. Len(B) /\ p[1] \in e .. a - 1
      BY <1>1, <1>2, <1>3, <1>6, <2>1, <2>4
    <3>2. B[p[2]].hub > A[e].hub /\ A[p[1]].hub = A[e].hub
      BY <1>2, <1>3, <3>1
    <3> QED BY <2>2, <2>3, <3>2
  <2>6. p[1] \in e .. a - 1 /\ p[2] \in f .. b - 1
    BY <1>1, <1>2, <1>3, <1>6, <2>1, <2>4, <2>5
  <2>7. ASSUME NEW q \in f .. p[2] PROVE A[p[1]].hop + B[q].hop <= m
    <3>1. q \in 1 .. Len(B) /\ q <= p[2] /\ q \in f .. b - 1
      BY <1>1, <1>3, <2>1, <2>6
    <3>2. B[q].hub = B[p[2]].hub
      BY <1>3, <2>6, <3>1
    <3>3. B[q].hop <= B[p[2]].hop
      BY <2>1, <3>1, <3>2, RowGrows
    <3>4. B[q].hop \in Nat /\ B[p[2]].hop \in Nat /\ A[p[1]].hop \in Nat
      BY <2>1, <3>1, LabelIs
    <3> QED BY <2>2, <3>3, <3>4
  <2>8. p \in (e .. a - 1) \X (f .. b - 1)
    BY <2>1, <2>6
  <2> QED BY <2>7, <2>8 DEF Block
<1>7. Attained(A, B, m, o) /\ o.dist \in Nat /\ o.dist <= Inf
  BY BestIs DEF Merged
<1>8. o2.dist \in Nat /\ o2.dist <= o.dist /\ Attained(A, B, m, o2)
  <2>1. ASSUME NEW p \in S, Cost(A, B, p) < o.dist, o2 = BestOf(A, B, p)
        PROVE  o2.dist \in Nat /\ o2.dist <= o.dist /\ Attained(A, B, m, o2)
    <3>1. p \in Cells(A, B) /\ Meets(A, B, m, p) /\ Cost(A, B, p) \in Nat
      BY <1>4, <1>5
    <3>2. o2.dist = Cost(A, B, p)
      BY <2>1 DEF BestOf
    <3>3. Cost(A, B, p) < Inf
      BY <1>7, <2>1, <3>1, Sizes
    <3> QED BY <1>7, <2>1, <3>1, <3>2, <3>3 DEF Attained
  <2> QED BY <1>7, <2>1 DEF Takes
<1>9. ASSUME NEW p \in S PROVE o2.dist <= Cost(A, B, p)
  <2> DEFINE C == {Cost(A, B, q) : q \in S}
  <2>1. C \subseteq Nat /\ C # {}
    BY <1>4, <1>5
  <2>2. \E c0 \in C : \A d0 \in C : c0 <= d0
    <3> HIDE DEF C
    <3> QED BY <2>1, LeastNatural
  <2>3. PICK q \in S : \A r \in S : Cost(A, B, q) <= Cost(A, B, r)
    BY <2>2
  <2>4. Cost(A, B, q) <= Cost(A, B, p) /\ Cost(A, B, q) \in Nat /\ Cost(A, B, p) \in Nat
    BY <1>4, <1>5, <2>3
  <2>5. ASSUME NEW r \in S, \A q1 \in S : Cost(A, B, r) <= Cost(A, B, q1), o2 = BestOf(A, B, r)
        PROVE  o2.dist <= Cost(A, B, p)
    BY <2>5 DEF BestOf
  <2>6. ASSUME ~(Cost(A, B, q) < o.dist), o2 = o
        PROVE  o2.dist <= Cost(A, B, p)
    BY <1>7, <2>4, <2>6
  <2>7. \/ \E r \in S : /\ \A q1 \in S : Cost(A, B, r) <= Cost(A, B, q1)
                        /\ o2 = BestOf(A, B, r)
        \/ ~(Cost(A, B, q) < o.dist) /\ o2 = o
    BY <2>3 DEF Takes
  <2> QED BY <2>5, <2>6, <2>7
<1>10. ASSUME NEW p \in Cells(A, B), Meets(A, B, m, p), p[1] < a \/ p[2] < b
       PROVE  o2.dist <= Cost(A, B, p)
  <2>1. CASE p[1] < e \/ p[2] < f
    <3>1. o.dist <= Cost(A, B, p)
      BY <1>10, <2>1 DEF Merged
    <3>2. Cost(A, B, p) \in Nat
      BY <1>4
    <3> QED BY <1>7, <1>8, <3>1, <3>2
  <2>2. CASE ~(p[1] < e \/ p[2] < f)
    BY <1>6, <1>9, <1>10, <2>2
  <2> QED BY <2>1, <2>2
<1>11. a \in 1 .. Len(A) + 1 /\ b \in 1 .. Len(B) + 1
  BY <1>1, <1>2, <1>3
<1> QED BY <1>8, <1>10, <1>11 DEF Merged

(* When a row is used up, the best meeting is what a query promises.       *)
LEMMA MergeEnds ==
  ASSUME NEW A \in Seq(Label), NEW B \in Seq(Label), NEW m \in Nat, NEW e, NEW f, NEW o,
         Merged(A, B, m, e, f, o), e > Len(A) \/ f > Len(B)
  PROVE  o.dist = QueryDist(ToSet(A), ToSet(B), m)
<1> DEFINE meetings == {p \in ToSet(A) \X ToSet(B) : p[1].hub = p[2].hub /\ p[1].hop + p[2].hop <= m}
           S == {Inf} \cup {p[1].dist + p[2].dist : p \in meetings}
<1>1. Len(A) \in Nat /\ Len(B) \in Nat /\ e \in 1 .. Len(A) + 1 /\ f \in 1 .. Len(B) + 1
      /\ Attained(A, B, m, o)
  BY DEF Merged
<1>2. o.dist \in Nat /\ o.dist <= Inf
  BY <1>1, BestIs
<1>3. \A p \in Cells(A, B) : /\ p[1] \in 1 .. Len(A) /\ p[2] \in 1 .. Len(B)
                             /\ Meets(A, B, m, p) => o.dist <= Cost(A, B, p)
  <2> SUFFICES ASSUME NEW p \in Cells(A, B)
               PROVE  /\ p[1] \in 1 .. Len(A) /\ p[2] \in 1 .. Len(B)
                      /\ Meets(A, B, m, p) => o.dist <= Cost(A, B, p)
    OBVIOUS
  <2>1. p[1] \in 1 .. Len(A) /\ p[2] \in 1 .. Len(B)
    BY DEF Cells
  <2>2. p[1] < e \/ p[2] < f
    BY <1>1, <2>1
  <2> QED BY <2>1, <2>2 DEF Merged
<1>4. ASSUME NEW l1 \in ToSet(A), NEW l2 \in ToSet(B), l1.hub = l2.hub, l1.hop + l2.hop <= m
      PROVE  o.dist <= l1.dist + l2.dist /\ l1.dist + l2.dist \in Nat
  <2>1. PICK p1 \in 1 .. Len(A) : l1 = A[p1]
    BY DEF ToSet
  <2>2. PICK p2 \in 1 .. Len(B) : l2 = B[p2]
    BY DEF ToSet
  <2>3. <<p1, p2>> \in Cells(A, B) /\ Meets(A, B, m, <<p1, p2>>)
    BY <1>4, <2>1, <2>2 DEF Cells, Meets
  <2>4. Cost(A, B, <<p1, p2>>) = l1.dist + l2.dist
    BY <2>1, <2>2 DEF Cost
  <2>5. l1.dist \in Nat /\ l2.dist \in Nat
    BY <2>1, <2>2, LabelIs
  <2>6. o.dist <= Cost(A, B, <<p1, p2>>)
    BY <1>3, <2>3
  <2> QED BY <2>4, <2>5, <2>6
<1>5. \A p \in meetings : o.dist <= p[1].dist + p[2].dist /\ p[1].dist + p[2].dist \in Nat
  BY <1>4
<1>6. S \subseteq Nat /\ S # {} /\ \A y \in S : o.dist <= y
  <2> HIDE DEF meetings
  <2> QED BY <1>2, <1>5, Sizes
<1>7. o.dist \in S
  <2>1. CASE o = None
    BY <2>1 DEF None
  <2>2. ASSUME NEW p \in Cells(A, B), Meets(A, B, m, p), o = BestOf(A, B, p)
        PROVE  o.dist \in S
    <3>1. p[1] \in 1 .. Len(A) /\ p[2] \in 1 .. Len(B)
      BY <1>3
    <3>2. A[p[1]] \in ToSet(A) /\ B[p[2]] \in ToSet(B)
      BY <3>1 DEF ToSet
    <3>3. <<A[p[1]], B[p[2]]>> \in meetings
      BY <2>2, <3>2 DEF Meets
    <3>4. o.dist = <<A[p[1]], B[p[2]]>>[1].dist + <<A[p[1]], B[p[2]]>>[2].dist
      BY <2>2 DEF BestOf, Cost
    <3> HIDE DEF meetings
    <3> QED BY <3>3, <3>4
  <2> QED BY <1>1, <2>1, <2>2 DEF Attained
<1>8. QueryDist(ToSet(A), ToSet(B), m) = Min(S)
  BY Zenon DEF QueryDist
<1> HIDE DEF S
<1>9. Min(S) \in S /\ \A y \in S : Min(S) <= y
  BY <1>6, MinNatural
<1>10. Min(S) \in Nat /\ Min(S) <= o.dist /\ o.dist <= Min(S)
  BY <1>6, <1>7, <1>9
<1> QED BY <1>2, <1>8, <1>10
-----------------------------------------------------------------------------
(***************************************************************************)
(* 5. The path.  The edges p are of two walks, from a to u and from b to   *)
(* v, and cost c: those in mine are of the first, f and h say where the    *)
(* walks are, sum what they have cost.                                     *)
(***************************************************************************)
TwoWalks(g, p, mine, f, h, sum) ==
  \A m \in 1 .. Len(p) :
    /\ sum[m] = sum[m - 1] + g[p[m]] /\ g[p[m]] > 0
    /\ m \in mine => p[m] = <<f[m - 1], f[m]>> /\ h[m] = h[m - 1]
    /\ m \notin mine => p[m] = <<h[m - 1], h[m]>> /\ f[m] = f[m - 1]
Walked(g, p, a, b, u, v, c) ==
  /\ p \in Seq(Pairs2)
  /\ \E mine \in SUBSET (1 .. Len(p)), f, h \in [0 .. Len(p) -> Vertices], sum \in [0 .. Len(p) -> Nat] :
       /\ f[0] = a /\ h[0] = b /\ sum[0] = 0
       /\ f[Len(p)] = u /\ h[Len(p)] = v /\ sum[Len(p)] = c
       /\ TwoWalks(g, p, mine, f, h, sum)

LEMMA WalkedNone ==
  ASSUME NEW g, NEW a \in Vertices, NEW b \in Vertices
  PROVE  Walked(g, <<>>, a, b, a, b, 0)
<1> DEFINE f == [m \in 0 .. 0 |-> a]
           h == [m \in 0 .. 0 |-> b]
           sum == [m \in 0 .. 0 |-> 0]
<1>1. <<>> \in Seq(Pairs2) /\ Len(<<>>) = 0
  OBVIOUS
<1>2. f \in [0 .. 0 -> Vertices] /\ h \in [0 .. 0 -> Vertices] /\ sum \in [0 .. 0 -> Nat]
      /\ f[0] = a /\ h[0] = b /\ sum[0] = 0
  OBVIOUS
<1>3. TwoWalks(g, <<>>, {}, f, h, sum)
  BY <1>1 DEF TwoWalks
<1> HIDE DEF f, h, sum
<1> QED BY <1>1, <1>2, <1>3 DEF Walked

(* One of the walks goes on by an edge.                                    *)
LEMMA WalkedOn ==
  ASSUME NEW g, Undirected(g), NEW p, NEW a, NEW b, NEW u, NEW v, NEW c,
         Walked(g, p, a, b, u, v, c), NEW first \in BOOLEAN, NEW z \in Vertices, NEW y \in Nbrs(g, z),
         z = IF first THEN u ELSE v, NEW q, q = Append(p, <<z, y>>)
  PROVE  /\ Len(q) = Len(p) + 1
         /\ first => Walked(g, q, a, b, y, v, c + g[<<z, y>>])
         /\ ~first => Walked(g, q, a, b, u, y, c + g[<<z, y>>])
<1> DEFINE n == Len(p)
           l == g[<<z, y>>]
<1>1. p \in Seq(Pairs2) /\ n \in Nat /\ y \in Vertices /\ <<z, y>> \in Pairs2 /\ l \in Nat /\ l > 0
  BY DEF Walked, Nbrs, Undirected, Pairs2
<1>2. PICK mine \in SUBSET (1 .. n), f \in [0 .. n -> Vertices], h \in [0 .. n -> Vertices],
           sum \in [0 .. n -> Nat] :
        /\ f[0] = a /\ h[0] = b /\ sum[0] = 0
        /\ f[n] = u /\ h[n] = v /\ sum[n] = c
        /\ TwoWalks(g, p, mine, f, h, sum)
  BY DEF Walked
<1>3. q \in Seq(Pairs2) /\ Len(q) = n + 1 /\ q[n + 1] = <<z, y>> /\ \A m \in 1 .. n : q[m] = p[m]
  BY <1>1
<1> HIDE DEF n, l
<1> DEFINE F == [m \in 0 .. n + 1 |-> IF m = n + 1 THEN (IF first THEN y ELSE u) ELSE f[m]]
           H == [m \in 0 .. n + 1 |-> IF m = n + 1 THEN (IF first THEN v ELSE y) ELSE h[m]]
           S == [m \in 0 .. n + 1 |-> IF m = n + 1 THEN c + l ELSE sum[m]]
           M == IF first THEN mine \cup {n + 1} ELSE mine
<1>4. n + 1 \in Nat /\ 0 \in 0 .. n /\ 0 # n + 1 /\ n \in 0 .. n /\ 0 \in 0 .. n + 1 /\ n + 1 \in 0 .. n + 1
  BY <1>1
<1>5. u \in Vertices /\ v \in Vertices /\ c \in Nat
  BY <1>2, <1>4
<1>6. \A m \in 0 .. n + 1 : m # n + 1 => m \in 0 .. n
  BY <1>1
<1>7. /\ F \in [0 .. n + 1 -> Vertices] /\ H \in [0 .. n + 1 -> Vertices] /\ S \in [0 .. n + 1 -> Nat]
  BY <1>1, <1>2, <1>5, <1>6
<1>8. /\ F[0] = a /\ H[0] = b /\ S[0] = 0 /\ S[n + 1] = c + l
      /\ F[n + 1] = (IF first THEN y ELSE u) /\ H[n + 1] = (IF first THEN v ELSE y)
  BY <1>2, <1>4
<1>9. \A m \in 0 .. n : F[m] = f[m] /\ H[m] = h[m] /\ S[m] = sum[m]
  <2> SUFFICES ASSUME NEW m \in 0 .. n PROVE F[m] = f[m] /\ H[m] = h[m] /\ S[m] = sum[m]
    OBVIOUS
  <2>1. m \in 0 .. n + 1 /\ m # n + 1
    BY <1>1
  <2> QED BY <2>1
<1>10. /\ M \in SUBSET (1 .. n + 1) /\ (n + 1 \in M <=> first)
       /\ \A m \in 1 .. n : m \in M <=> m \in mine
  <2>1. n + 1 \notin mine /\ mine \subseteq 1 .. n + 1
    BY <1>1, <1>2
  <2>2. \A m \in 1 .. n : m # n + 1
    BY <1>1
  <2>3. n + 1 \in 1 .. n + 1
    BY <1>1
  <2> HIDE DEF F, H, S
  <2>4. CASE first
    <3>1. M = mine \cup {n + 1}
      BY <2>4
    <3> HIDE DEF M
    <3> QED BY <2>1, <2>2, <2>3, <2>4, <3>1
  <2>5. CASE ~first
    <3>1. M = mine
      BY <2>5
    <3> HIDE DEF M
    <3> QED BY <2>1, <2>2, <2>3, <2>5, <3>1
  <2> QED BY <2>4, <2>5
<1> HIDE DEF F, H, S, M
<1>11. TwoWalks(g, q, M, F, H, S)
  <2> SUFFICES ASSUME NEW m \in 1 .. n + 1
               PROVE  /\ S[m] = S[m - 1] + g[q[m]] /\ g[q[m]] > 0
                      /\ m \in M => q[m] = <<F[m - 1], F[m]>> /\ H[m] = H[m - 1]
                      /\ m \notin M => q[m] = <<H[m - 1], H[m]>> /\ F[m] = F[m - 1]
    BY <1>3 DEF TwoWalks
  <2>1. CASE m = n + 1
    <3>1. m - 1 = n /\ n \in 0 .. n
      BY <1>1, <2>1
    <3>2. F[m - 1] = u /\ H[m - 1] = v /\ S[m - 1] = c
      BY <1>2, <1>9, <3>1
    <3>3. g[q[m]] = l /\ l > 0 /\ S[m] = c + l
      BY <1>1, <1>3, <1>8, <2>1 DEF l
    <3>4. CASE first
      BY <1>3, <1>8, <1>10, <2>1, <3>2, <3>3, <3>4
    <3>5. CASE ~first
      BY <1>3, <1>8, <1>10, <2>1, <3>2, <3>3, <3>5
    <3> QED BY <3>4, <3>5
  <2>2. CASE m # n + 1
    <3>1. m \in 1 .. n /\ m \in 0 .. n /\ m - 1 \in 0 .. n
      BY <1>1, <2>2
    <3>2. /\ sum[m] = sum[m - 1] + g[p[m]] /\ g[p[m]] > 0
          /\ m \in mine => p[m] = <<f[m - 1], f[m]>> /\ h[m] = h[m - 1]
          /\ m \notin mine => p[m] = <<h[m - 1], h[m]>> /\ f[m] = f[m - 1]
      BY <1>2, <3>1 DEF TwoWalks, n
    <3>3. q[m] = p[m] /\ (m \in M <=> m \in mine)
      BY <1>3, <1>10, <3>1
    <3>4. /\ F[m] = f[m] /\ H[m] = h[m] /\ S[m] = sum[m]
          /\ F[m - 1] = f[m - 1] /\ H[m - 1] = h[m - 1] /\ S[m - 1] = sum[m - 1]
      BY <1>9, <3>1
    <3> QED BY <3>2, <3>3, <3>4
  <2> QED BY <2>1, <2>2
<1>12. Walked(g, q, a, b, F[n + 1], H[n + 1], c + l)
  BY <1>3, <1>7, <1>8, <1>10, <1>11 DEF Walked
<1> QED BY <1>3, <1>8, <1>12 DEF n, l

LEMMA LeadsAlong ==
  ASSUME NEW f \in [0 .. Len(path) -> Vertices], path \in Seq(Pairs2), NEW mine,
         \A m \in 1 .. Len(path) :
           /\ m \in mine => path[m] = <<f[m - 1], f[m]>> /\ w[path[m]] > 0
           /\ m \notin mine => f[m] = f[m - 1]
  PROVE  WalkTo(f[0], mine) = f[Len(path)]
<1> DEFINE n == Len(path)
           Total(at) == at = [m \in 0 .. n |->
             IF m = 0 THEN f[0]
             ELSE IF m \notin mine THEN at[m - 1]
             ELSE IF path[m][1] = at[m - 1] /\ w[path[m]] > 0 THEN path[m][2]
             ELSE -1]
<1>1. n \in Nat
  OBVIOUS
<1> HIDE DEF n
<1>2. \A m \in 1 .. n : f[m] = IF m \notin mine THEN f[m - 1]
                               ELSE IF path[m][1] = f[m - 1] /\ w[path[m]] > 0 THEN path[m][2]
                               ELSE -1
  BY DEF n
<1>3. Total(f)
  <2>1. \A m \in 0 .. n : f[m] = IF m = 0 THEN f[0]
                                 ELSE IF m \notin mine THEN f[m - 1]
                                 ELSE IF path[m][1] = f[m - 1] /\ w[path[m]] > 0 THEN path[m][2]
                                 ELSE -1
    <3> SUFFICES ASSUME NEW m \in 0 .. n, m # 0
                 PROVE  f[m] = IF m \notin mine THEN f[m - 1]
                               ELSE IF path[m][1] = f[m - 1] /\ w[path[m]] > 0 THEN path[m][2]
                               ELSE -1
      OBVIOUS
    <3>1. m \in 1 .. n
      BY <1>1
    <3> QED BY <1>2, <3>1
  <2>2. f = [m \in 0 .. n |-> f[m]]
    BY DEF n
  <2> QED BY <2>1, <2>2
<1>4. PICK o : Total(o) /\ WalkTo(f[0], mine) = o[n]
  <2> DEFINE first == CHOOSE at : Total(at)
  <2>1. WalkTo(f[0], mine) = first[n]
    BY DEF WalkTo, n
  <2> HIDE DEF Total
  <2>2. Total(first)
    BY <1>3
  <2> QED BY <2>1, <2>2
<1> DEFINE S == {m \in 0 .. n : o[m] = f[m]}
<1>5. 0 .. n \subseteq S
  <2>1. 0 \in S
    BY <1>1, <1>4
  <2>2. ASSUME NEW m \in 0 .. n - 1, m \in S PROVE m + 1 \in S
    <3> DEFINE e == m + 1
    <3>1. e \in 1 .. n /\ e \in 0 .. n /\ e - 1 = m /\ e # 0
      BY <1>1
    <3> HIDE DEF e
    <3>2. o[e] = IF e \notin mine THEN o[e - 1]
                 ELSE IF path[e][1] = o[e - 1] /\ w[path[e]] > 0 THEN path[e][2]
                 ELSE -1
      BY <1>4, <3>1
    <3>3. o[e - 1] = f[e - 1]
      BY <2>2, <3>1
    <3>4. f[e] = IF e \notin mine THEN f[e - 1]
                 ELSE IF path[e][1] = f[e - 1] /\ w[path[e]] > 0 THEN path[e][2]
                 ELSE -1
      BY <1>2, <3>1
    <3>5. o[e] = f[e]
      BY <3>2, <3>3, <3>4
    <3>6. e \in S
      BY <3>1, <3>5
    <3> QED BY <3>6 DEF e
  <2> HIDE DEF S, Total
  <2> QED BY <1>1, <2>1, <2>2, UpTo
<1>6. o[n] = f[n]
  BY <1>1, <1>5
<1> QED BY <1>4, <1>6 DEF n

LEMMA WalkedIsRight ==
  ASSUME NEW g, Undirected(g), w = g, NEW a, NEW b, NEW u, NEW v, NEW c,
         Walked(g, path, a, b, u, v, c)
  PROVE  /\ LengthOf(path) = c
         /\ \E mine \in SUBSET DOMAIN path : WalkTo(a, mine) = u /\ WalkTo(b, DOMAIN path \ mine) = v
<1> DEFINE n == Len(path)
<1>1. path \in Seq(Pairs2) /\ n \in Nat /\ DOMAIN path = 1 .. n
  BY DEF Walked
<1>2. PICK mine \in SUBSET (1 .. n), f \in [0 .. n -> Vertices], h \in [0 .. n -> Vertices],
           sum \in [0 .. n -> Nat] :
        /\ f[0] = a /\ h[0] = b /\ sum[0] = 0
        /\ f[n] = u /\ h[n] = v /\ sum[n] = c
        /\ TwoWalks(g, path, mine, f, h, sum)
  BY DEF Walked
<1>3. \A m \in 1 .. n :
        /\ sum[m] = sum[m - 1] + g[path[m]] /\ g[path[m]] > 0
        /\ m \in mine => path[m] = <<f[m - 1], f[m]>> /\ h[m] = h[m - 1]
        /\ m \notin mine => path[m] = <<h[m - 1], h[m]>> /\ f[m] = f[m - 1]
  BY <1>2 DEF TwoWalks
<1>4. WalkTo(a, mine) = u
  <2>1. WalkTo(f[0], mine) = f[n]
    BY <1>1, <1>3, LeadsAlong
  <2> QED BY <1>2, <2>1
<1>5. WalkTo(b, (1 .. n) \ mine) = v
  <2>1. WalkTo(h[0], (1 .. n) \ mine) = h[n]
    BY <1>1, <1>3, LeadsAlong
  <2> QED BY <1>2, <2>1
<1>6. LengthOf(path) = c
  <2>1. PICK o \in [0 .. n -> Nat] :
          /\ o[0] = 0 /\ \A m \in 1 .. n : o[m] = o[m - 1] + g[path[m]]
          /\ LengthOf(path) = o[n]
    BY <1>1, LengthIs
  <2> HIDE DEF n
  <2> DEFINE S == {m \in 0 .. n : o[m] = sum[m]}
  <2>2. 0 \in S
    BY <1>1, <1>2, <2>1
  <2>3. ASSUME NEW m \in 0 .. n - 1, m \in S PROVE m + 1 \in S
    <3>1. m + 1 \in 1 .. n /\ m + 1 \in 0 .. n /\ (m + 1) - 1 = m
      BY <1>1
    <3>2. o[m + 1] = o[m] + g[path[m + 1]] /\ sum[m + 1] = sum[m] + g[path[m + 1]]
      BY <1>3, <2>1, <3>1
    <3> QED BY <2>3, <3>1, <3>2
  <2>4. 0 .. n \subseteq S
    <3> HIDE DEF S
    <3> QED BY <1>1, <2>2, <2>3, UpTo
  <2>5. o[n] = sum[n]
    BY <1>1, <2>4
  <2> QED BY <1>2, <2>1, <2>5
<1> QED BY <1>1, <1>4, <1>5, <1>6
-----------------------------------------------------------------------------
(***************************************************************************)
(* 6. One call of the recursion.  Each end that is not the hub steps to    *)
(* its parent; what the two edges cost is what the rest is nearer.         *)
(***************************************************************************)
Hops(u, p) == IF u = p THEN 0 ELSE 1
Weight(g, u, p) == IF u = p THEN 0 ELSE g[<<u, p>>]

LEMMA ToParent ==
  ASSUME NEW g, Undirected(g), \A v \in Vertices : g[<<v, v>>] = 0, NEW D, D = HopDist(g),
         NEW u \in Vertices, NEW l \in Label, FromParent(g, u, l), NEW p, p = l.par
  PROVE  /\ p \in Vertices /\ Hops(u, p) \in {0, 1} /\ Weight(g, u, p) \in Nat
         /\ u # p => p \in Nbrs(g, u)
         /\ l.hop - Hops(u, p) \in 0 .. K /\ l.hub \in Vertices
         /\ D[l.hop - Hops(u, p)][<<l.hub, p>>] + Weight(g, u, p) <= l.dist
         /\ \A m \in 0 .. K - Hops(u, p) : \A y \in Vertices :
              D[m + Hops(u, p)][<<u, y>>] <= Weight(g, u, p) + D[m][<<p, y>>]
<1>1. /\ l.hub \in Vertices /\ l.hop \in 0 .. K /\ l.dist \in Nat /\ p \in Vertices /\ K \in Nat
      /\ l.hop \in Nat
  BY Sizes DEF Label
<1>2. \A h \in 0 .. K : \A v, y \in Vertices : D[h][<<v, y>>] \in Nat
  BY DistSteps
<1>3. CASE l.hop = 0
  <2>1. l.hub = u /\ p = u /\ l.dist = 0
    BY <1>3 DEF FromParent
  <2>2. Hops(u, p) = 0 /\ Weight(g, u, p) = 0
    BY <2>1 DEF Hops, Weight
  <2>3. D[0][<<u, u>>] = 0
    BY DistSteps
  <2>4. l.hop - Hops(u, p) = 0 /\ 0 \in 0 .. K
    BY <1>1, <1>3, <2>2
  <2>5. \A m \in 0 .. K - Hops(u, p) : m \in 0 .. K /\ m + Hops(u, p) = m
    BY <1>1, <2>2
  <2> QED BY <1>1, <1>2, <2>1, <2>2, <2>3, <2>4, <2>5
<1>4. CASE l.hop # 0
  <2>1. p \in Nbrs(g, u) /\ D[l.hop - 1][<<l.hub, p>>] + g[<<p, u>>] <= l.dist
    BY <1>4, Zenon DEF FromParent, HopDist
  <2>2. u # p /\ g[<<u, p>>] \in Nat /\ g[<<p, u>>] = g[<<u, p>>]
    BY <1>1, <2>1 DEF Nbrs, Undirected
  <2>3. Hops(u, p) = 1 /\ Weight(g, u, p) = g[<<u, p>>]
    BY <2>2 DEF Hops, Weight
  <2>4. ASSUME NEW m \in 0 .. K - 1, NEW y \in Vertices
        PROVE  D[m + 1][<<u, y>>] <= g[<<u, p>>] + D[m][<<p, y>>]
    <3>1. m + 1 \in 1 .. K /\ (m + 1) - 1 = m /\ m \in 0 .. K /\ m + 1 \in 0 .. K
      BY <1>1
    <3>2. D[m + 1][<<y, u>>] <= D[(m + 1) - 1][<<y, p>>] + g[<<p, u>>]
      BY <1>1, <2>1, <3>1, DistSteps
    <3>3. D[m + 1][<<y, u>>] = D[m + 1][<<u, y>>] /\ D[m][<<y, p>>] = D[m][<<p, y>>]
      BY <1>1, <3>1, DistSymmetric
    <3>4. D[m][<<p, y>>] \in Nat
      BY <1>1, <1>2, <3>1
    <3> QED BY <2>2, <3>1, <3>2, <3>3, <3>4
  <2>5. l.hop - 1 \in 0 .. K
    BY <1>1, <1>4
  <2> QED BY <1>1, <2>1, <2>2, <2>3, <2>4, <2>5
<1> QED BY <1>3, <1>4

LEMMA UnrollExact ==
  ASSUME NEW g, Undirected(g), \A v \in Vertices : g[<<v, v>>] = 0, NEW D, D = HopDist(g),
         NEW u \in Vertices, NEW v \in Vertices, NEW m \in 0 .. K,
         NEW la \in Label, FromParent(g, u, la), NEW lb \in Label, FromParent(g, v, lb),
         la.hub = lb.hub, la.hop + lb.hop <= m, la.dist + lb.dist = D[m][<<u, v>>],
         NEW p, p = la.par, NEW q, q = lb.par,
         NEW r, r = m - (Hops(u, p) + Hops(v, q))
  PROVE  /\ r \in 0 .. K
         /\ Weight(g, u, p) + Weight(g, v, q) + D[r][<<p, q>>] = D[m][<<u, v>>]
<1> DEFINE hu == Hops(u, p)
           hv == Hops(v, q)
           wu == Weight(g, u, p)
           wv == Weight(g, v, q)
           ru == la.hop - hu
           rv == lb.hop - hv
           z == la.hub
<1>1. /\ p \in Vertices /\ hu \in {0, 1} /\ wu \in Nat /\ ru \in 0 .. K /\ z \in Vertices
      /\ D[ru][<<z, p>>] + wu <= la.dist
      /\ \A e \in 0 .. K - hu : \A y \in Vertices : D[e + hu][<<u, y>>] <= wu + D[e][<<p, y>>]
  BY ToParent
<1>2. /\ q \in Vertices /\ hv \in {0, 1} /\ wv \in Nat /\ rv \in 0 .. K
      /\ D[rv][<<z, q>>] + wv <= lb.dist
      /\ \A e \in 0 .. K - hv : \A y \in Vertices : D[e + hv][<<v, y>>] <= wv + D[e][<<q, y>>]
  BY ToParent
<1>3. K \in Nat /\ m \in Nat /\ m <= K /\ la.hop \in Nat /\ lb.hop \in Nat /\ la.dist \in Nat /\ lb.dist \in Nat
      /\ hu \in Nat /\ hv \in Nat
  BY <1>1, <1>2, Sizes DEF Label
<1>4. \A h \in 0 .. K : \A x1, y1 \in Vertices : D[h][<<x1, y1>>] \in Nat
  BY DistSteps
<1> HIDE DEF hu, hv, wu, wv, z
<1>5. /\ r = m - (hu + hv) /\ r \in 0 .. K /\ ru + rv \in 0 .. K /\ ru + rv <= r
      /\ ru \in Nat /\ rv \in Nat /\ r + hu \in 0 .. K /\ r \in 0 .. K - hu /\ r + hu \in 0 .. K - hv
      /\ r + hu + hv = m
  BY <1>1, <1>2, <1>3 DEF hu, hv
<1> HIDE DEF ru, rv
<1>6. D[r][<<p, q>>] <= D[ru][<<z, p>>] + D[rv][<<z, q>>]
  <2>1. D[r][<<p, q>>] <= D[ru + rv][<<p, q>>]
    BY <1>1, <1>2, <1>5, DistMonotone
  <2>2. D[ru + rv][<<p, q>>] <= D[ru][<<p, z>>] + D[rv][<<z, q>>]
    <3>1. ru + rv <= K
      BY <1>3, <1>5
    <3> QED BY <1>1, <1>2, <3>1, DistTriangle
  <2>3. D[ru][<<p, z>>] = D[ru][<<z, p>>]
    BY <1>1, DistSymmetric
  <2>4. D[r][<<p, q>>] \in Nat /\ D[ru + rv][<<p, q>>] \in Nat /\ D[ru][<<z, p>>] \in Nat
        /\ D[rv][<<z, q>>] \in Nat
    BY <1>1, <1>2, <1>4, <1>5
  <2> QED BY <2>1, <2>2, <2>3, <2>4
<1>7. D[m][<<u, v>>] <= wu + wv + D[r][<<p, q>>]
  <2>1. D[r + hu][<<u, q>>] <= wu + D[r][<<p, q>>]
    BY <1>1, <1>2, <1>5
  <2>2. D[r + hu + hv][<<v, u>>] <= wv + D[r + hu][<<q, u>>]
    BY <1>2, <1>5
  <2>3. D[r + hu][<<q, u>>] = D[r + hu][<<u, q>>] /\ D[m][<<v, u>>] = D[m][<<u, v>>]
    BY <1>2, <1>5, DistSymmetric
  <2>4. D[r][<<p, q>>] \in Nat /\ D[r + hu][<<u, q>>] \in Nat /\ D[m][<<u, v>>] \in Nat
    BY <1>1, <1>2, <1>4, <1>5
  <2>5. D[m][<<u, v>>] <= wv + D[r + hu][<<u, q>>]
    BY <1>5, <2>2, <2>3
  <2> QED BY <1>1, <1>2, <2>1, <2>4, <2>5
<1>8. wu + wv + D[r][<<p, q>>] <= D[m][<<u, v>>]
  <2>1. D[r][<<p, q>>] \in Nat /\ D[ru][<<z, p>>] \in Nat /\ D[rv][<<z, q>>] \in Nat
        /\ D[m][<<u, v>>] \in Nat
    BY <1>1, <1>2, <1>4, <1>5
  <2>2. D[m][<<u, v>>] = la.dist + lb.dist
    OBVIOUS
  <2> DEFINE d1 == D[r][<<p, q>>]
             d2 == D[ru][<<z, p>>]
             d3 == D[rv][<<z, q>>]
             d4 == la.dist
             d5 == lb.dist
  <2>3. d1 <= d2 + d3 /\ d2 + wu <= d4 /\ d3 + wv <= d5
        /\ d1 \in Nat /\ d2 \in Nat /\ d3 \in Nat /\ d4 \in Nat /\ d5 \in Nat /\ wu \in Nat /\ wv \in Nat
    BY <1>1, <1>2, <1>3, <1>6, <2>1
  <2> HIDE DEF d1, d2, d3, d4, d5
  <2>4. wu + wv + d1 <= d4 + d5
    BY ONLY <2>3
  <2> QED BY <2>2, <2>4 DEF d1, d4, d5
<1>9. wu + wv + D[r][<<p, q>>] = D[m][<<u, v>>]
  <2>1. D[r][<<p, q>>] \in Nat /\ D[m][<<u, v>>] \in Nat
    BY <1>1, <1>2, <1>4, <1>5
  <2> QED BY <1>1, <1>2, <1>7, <1>8, <2>1
<1> QED BY <1>5, <1>9 DEF wu, wv
-----------------------------------------------------------------------------
(***************************************************************************)
(* 7. The query.  D are the distances of the graph of x; a, b and n are    *)
(* what was asked.  Where the path has come, what it has cost and what is  *)
(* left are the distance, and its edges and the hops left the hop bound.   *)
(***************************************************************************)
Route(g, D, a, b, n) ==
  /\ dis = D[n][<<a, b>>]
  /\ dis = Inf => path = <<>>
  /\ \E c \in Nat : /\ Walked(g, path, a, b, s, t, c)
                    /\ c + D[k][<<s, t>>] = dis /\ Len(path) + k = n
Asking(x, D, a, b, n) ==
  /\ s \in Vertices /\ t \in Vertices /\ k \in 0 .. K
  /\ phase \in {"distance", "path"} /\ pc \in {"ask", "merge", "answered", "call", "done"}
  /\ pc = "ask" => phase = "distance"
  /\ pc \in {"answered", "call", "done"} => phase = "path"
  /\ phase = "distance" => path = <<>> /\ s = a /\ t = b /\ k = n
  /\ phase = "path" => Route(x.w, D, a, b, n)
  /\ pc = "merge" => Merged(x.rows[s], x.rows[t], k, i, j, best)
  /\ pc = "done" => dis = Inf \/ s = t

LEMMA StartsMerged ==
  ASSUME NEW A \in Seq(Label), NEW B \in Seq(Label), NEW m
  PROVE  Merged(A, B, m, 1, 1, None)
<1>1. 1 \in 1 .. Len(A) + 1 /\ 1 \in 1 .. Len(B) + 1
  OBVIOUS
<1>2. \A p \in Cells(A, B) : ~(p[1] < 1 \/ p[2] < 1)
  BY DEF Cells
<1> QED BY <1>1, <1>2 DEF Merged, Attained

LEMMA DistSelf ==
  ASSUME NEW g, Undirected(g), NEW D, D = HopDist(g), NEW m \in 0 .. K, NEW v \in Vertices
  PROVE  D[m][<<v, v>>] = 0
<1>1. K \in Nat /\ m \in Nat /\ m <= K /\ 0 \in 0 .. K /\ 0 <= m
  BY Sizes
<1>2. D[0][<<v, v>>] = 0 /\ D[m][<<v, v>>] \in Nat
  BY DistSteps
<1>3. D[m][<<v, v>>] <= D[0][<<v, v>>]
  BY <1>1, DistMonotone
<1> QED BY <1>2, <1>3

LEMMA AskAsks ==
  ASSUME NEW x \in Indexes, NEW D, D = HopDist(x.w), NEW a \in Vertices, NEW b \in Vertices,
         NEW n \in 0 .. K, Asking(x, D, a, b, n), Answers!AskDistance
  PROVE  Asking(x, D, a, b, n)'
<1>1. /\ pc = "ask" /\ phase = "distance" /\ path = <<>> /\ s = a /\ t = b /\ k = n
      /\ path' = path /\ s' = s /\ t' = t /\ k' = k
  BY DEF Asking, Answers!AskDistance
<1>2. Undirected(x.w) /\ x.rows \in [Vertices -> Seq(Label)]
  BY IndexIs
<1>3. \/ a = b /\ dis' = 0 /\ phase' = "path" /\ pc' = "answered"
      \/ a # b /\ n = 0 /\ dis' = Inf /\ phase' = "path" /\ pc' = "answered"
      \/ pc' = "merge" /\ phase' = phase /\ i' = 1 /\ j' = 1 /\ best' = None
  BY <1>1, SameAnswers DEF Answers!AskDistance, Answers!StartMerge, Answers!NoMeeting, None
<1>4. CASE dis' = D[n][<<a, b>>] /\ phase' = "path" /\ pc' = "answered"
  <2>1. Walked(x.w, path', a, b, s', t', 0)
    BY <1>1, WalkedNone
  <2>2. D[n][<<a, b>>] \in Nat /\ n \in Nat /\ Len(path') = 0
    <3>1. \A h \in 0 .. K : \A u, v \in Vertices : D[h][<<u, v>>] \in Nat
      BY ONLY <1>2, D = HopDist(x.w), DistSteps
    <3>2. n \in Nat
      BY Sizes
    <3>3. Len(path') = 0
      BY <1>1
    <3> QED BY <3>1, <3>2, <3>3
  <2>3. 0 + D[k'][<<s', t'>>] = dis' /\ Len(path') + k' = n
    BY <1>1, <1>4, <2>2
  <2>4. Route(x.w, D, a, b, n)'
    BY <1>1, <1>4, <2>1, <2>3 DEF Route
  <2> QED BY <1>1, <1>4, <2>4 DEF Asking
<1>5. CASE a = b /\ dis' = 0 /\ phase' = "path" /\ pc' = "answered"
  BY <1>2, <1>4, <1>5, DistSelf
<1>6. CASE a # b /\ n = 0 /\ dis' = Inf /\ phase' = "path" /\ pc' = "answered"
  BY <1>2, <1>4, <1>6, DistSteps
<1>7. CASE pc' = "merge" /\ phase' = phase /\ i' = 1 /\ j' = 1 /\ best' = None
  <2>1. Merged(x.rows[s'], x.rows[t'], k', i', j', best')
    BY <1>1, <1>2, <1>7, StartsMerged
  <2> QED BY <1>1, <1>7, <2>1 DEF Asking
<1> QED BY <1>3, <1>5, <1>6, <1>7

LEMMA SkipAsks ==
  ASSUME NEW x \in Indexes, L = x.rows, NEW D, NEW a, NEW b, NEW n,
         Asking(x, D, a, b, n), Answers!Skip
  PROVE  Asking(x, D, a, b, n)'
<1> DEFINE A == x.rows[s]
           B == x.rows[t]
<1>1. /\ pc = "merge" /\ UNCHANGED <<dis, phase, pc, s, t, k, best, path>>
      /\ ~(i > Len(A)) /\ ~(j > Len(B)) /\ A[i].hub # B[j].hub
      /\ IF A[i].hub > B[j].hub THEN j' = j + 1 /\ i' = i ELSE i' = i + 1 /\ j' = j
  BY DEF Answers!Skip, Answers!AtEnd
<1>2. Merged(A, B, k, i, j, best) /\ A \in Seq(Label) /\ B \in Seq(Label) /\ Sorted(A) /\ Sorted(B)
  BY <1>1, IndexIs DEF Asking, Sorted
<1>3. i <= Len(A) /\ j <= Len(B)
  BY <1>1, <1>2 DEF Merged
<1>4. Merged(A, B, k, i', j', best)
  <2> HIDE DEF A, B
  <2>1. /\ A[i].hub > B[j].hub => Merged(A, B, k, i, j + 1, best)
        /\ ~(A[i].hub > B[j].hub) => Merged(A, B, k, i + 1, j, best)
    BY <1>1, <1>2, <1>3, SkipMerges
  <2> QED BY <1>1, <2>1
<1>5. Merged(x.rows[s'], x.rows[t'], k', i', j', best')
  BY <1>1, <1>4
<1>6. Route(x.w, D, a, b, n)' = Route(x.w, D, a, b, n)
  BY <1>1 DEF Route
<1> QED BY <1>1, <1>5, <1>6 DEF Asking

LEMMA MeetAsks ==
  ASSUME NEW x \in Indexes, L = x.rows, NEW D, NEW a, NEW b, NEW n,
         Asking(x, D, a, b, n), Answers!Meet
  PROVE  Asking(x, D, a, b, n)'
<1> DEFINE A == x.rows[s]
           B == x.rows[t]
           e == Answers!RunEnd(A, i)
           f == Answers!RunEnd(B, j)
           S == {p \in (i .. e - 1) \X (j .. f - 1) :
                   \A q \in j .. p[2] : A[p[1]].hop + B[q].hop <= k}
           Sum(p) == A[p[1]].dist + B[p[2]].dist
           cheapest == {p \in S : \A q \in S : Sum(p) <= Sum(q)}
<1>1. /\ pc = "merge" /\ UNCHANGED <<dis, phase, pc, s, t, k, path>>
      /\ ~(i > Len(A)) /\ ~(j > Len(B)) /\ A[i].hub = B[j].hub /\ i' = e /\ j' = f
  BY DEF Answers!Meet, Answers!AtEnd
<1>2. IF \E p \in cheapest : Sum(p) < best.dist
      THEN \E p \in cheapest :
             best' = [dist |-> Sum(p), ps |-> A[p[1]].par, pt |-> B[p[2]].par]
      ELSE best' = best
  BY ZenonT(60) DEF Answers!Meet, Answers!Looked
<1>3. Merged(A, B, k, i, j, best) /\ A \in Seq(Label) /\ B \in Seq(Label) /\ Sorted(A) /\ Sorted(B)
      /\ k \in Nat
  <2>1. s \in Vertices /\ t \in Vertices /\ k \in 0 .. K /\ Merged(A, B, k, i, j, best)
    BY <1>1 DEF Asking
  <2>2. A \in Seq(Label) /\ B \in Seq(Label)
    BY <2>1, IndexIs
  <2>3. Sorted(A) /\ Sorted(B)
    BY <2>1, IndexIs DEF Sorted
  <2> QED BY <2>1, <2>2, <2>3, Sizes
<1>4. i <= Len(A) /\ j <= Len(B)
  BY <1>1, <1>3 DEF Merged
<1>5. Takes(A, B, S, best, best')
  <2>1. \A p : Sum(p) = Cost(A, B, p)
    BY DEF Cost
  <2>2. \A p \in cheapest : p \in S /\ \A q \in S : Sum(p) <= Sum(q)
    OBVIOUS
  <2>3. \A p \in S : (\A q \in S : Sum(p) <= Sum(q)) => p \in cheapest
    OBVIOUS
  <2>4. CASE \E p \in cheapest : Sum(p) < best.dist
    <3>1. PICK p \in cheapest : Sum(p) < best.dist
      BY <2>4
    <3>2. PICK q \in cheapest : best' = [dist |-> Sum(q), ps |-> A[q[1]].par, pt |-> B[q[2]].par]
      BY <1>2, <2>4
    <3>3. Sum(q) <= Sum(p) /\ Sum(p) <= Sum(q)
      BY <2>2
    <3>4. Sum(q) \in Nat /\ Sum(p) \in Nat
      <4>1. \A z \in S : Sum(z) \in Nat
        <5>1. e \in i + 1 .. Len(A) + 1 /\ f \in j + 1 .. Len(B) + 1
          <6>1. i \in 1 .. Len(A) /\ j \in 1 .. Len(B)
            BY <1>3, <1>4 DEF Merged
          <6> QED BY <1>3, <6>1, RunIs
        <5>2. i \in Nat /\ i >= 1 /\ j \in Nat /\ j >= 1 /\ Len(A) \in Nat /\ Len(B) \in Nat
          BY <1>3 DEF Merged
        <5> HIDE DEF e, f
        <5>3. ASSUME NEW z \in S PROVE z[1] \in 1 .. Len(A) /\ z[2] \in 1 .. Len(B)
          <6>1. z[1] \in i .. e - 1 /\ z[2] \in j .. f - 1
            OBVIOUS
          <6> HIDE DEF A, B, S
          <6> QED BY <5>1, <5>2, <6>1
        <5> HIDE DEF A, B, S
        <5> QED BY <1>3, <5>3, LabelIs
      <4> QED BY <2>2, <4>1
    <3>5. Sum(q) < best.dist
      <4> HIDE DEF Sum
      <4>1. best.dist \in Nat
        BY <1>3, BestIs DEF Merged
      <4> QED BY <3>1, <3>3, <3>4, <4>1
    <3>6. q \in S /\ \A z \in S : Cost(A, B, q) <= Cost(A, B, z)
      BY <2>1, <2>2
    <3>7. best' = BestOf(A, B, q)
      BY <2>1, <3>2 DEF BestOf
    <3> QED BY <2>1, <3>5, <3>6, <3>7 DEF Takes
  <2>5. CASE ~\E p \in cheapest : Sum(p) < best.dist
    <3> HIDE DEF S, cheapest, Sum
    <3>1. best' = best
      BY <1>2, <2>5
    <3> QED BY <2>1, <2>3, <2>5, <3>1 DEF Takes
  <2> QED BY <2>4, <2>5
<1>6. Merged(A, B, k, i', j', best')
  <2>1. S = Block(A, B, k, i, j, e, f)
    BY DEF Block
  <2>2. e = Answers!RunEnd(A, i) /\ f = Answers!RunEnd(B, j)
    OBVIOUS
  <2> HIDE DEF A, B, e, f, S, Sum, cheapest
  <2>3. A[i].hub = B[j].hub
    BY <1>1
  <2>4. ASSUME NEW o2, Takes(A, B, S, best, o2) PROVE Merged(A, B, k, e, f, o2)
    BY ONLY <1>3, <1>4, <2>1, <2>2, <2>3, <2>4, MeetMerges
  <2>5. Merged(A, B, k, e, f, best')
    BY ONLY <1>5, <2>4
  <2> QED BY <1>1, <2>5
<1>7. Merged(x.rows[s'], x.rows[t'], k', i', j', best')
  BY <1>1, <1>6
<1>8. Route(x.w, D, a, b, n)' = Route(x.w, D, a, b, n)
  BY <1>1 DEF Route
<1> QED BY <1>1, <1>7, <1>8 DEF Asking

(* The merge has found what the labels promise, and they keep it.          *)
LEMMA MergeIsExact ==
  ASSUME NEW x \in Indexes, L = x.rows, NEW D, D = HopDist(x.w), NEW a, NEW b, NEW n,
         Asking(x, D, a, b, n), pc = "merge", Answers!AtEnd
  PROVE  best.dist = D[k][<<s, t>>]
<1> DEFINE A == x.rows[s]
           B == x.rows[t]
           labels == [v \in Vertices |-> ToSet(x.rows[v])]
<1>1. /\ s \in Vertices /\ t \in Vertices /\ k \in 0 .. K /\ k \in Nat
      /\ Merged(A, B, k, i, j, best) /\ (i > Len(A) \/ j > Len(B))
  BY Sizes DEF Asking, Answers!AtEnd
<1>2. A \in Seq(Label) /\ B \in Seq(Label) /\ Covers(labels, x.w)
  BY <1>1, IndexIs
<1>3. best.dist = QueryDist(ToSet(A), ToSet(B), k)
  <2> HIDE DEF A, B
  <2> QED BY <1>1, <1>2, MergeEnds
<1>4. QueryDist(labels[s], labels[t], k) = D[k][<<s, t>>]
  <2> HIDE DEF labels
  <2> QED BY <1>1, <1>2 DEF Covers
<1>5. labels[s] = ToSet(A) /\ labels[t] = ToSet(B)
  BY <1>1
<1> QED BY <1>3, <1>4, <1>5

LEMMA AnswerAsks ==
  ASSUME NEW x \in Indexes, L = x.rows, NEW D, D = HopDist(x.w), NEW a \in Vertices,
         NEW b \in Vertices, NEW n \in 0 .. K,
         Asking(x, D, a, b, n), Answers!Answer
  PROVE  Asking(x, D, a, b, n)'
<1>1. /\ pc = "merge" /\ Answers!AtEnd /\ phase = "distance"
      /\ dis' = best.dist /\ phase' = "path" /\ pc' = "answered"
      /\ path' = path /\ s' = s /\ t' = t /\ k' = k
  BY DEF Answers!Answer
<1>2. path = <<>> /\ s = a /\ t = b /\ k = n
  BY <1>1 DEF Asking
<1>3. best.dist = D[n][<<a, b>>]
  BY <1>1, <1>2, MergeIsExact
<1>4. Undirected(x.w)
  BY IndexIs
<1>5. Walked(x.w, path', a, b, s', t', 0)
  BY <1>1, <1>2, WalkedNone
<1>6. D[n][<<a, b>>] \in Nat /\ n \in Nat /\ Len(path') = 0
  BY <1>1, <1>2, <1>4, DistSteps
<1>7. 0 + D[k'][<<s', t'>>] = dis' /\ Len(path') + k' = n
  BY <1>1, <1>2, <1>3, <1>6
<1>8. Route(x.w, D, a, b, n)'
  BY <1>1, <1>2, <1>3, <1>5, <1>7 DEF Route
<1> QED BY <1>1, <1>2, <1>8 DEF Asking

LEMMA CallAsks ==
  ASSUME NEW x \in Indexes, L = x.rows, NEW D, NEW a, NEW b, NEW n,
         Asking(x, D, a, b, n), Answers!CallPath
  PROVE  Asking(x, D, a, b, n)'
<1>1. /\ pc = "call" /\ UNCHANGED <<dis, phase, s, t, k, path>>
      /\ IF s = t THEN pc' = "done"
         ELSE i' = 1 /\ j' = 1 /\ best' = None /\ pc' = "merge"
  BY SameAnswers DEF Answers!CallPath, Answers!StartMerge, Answers!NoMeeting, None
<1>2. pc' = "merge" => Merged(x.rows[s'], x.rows[t'], k', i', j', best')
  BY <1>1, StartsMerged, IndexIs DEF Asking
<1>3. Route(x.w, D, a, b, n)' = Route(x.w, D, a, b, n)
  BY <1>1 DEF Route
<1> QED BY <1>1, <1>2, <1>3 DEF Asking

(* A walk goes on to the parent, or stays where it is.                     *)
OnTo(p, z, y) == IF z = y THEN p ELSE Append(p, <<z, y>>)
LEMMA WalkedOnTo ==
  ASSUME NEW g, Undirected(g), NEW p, NEW a, NEW b, NEW u \in Vertices, NEW v \in Vertices,
         NEW c \in Nat, Walked(g, p, a, b, u, v, c), NEW first \in BOOLEAN, NEW y \in Vertices,
         NEW z, z = IF first THEN u ELSE v, z # y => y \in Nbrs(g, z), NEW q, q = OnTo(p, z, y)
  PROVE  /\ Len(q) = Len(p) + Hops(z, y)
         /\ first => Walked(g, q, a, b, y, v, c + Weight(g, z, y))
         /\ ~first => Walked(g, q, a, b, u, y, c + Weight(g, z, y))
<1>1. CASE z = y
  <2>1. q = p /\ Hops(z, y) = 0 /\ Weight(g, z, y) = 0 /\ Len(p) \in Nat
    BY <1>1 DEF OnTo, Hops, Weight, Walked
  <2> QED BY <1>1, <2>1
<1>2. CASE z # y
  <2>1. q = Append(p, <<z, y>>) /\ Hops(z, y) = 1 /\ Weight(g, z, y) = g[<<z, y>>] /\ z \in Vertices
    BY <1>2 DEF OnTo, Hops, Weight
  <2> QED BY <1>2, <2>1, WalkedOn
<1> QED BY <1>1, <1>2

LEMMA BothOn ==
  ASSUME NEW g, Undirected(g), NEW p, NEW a, NEW b, NEW u \in Vertices, NEW v \in Vertices,
         NEW c \in Nat, Walked(g, p, a, b, u, v, c), NEW y \in Vertices, NEW z \in Vertices,
         u # y => y \in Nbrs(g, u), v # z => z \in Nbrs(g, v),
         NEW q, q = OnTo(OnTo(p, u, y), v, z)
  PROVE  /\ Len(q) = Len(p) + Hops(u, y) + Hops(v, z)
         /\ Walked(g, q, a, b, y, z, c + Weight(g, u, y) + Weight(g, v, z))
<1> DEFINE p1 == OnTo(p, u, y)
           c1 == c + Weight(g, u, y)
<1>1. TRUE \in BOOLEAN /\ FALSE \in BOOLEAN /\ TRUE /\ ~FALSE
  OBVIOUS
<1>3. c1 \in Nat
  BY DEF Weight, Nbrs, Undirected
<1>4. p1 = OnTo(p, u, y) /\ q = OnTo(p1, v, z)
  OBVIOUS
<1> HIDE DEF p1
<1>5. Len(p1) = Len(p) + Hops(u, y) /\ Walked(g, p1, a, b, y, v, c1)
  <2>1. ASSUME NEW first \in BOOLEAN, first, NEW o, o = IF first THEN u ELSE v,
               NEW q1, q1 = OnTo(p, o, y)
        PROVE  Len(q1) = Len(p) + Hops(o, y) /\ Walked(g, q1, a, b, y, v, c + Weight(g, o, y))
    <3>1. o # y => y \in Nbrs(g, o)
      BY <2>1
    <3>2. u \in Vertices /\ v \in Vertices /\ y \in Vertices /\ c \in Nat
      OBVIOUS
    <3>3. Undirected(g) /\ Walked(g, p, a, b, u, v, c)
      OBVIOUS
    <3>4. first => Walked(g, q1, a, b, y, v, c + Weight(g, o, y))
      BY ONLY <2>1, <3>1, <3>2, <3>3, WalkedOnTo
    <3>5. Len(q1) = Len(p) + Hops(o, y)
      <4>1. p \in Seq(Pairs2) /\ <<o, y>> \in Pairs2
        BY <2>1, <3>2, <3>3 DEF Walked, Pairs2
      <4> QED BY <2>1, <4>1 DEF OnTo, Hops
    <3> QED BY <2>1, <3>4, <3>5
  <2>2. ASSUME NEW first \in BOOLEAN, first
        PROVE  Len(p1) = Len(p) + Hops(u, y) /\ Walked(g, p1, a, b, y, v, c + Weight(g, u, y))
    BY <1>4, <2>1, <2>2
  <2> QED BY <1>1, <2>2
<1> HIDE DEF c1
<1>6. Len(q) = Len(p1) + Hops(v, z) /\ Walked(g, q, a, b, y, z, c1 + Weight(g, v, z))
  <2>1. ASSUME NEW first \in BOOLEAN, ~first
        PROVE  Len(q) = Len(p1) + Hops(v, z) /\ Walked(g, q, a, b, y, z, c1 + Weight(g, v, z))
    <3>1. v = IF first THEN y ELSE v
      BY <2>1
    <3> QED BY <1>3, <1>4, <1>5, <2>1, <3>1, WalkedOnTo
  <2> QED BY <1>1, <2>1
<1> QED BY <1>5, <1>6 DEF c1

LEMMA EdgesOn ==
  ASSUME NEW p \in Seq(Pairs2), NEW y \in Vertices, NEW z \in Vertices, s \in Vertices, t \in Vertices
  PROVE  /\ p \o Answers!EdgesTo(y, z) = OnTo(OnTo(p, s, y), t, z)
         /\ Len(Answers!EdgesTo(y, z)) = Hops(s, y) + Hops(t, z)
<1> DEFINE e1 == <<s, y>>
           e2 == <<t, z>>
<1>1. e1 \in Pairs2 /\ e2 \in Pairs2
  BY DEF Pairs2
<1>2. Answers!EdgesTo(y, z) = (IF s # y THEN <<e1>> ELSE <<>>) \o (IF t # z THEN <<e2>> ELSE <<>>)
  BY DEF Answers!EdgesTo
<1>3. OnTo(OnTo(p, s, y), t, z) =
        IF t = z THEN (IF s = y THEN p ELSE Append(p, e1))
        ELSE Append(IF s = y THEN p ELSE Append(p, e1), e2)
  BY DEF OnTo
<1> HIDE DEF e1, e2
<1>4. /\ p \o (<<>> \o <<>>) = p /\ Len(<<>> \o <<>>) = 0
      /\ p \o (<<e1>> \o <<>>) = Append(p, e1) /\ Len(<<e1>> \o <<>>) = 1
      /\ p \o (<<>> \o <<e2>>) = Append(p, e2) /\ Len(<<>> \o <<e2>>) = 1
  BY <1>1
<1>5. p \o (<<e1>> \o <<e2>>) = Append(Append(p, e1), e2) /\ Len(<<e1>> \o <<e2>>) = 2
  BY <1>1
<1> DEFINE E == (IF s # y THEN <<e1>> ELSE <<>>) \o (IF t # z THEN <<e2>> ELSE <<>>)
           P == IF t = z THEN (IF s = y THEN p ELSE Append(p, e1))
                ELSE Append(IF s = y THEN p ELSE Append(p, e1), e2)
<1>6. p \o E = P
  BY <1>4, <1>5, Zenon
<1>7. Len(E) = (IF s = y THEN 0 ELSE 1) + (IF t = z THEN 0 ELSE 1)
  <2>1. s = y /\ t = z => E = <<>> \o <<>>
    OBVIOUS
  <2>2. s = y /\ t # z => E = <<>> \o <<e2>>
    OBVIOUS
  <2>3. s # y /\ t = z => E = <<e1>> \o <<>>
    OBVIOUS
  <2>4. s # y /\ t # z => E = <<e1>> \o <<e2>>
    OBVIOUS
  <2> HIDE DEF E
  <2>5. CASE s = y /\ t = z
    BY <1>4, <2>1, <2>5
  <2>6. CASE s = y /\ t # z
    BY <1>4, <2>2, <2>6
  <2>7. CASE s # y /\ t = z
    BY <1>4, <2>3, <2>7
  <2>8. CASE s # y /\ t # z
    BY <1>5, <2>4, <2>8
  <2> QED BY <2>5, <2>6, <2>7, <2>8
<1> HIDE DEF E, P
<1> QED BY <1>2, <1>3, <1>6, <1>7 DEF E, P, Hops

LEMMA UnrollAsks ==
  ASSUME NEW x \in Indexes, L = x.rows, NEW D, D = HopDist(x.w), NEW a \in Vertices,
         NEW b \in Vertices, NEW n \in 0 .. K,
         Asking(x, D, a, b, n), Answers!Unroll
  PROVE  Asking(x, D, a, b, n)'
<1> DEFINE g == x.w
           A == x.rows[s]
           B == x.rows[t]
           y == best.ps
           z == best.pt
<1>1. /\ pc = "merge" /\ Answers!AtEnd /\ phase = "path" /\ dis' = dis /\ phase' = phase
      /\ IF best.dist < Inf
         THEN /\ path' = path \o Answers!EdgesTo(y, z)
              /\ s' = y /\ t' = z
              /\ k' = k - Len(Answers!EdgesTo(y, z)) /\ pc' = "call"
         ELSE pc' = "done" /\ UNCHANGED <<path, s, t, k>>
  BY SameAnswers DEF Answers!Unroll
<1>2. /\ s \in Vertices /\ t \in Vertices /\ k \in 0 .. K /\ Route(g, D, a, b, n)
      /\ Merged(A, B, k, i, j, best)
  BY <1>1 DEF Asking
<1>3. best.dist = D[k][<<s, t>>]
  BY <1>1, MergeIsExact
<1>4. /\ Undirected(g) /\ \A v \in Vertices : g[<<v, v>>] = 0
      /\ A \in Seq(Label) /\ B \in Seq(Label)
      /\ \A e \in 1 .. Len(A) : FromParent(g, s, A[e])
      /\ \A e \in 1 .. Len(B) : FromParent(g, t, B[e])
  <2>1. Undirected(g) /\ (\A v \in Vertices : g[<<v, v>>] = 0) /\ x.rows \in [Vertices -> Seq(Label)]
    BY IndexIs
  <2>2. \A v \in Vertices : \A e \in DOMAIN x.rows[v] : FromParent(g, v, x.rows[v][e])
    BY IndexIs
  <2>3. A \in Seq(Label) /\ B \in Seq(Label)
    BY <1>2, <2>1
  <2>4. DOMAIN A = 1 .. Len(A) /\ DOMAIN B = 1 .. Len(B)
    BY <2>3
  <2> QED BY <1>2, <2>1, <2>2, <2>3, <2>4
<1>5. \A h \in 0 .. K : \A u, v \in Vertices : D[h][<<u, v>>] \in Nat /\ D[h][<<u, v>>] <= Inf
  BY <1>4, DistSteps
<1>6. PICK c \in Nat : Walked(g, path, a, b, s, t, c) /\ c + D[k][<<s, t>>] = dis /\ Len(path) + k = n
  BY <1>2 DEF Route
<1>7. dis = D[n][<<a, b>>] /\ (dis = Inf => path = <<>>) /\ path \in Seq(Pairs2)
  BY <1>2, <1>6 DEF Route, Walked
<1>8. CASE ~(best.dist < Inf)
  <2>1. D[k][<<s, t>>] = Inf /\ D[n][<<a, b>>] \in Nat /\ D[n][<<a, b>>] <= Inf
    BY <1>2, <1>3, <1>5, <1>8, Sizes
  <2>2. dis = Inf
    BY <1>6, <1>7, <2>1, Sizes
  <2>3. UNCHANGED <<dis, path, s, t, k>> /\ pc' = "done" /\ phase' = "path"
    BY <1>1, <1>8
  <2>4. Route(g, D, a, b, n)' = Route(g, D, a, b, n)
    BY <2>3 DEF Route
  <2> QED BY <1>2, <2>2, <2>3, <2>4 DEF Asking
<1>9. CASE best.dist < Inf
  <2>1. PICK p \in Cells(A, B) : Meets(A, B, k, p) /\ best = BestOf(A, B, p)
    <3>1. best # None
      BY <1>9, Sizes DEF None
    <3> QED BY <1>2, <3>1 DEF Merged, Attained
  <2> DEFINE la == A[p[1]]
             lb == B[p[2]]
  <2>2. p[1] \in 1 .. Len(A) /\ p[2] \in 1 .. Len(B)
    BY DEF Cells
  <2>3. la \in Label /\ lb \in Label /\ FromParent(g, s, la) /\ FromParent(g, t, lb)
    BY <1>4, <2>2, LabelIs
  <2>4. /\ la.hub = lb.hub /\ la.hop + lb.hop <= k /\ la.dist + lb.dist = best.dist
        /\ y = la.par /\ z = lb.par
    BY <2>1 DEF Meets, BestOf, Cost
  <2> DEFINE r == k - (Hops(s, y) + Hops(t, z))
  <2> HIDE DEF A, B, la, lb, y, z, g, r
  <2>5. r \in 0 .. K /\ Weight(g, s, y) + Weight(g, t, z) + D[r][<<y, z>>] = D[k][<<s, t>>]
    BY <1>2, <1>3, <1>4, <2>3, <2>4, UnrollExact DEF r, g
  <2>6. /\ y \in Vertices /\ Hops(s, y) \in {0, 1} /\ Weight(g, s, y) \in Nat /\ (s # y => y \in Nbrs(g, s))
        /\ z \in Vertices /\ Hops(t, z) \in {0, 1} /\ Weight(g, t, z) \in Nat /\ (t # z => z \in Nbrs(g, t))
    BY <1>2, <1>4, <2>3, <2>4, ToParent DEF g
  <2> DEFINE p2 == OnTo(OnTo(path, s, y), t, z)
             c2 == c + Weight(g, s, y) + Weight(g, t, z)
  <2>8. Len(p2) = Len(path) + Hops(s, y) + Hops(t, z) /\ Walked(g, p2, a, b, y, z, c2)
    BY <1>2, <1>4, <1>6, <2>6, BothOn DEF g
  <2>9. path' = p2 /\ k' = r /\ s' = y /\ t' = z /\ pc' = "call"
    BY <1>1, <1>2, <1>7, <1>9, <2>6, EdgesOn DEF r
  <2>10. dis # Inf
    <3> SUFFICES ASSUME dis = Inf PROVE FALSE
      OBVIOUS
    <3>1. path = <<>> /\ Len(path) = 0
      BY <1>7
    <3>2. s = a /\ t = b
      BY <1>6, <3>1 DEF Walked
    <3>3. k = n
      BY <1>2, <1>6, <3>1
    <3> QED BY <1>3, <1>7, <1>9, <3>2, <3>3, Sizes
  <2>11. c2 \in Nat /\ c2 + D[r][<<y, z>>] = dis /\ Len(p2) + r = n
    <3>1. D[r][<<y, z>>] \in Nat /\ Len(path) \in Nat /\ k \in Nat
      BY <1>2, <1>5, <1>7, <2>5, <2>6, Sizes
    <3> HIDE DEF p2
    <3>3. Len(p2) + r = n
      BY <1>6, <2>6, <2>8, <3>1 DEF r
    <3>4. c2 \in Nat /\ c2 + D[r][<<y, z>>] = dis
      <4> DEFINE far == D[k][<<s, t>>]
                 left == D[r][<<y, z>>]
                 ws == Weight(g, s, y)
                 wt == Weight(g, t, z)
      <4>1. c + far = dis /\ ws + wt + left = far /\ c2 = c + ws + wt
        BY <1>6, <2>5
      <4>2. c \in Nat /\ left \in Nat /\ ws \in Nat /\ wt \in Nat
        BY <1>6, <2>6, <3>1
      <4> HIDE DEF far, left, ws, wt, c2
      <4>3. c2 \in Nat /\ c2 + left = dis
        BY ONLY <4>1, <4>2
      <4> QED BY <4>3 DEF left
    <3> QED BY <3>3, <3>4
  <2>12. Route(g, D, a, b, n)'
    <3> HIDE DEF p2, c2
    <3>1. Walked(g, path', a, b, s', t', c2) /\ c2 + D[k'][<<s', t'>>] = dis' /\ Len(path') + k' = n
      BY <1>1, <2>8, <2>9, <2>11
    <3>2. dis' = D[n][<<a, b>>] /\ (dis' = Inf => path' = <<>>)
      BY <1>1, <1>7, <2>10
    <3> QED BY <2>11, <3>1, <3>2 DEF Route
  <2>13. s' \in Vertices /\ t' \in Vertices /\ k' \in 0 .. K /\ pc' = "call" /\ phase' = "path"
    BY <1>1, <2>5, <2>6, <2>9
  <2> QED BY <2>12, <2>13 DEF Asking, g
<1> QED BY <1>8, <1>9

(* The distance answered is the reference's, so the checker goes on.       *)
LEMMA CompareAsks ==
  ASSUME NEW x \in Indexes, NEW D, NEW a, NEW b, NEW n, query = <<a, b, n>>,
         stage # "later" => distance[b] = D[n][<<a, b>>], Asking(x, D, a, b, n), Compare
  PROVE  Asking(x, D, a, b, n)'
<1>1. /\ pc = "answered" /\ UNCHANGED <<dis, phase, s, t, k, i, j, best, path>>
      /\ pc' = IF stage = "later" \/ dis = distance[query[2]] THEN "call" ELSE "rejected"
  BY DEF Compare
<1>2. phase = "path" /\ Route(x.w, D, a, b, n)
  BY <1>1 DEF Asking
<1>3. dis = D[n][<<a, b>>] /\ query[2] = b
  BY <1>2 DEF Route
<1>4. pc' = "call"
  BY <1>1, <1>3
<1>5. Route(x.w, D, a, b, n)' = Route(x.w, D, a, b, n)
  BY <1>1 DEF Route
<1> QED BY <1>1, <1>2, <1>4, <1>5 DEF Asking
-----------------------------------------------------------------------------
(***************************************************************************)
(* 8. The invariant: c is the terminal the reference is called with.       *)
(***************************************************************************)
Checks(x, D, a, b, c, n) ==
  /\ w = x.w /\ L = x.rows /\ query = <<a, b, n>> /\ goal = c
  /\ stage \in {"start", "distances", "paths", "ask", "later"}
  /\ stage \notin {"start", "later"} => Searching(x.w, D, a, c, n)
  /\ stage \in {"start", "ask", "later"} => pq = {}
  /\ stage \notin {"ask", "later"} => pc = "ask"
  /\ Asking(x, D, a, b, n)
CheckInv ==
  \E x \in Indexes, a, b \in Vertices, n \in 0 .. K : \E c \in {b, -1} :
    Checks(x, HopDist(x.w), a, b, c, n)

LEMMA AskedKept ==
  ASSUME NEW x, NEW D, NEW a, NEW b, NEW n, UNCHANGED asked, Asking(x, D, a, b, n)
  PROVE  Asking(x, D, a, b, n)'
<1>1. UNCHANGED <<dis, phase, pc, s, t, k, i, j, best, path>>
  BY DEF asked
<1>2. Route(x.w, D, a, b, n)' = Route(x.w, D, a, b, n)
  BY <1>1 DEF Route
<1> QED BY <1>1, <1>2 DEF Asking

LEMMA SearchKept ==
  ASSUME NEW g, NEW D, NEW a, NEW c, NEW n, UNCHANGED dijkstra, Searching(g, D, a, c, n)
  PROVE  Searching(g, D, a, c, n)'
BY DEF dijkstra, Searching, Tables, AtSource, NotLess, ByParents, Queue, Waits, Relaxed, Arrived

LEMMA QueryAsks ==
  ASSUME NEW x \in Indexes, L = x.rows, NEW D, D = HopDist(x.w), NEW a \in Vertices,
         NEW b \in Vertices, NEW n \in 0 .. K, Asking(x, D, a, b, n), Answers!Step
  PROVE  Asking(x, D, a, b, n)'
BY AskAsks, SkipAsks, MeetAsks, AnswerAsks, CallAsks, UnrollAsks DEF Answers!Step

LEMMA CheckStarts == Init => CheckInv
<1> SUFFICES ASSUME Init PROVE CheckInv
  OBVIOUS
<1>1. PICK x \in Indexes : w = x.w /\ L = x.rows
  BY DEF Init
<1>2. /\ s \in Vertices /\ t \in Vertices /\ k \in 0 .. K /\ query = <<s, t, k>>
      /\ goal \in {t, -1} /\ stage \in {"start", "later"} /\ pq = {}
      /\ phase = "distance" /\ pc = "ask" /\ path = <<>>
  BY DEF Init, Reference!Init, Answers!Init
<1>3. Asking(x, HopDist(x.w), s, t, k)
  BY <1>2 DEF Asking
<1>4. Checks(x, HopDist(x.w), s, t, goal, k)
  BY <1>1, <1>2, <1>3 DEF Checks
<1> QED BY <1>2, <1>4 DEF CheckInv

(* The queue is empty before the first call, so its loop takes no step.    *)
LEMMA CheckSteps ==
  ASSUME NEW x \in Indexes, NEW D, D = HopDist(x.w), NEW a \in Vertices, NEW b \in Vertices,
         NEW n \in 0 .. K, NEW c \in {b, -1}, Checks(x, D, a, b, c, n), [Next]_vars
  PROVE  Checks(x, D, a, b, c, n)'
<1>1. /\ w = x.w /\ L = x.rows /\ query = <<a, b, n>> /\ goal = c
      /\ stage \in {"start", "distances", "paths", "ask", "later"}
      /\ stage \notin {"start", "later"} => Searching(x.w, D, a, c, n)
      /\ stage \in {"start", "ask", "later"} => pq = {}
      /\ stage \notin {"ask", "later"} => pc = "ask"
      /\ Asking(x, D, a, b, n)
  BY DEF Checks
<1>2. /\ Undirected(x.w) /\ c \in Vertices \cup {-1}
      /\ query[1] = a /\ query[2] = b /\ query[3] = n
  BY <1>1, IndexIs
<1>3. UNCHANGED fixed => w' = x.w /\ L' = x.rows /\ query' = <<a, b, n>> /\ goal' = c
  BY <1>1 DEF fixed
<1>4. UNCHANGED asked => Asking(x, D, a, b, n)' /\ pc' = pc
  BY <1>1, AskedKept DEF asked
<1>5. UNCHANGED dijkstra /\ Searching(x.w, D, a, c, n) => Searching(x.w, D, a, c, n)'
  BY SearchKept
<1>6. CASE CallDijkstra
  <2>1. UNCHANGED fixed /\ UNCHANGED asked /\ Reference!Call(a)
        /\ stage' \in {"distances", "paths"} /\ stage \notin {"ask", "later"}
    BY <1>2, <1>6 DEF CallDijkstra
  <2>2. Searching(x.w, D, a, c, n)'
    BY <1>2, <2>1, CallSearches
  <2> QED BY <1>1, <1>3, <1>4, <2>1, <2>2 DEF Checks
<1>7. CASE Arrive \/ Discard \/ Expand
  <2>1. UNCHANGED <<fixed, stage, asked>> /\ (Reference!Arrive(c) \/ Reference!Discard(c, n) \/ Reference!Expand(c, n))
    BY <1>1, <1>2, <1>7 DEF Arrive, Discard, Expand
  <2>2. UNCHANGED fixed /\ stage' = stage /\ UNCHANGED asked
    BY <2>1
  <2>3. pq # {}
    BY <2>1 DEF Reference!Arrive, Reference!Discard, Reference!Expand
  <2>4. stage \in {"distances", "paths"} /\ Searching(x.w, D, a, c, n)
    BY <1>1, <2>3
  <2>5. Searching(x.w, D, a, c, n)'
    BY <1>1, <1>2, <2>1, <2>4, ArriveSearches, DiscardSearches, ExpandSearches
  <2> QED BY <1>1, <1>3, <1>4, <2>2, <2>4, <2>5 DEF Checks
<1>8. CASE AskIndex
  <2>1. /\ pq = {} /\ stage \in {"distances", "paths"} /\ stage' = "ask"
        /\ UNCHANGED fixed /\ UNCHANGED dijkstra /\ UNCHANGED asked
    BY <1>8 DEF AskIndex, ReferenceDone
  <2>2. pq' = pq
    BY <2>1 DEF dijkstra
  <2> QED BY <1>1, <1>3, <1>4, <1>5, <2>1, <2>2 DEF Checks
<1>9. CASE QueryStep
  <2>1. stage \in {"ask", "later"} /\ Answers!Step /\ UNCHANGED fixed /\ stage' = stage /\ UNCHANGED dijkstra
    BY <1>9 DEF QueryStep
  <2>2. pq' = pq
    BY <2>1 DEF dijkstra
  <2>3. Asking(x, D, a, b, n)'
    BY <1>1, <2>1, QueryAsks
  <2> QED BY <1>1, <1>3, <1>5, <2>1, <2>2, <2>3 DEF Checks
<1>10. CASE Compare
  <2>1. pc = "answered" /\ stage' = stage /\ UNCHANGED fixed /\ UNCHANGED dijkstra
    BY <1>10 DEF Compare, fixed
  <2>2. stage \in {"ask", "later"} /\ pq = {}
    BY <1>1, <2>1
  <2>3. pq' = pq
    BY <2>1 DEF dijkstra
  <2>4. stage # "later" => distance[b] = D[n][<<a, b>>]
    <3> SUFFICES ASSUME stage # "later" PROVE distance[b] = D[n][<<a, b>>]
      OBVIOUS
    <3>a. Searching(x.w, D, a, c, n)
      BY <1>1, <2>2
    <3>1. \A v \in Vertices : c \in {v, -1} => distance[v] = D[n][<<a, v>>]
      <4> DEFINE g == x.w
      <4>1. Undirected(g) /\ D = HopDist(g) /\ Searching(g, D, a, c, n) /\ pq = {}
        BY <1>2, <2>2, <3>a
      <4> HIDE DEF g
      <4>2. /\ \A v \in Vertices : c \in {v, -1} => distance[v] = D[n][<<a, v>>]
            /\ final = -1 => c = -1 \/ D[n][<<a, c>>] = Inf
            /\ final # -1 => Arrived(D, a, c, n)
        BY <1>2, <4>1, ExactAtEnd
      <4> QED BY <4>2
    <3> QED BY <3>1
  <2>5. Asking(x, D, a, b, n)'
    BY <1>1, <1>10, <2>4, CompareAsks
  <2> QED BY <1>1, <1>3, <1>5, <2>1, <2>2, <2>3, <2>5 DEF Checks
<1>11. CASE UNCHANGED vars
  <2>1. UNCHANGED fixed /\ stage' = stage /\ UNCHANGED dijkstra /\ UNCHANGED asked
    BY <1>11 DEF vars
  <2>2. pq' = pq
    BY <2>1 DEF dijkstra
  <2> QED BY <1>1, <1>3, <1>4, <1>5, <2>1, <2>2 DEF Checks
<1>12. CASE Done
  BY <1>11, <1>12 DEF Done
<1> QED BY <1>6, <1>7, <1>8, <1>9, <1>10, <1>11, <1>12 DEF Next

LEMMA CheckKept == CheckInv /\ [Next]_vars => CheckInv'
<1> SUFFICES ASSUME CheckInv, [Next]_vars PROVE CheckInv'
  OBVIOUS
<1>1. PICK x \in Indexes, a \in Vertices, b \in Vertices, n \in 0 .. K :
        \E c \in {b, -1} : Checks(x, HopDist(x.w), a, b, c, n)
  BY DEF CheckInv
<1>a. PICK c \in {b, -1} : Checks(x, HopDist(x.w), a, b, c, n)
  BY <1>1
<1> DEFINE D == HopDist(x.w)
<1>2. D = HopDist(x.w)
  OBVIOUS
<1> HIDE DEF D
<1>3. Checks(x, D, a, b, c, n)'
  BY <1>2, <1>a, CheckSteps
<1> QED BY <1>2, <1>3 DEF CheckInv

LEMMA CheckGives == CheckInv => ReferenceIsExact /\ AnswerIsExact /\ PathIsRight
<1> SUFFICES ASSUME CheckInv PROVE ReferenceIsExact /\ AnswerIsExact /\ PathIsRight
  OBVIOUS
<1>1. PICK x \in Indexes, a \in Vertices, b \in Vertices, n \in 0 .. K :
        \E c \in {b, -1} : Checks(x, HopDist(x.w), a, b, c, n)
  BY DEF CheckInv
<1>a. PICK c \in {b, -1} : Checks(x, HopDist(x.w), a, b, c, n)
  BY <1>1
<1> DEFINE D == HopDist(w)
<1>2. /\ w = x.w /\ Undirected(w) /\ D = HopDist(x.w)
      /\ query = <<a, b, n>> /\ query[1] = a /\ query[2] = b /\ query[3] = n /\ goal \in {b, -1}
      /\ stage \notin {"start", "later"} => Searching(w, D, a, goal, n)
      /\ Asking(x, D, a, b, n)
  BY <1>a, IndexIs DEF Checks
<1> HIDE DEF D
<1>3. ReferenceIsExact
  <2>1. CASE stage \in {"start", "later"}
    BY <2>1 DEF ReferenceIsExact, ReferenceDone
  <2>2. CASE stage \notin {"start", "later"}
    BY <1>2, <2>2, ReferenceChecked DEF D
  <2> QED BY <2>1, <2>2
<1>4. AnswerIsExact
  <2>1. pc = "answered" => dis = D[n][<<a, b>>]
    BY <1>2 DEF Asking, Route
  <2>2. pc # "rejected"
    BY <1>2 DEF Asking
  <2>3. D[n][<<a, b>>] = Distance(query[1], query[2])
    BY <1>2 DEF Distance, D
  <2> QED BY <2>1, <2>2, <2>3 DEF AnswerIsExact
<1>5. PathIsRight
  <2> SUFFICES ASSUME pc = "done" PROVE PathIsRight
    BY DEF PathIsRight
  <2>1. Route(w, D, a, b, n) /\ s \in Vertices /\ k \in 0 .. K /\ (dis = Inf \/ s = t)
    BY <1>2 DEF Asking
  <2>2. CASE dis = Inf
    BY <2>1, <2>2 DEF PathIsRight, Route
  <2>3. CASE dis # Inf
    <3>1. s = t
      BY <2>1, <2>3
    <3>2. PICK l \in Nat : Walked(w, path, a, b, s, s, l) /\ l + D[k][<<s, s>>] = dis /\ Len(path) + k = n
      BY <2>1, <3>1 DEF Route
    <3>3. D[k][<<s, s>>] = 0
      BY <1>2, <2>1, DistSelf DEF D
    <3>4. l = dis
      BY <3>2, <3>3
    <3>5. Len(path) <= n
      <4>1. Len(path) \in Nat /\ k \in Nat
        BY <2>1, <3>2, Sizes DEF Walked
      <4> QED BY <3>2, <4>1
    <3>6. /\ LengthOf(path) = dis
          /\ \E mine \in SUBSET DOMAIN path : WalkTo(a, mine) = s /\ WalkTo(b, DOMAIN path \ mine) = s
      <4>1. Walked(w, path, a, b, s, s, dis) /\ Undirected(w)
        BY <1>2, <3>2, <3>4
      <4> QED BY <4>1, WalkedIsRight
    <3> QED BY <1>2, <2>3, <3>5, <3>6 DEF PathIsRight
  <2> QED BY <2>2, <2>3
<1> QED BY <1>3, <1>4, <1>5

(* What the checker knows at every moment, for every finished index: the   *)
(* reference's tables are between the distances and what its queue still   *)
(* holds, and the path so far, the hops left and the distance fit.         *)
THEOREM CheckInvariant == Spec => []CheckInv
<1>1. Init => CheckInv
  BY CheckStarts
<1>2. CheckInv /\ [Next]_vars => CheckInv'
  BY CheckKept
<1> QED BY <1>1, <1>2, PTL DEF Spec

(* The hop-constrained Dijkstra is exact where the checker reads it, and   *)
(* the path tracked back is a walk of that length (checker.cuh).           *)
THEOREM ReferenceRight == Spec => []ReferenceIsExact
<1>1. CheckInv => ReferenceIsExact
  BY CheckGives
<1> QED BY <1>1, CheckInvariant, PTL

(* The merge of two sorted rows with its early break answers the           *)
(* hop-constrained distance, and the checker never gives up.               *)
THEOREM AnswersRight == Spec => []AnswerIsExact
<1>1. CheckInv => AnswerIsExact
  BY CheckGives
<1> QED BY <1>1, CheckInvariant, PTL

(* The edges the recursion collects are a shortest path within the hops.   *)
THEOREM PathsRight == Spec => []PathIsRight
<1>1. CheckInv => PathIsRight
  BY CheckGives
<1> QED BY <1>1, CheckInvariant, PTL
=============================================================================
