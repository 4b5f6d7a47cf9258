------------------------- MODULE GpuLabelGenProofs -------------------------
(***************************************************************************)
(* Theorems about the GPU label generator, for every undirected graph,     *)
(* every hop_cst and every grouping: what lies in the buffer T are walks,  *)
(* the table holds the least distances although entries are overwritten    *)
(* without a test, and a label that survives the pruning is needed.        *)
(***************************************************************************)
EXTENDS GpuLabelGen, HopLabelsProofs

Labels == [to : Vertices, par : Vertices, hub : Vertices, hop : 0 .. K, dist : 0 .. Inf - 1]

LEMMA GraphIs == \A g \in Graphs : Undirected(g)
  BY GraphAssumption DEF Undirected

LEMMA FirstNbrIs ==
  ASSUME w \in Graphs
  PROVE  \A v \in Vertices : FirstNbr(v) \in Vertices
<1> TAKE v \in Vertices
<1>1. Nbrs(w, v) # {}
  BY GraphAssumption DEF NoIsolated
<1>2. Nbrs(w, v) \subseteq Nat
  BY Sizes DEF Nbrs, Vertices
<1>3. Min(Nbrs(w, v)) \in Nbrs(w, v)
  BY <1>1, <1>2, MinNatural
<1> QED BY <1>3 DEF FirstNbr, Nbrs

----------------------------------------------------------------------------
(***************************************************************************)
(* The operations on the buffer.                                           *)
(***************************************************************************)
(* The flagged select keeps some places of a run, in their order.          *)
Picks(kept, buf, S, c) ==
  /\ Len(kept) = c /\ c \in Nat
  /\ \E at \in [1 .. c -> S] :
       /\ \A i \in 1 .. c : kept[i] = buf[at[i]]
       /\ \A x \in S : \E i \in 1 .. c : at[i] = x
       /\ \A i, j \in 1 .. c : at[i] = at[j] => i = j

LEMMA SelectIs ==
  ASSUME NEW buf, NEW S, IsFiniteSet(S), S \subseteq Int
  PROVE  Picks(Select(buf, S), buf, S, Cardinality(S))
<1> DEFINE order == Ordered(S, <)
           n == Cardinality(S)
<1>1. Lists(order, S)
  BY OrderedNumbers, Zenon
<1>2. Select(buf, S) = [i \in DOMAIN order |-> buf[order[i]]]
  BY Zenon DEF Select
<1> HIDE DEF order
<1>3. n \in Nat /\ order \in [1 .. n -> S]
  BY <1>1 DEF Lists
<1>4. Select(buf, S) = [i \in 1 .. n |-> buf[order[i]]]
  BY <1>2, <1>3
<1> HIDE DEF n
<1>5. Len(Select(buf, S)) = n /\ \A i \in 1 .. n : Select(buf, S)[i] = buf[order[i]]
  BY <1>3, <1>4
<1> QED BY <1>1, <1>3, <1>5 DEF Lists, Picks, n

(* The radix sort: a total order of the words.                             *)
LEMMA RadixSortIs ==
  ASSUME NEW S, IsFiniteSet(S), S \subseteq Labels
  PROVE  Lists(RadixSort(S), S) /\ Len(RadixSort(S)) = Cardinality(S)
<1> DEFINE below == [x \in S |-> {y \in S : WordLess(y, x)}]
           e(i) == CHOOSE x \in S : Cardinality({y \in S : WordLess(y, x)}) = i - 1
<1> SUFFICES ASSUME NEW s, s = RadixSort(S)
             PROVE  Lists(s, S) /\ Len(s) = Cardinality(S)
  BY Zenon
<1>1. s = [i \in 1 .. Cardinality(S) |-> e(i)]
  BY Zenon DEF RadixSort, Ordered
<1>2. below \in [S -> SUBSET S] /\ \A x, y \in S : y \in below[x] <=> WordLess(y, x)
  OBVIOUS
<1>3. s = [i \in 1 .. Cardinality(S) |-> s[i]]
  <2> HIDE DEF e
  <2> QED BY ONLY <1>1
<1>4. ASSUME NEW i \in 1 .. Cardinality(S),
             \E x \in S : Cardinality(below[x]) = i - 1
      PROVE  s[i] \in S /\ Cardinality(below[s[i]]) = i - 1
  <2>1. \E x \in S : Cardinality({y \in S : WordLess(y, x)}) = i - 1
    BY <1>4
  <2>2. e(i) \in S /\ Cardinality({y \in S : WordLess(y, e(i))}) = i - 1
    BY <2>1, Zenon
  <2>3. s[i] = e(i)
    <3> HIDE DEF e
    <3> QED BY <1>1
  <2> HIDE DEF e
  <2> QED BY <2>2, <2>3
<1> HIDE DEF below, e
<1>5. \A x, y \in S :
        WordLess(x, y) <=>
          \/ x.to < y.to
          \/ x.to = y.to /\ x.par < y.par
          \/ x.to = y.to /\ x.par = y.par /\ x.hub < y.hub
          \/ x.to = y.to /\ x.par = y.par /\ x.hub = y.hub /\ x.hop < y.hop
          \/ x.to = y.to /\ x.par = y.par /\ x.hub = y.hub /\ x.hop = y.hop /\ x.dist < y.dist
  <2> TAKE x, y \in S
  <2>1. \A z \in S : /\ Word(z)[1] = z.to /\ Word(z)[2] = z.par /\ Word(z)[3] = z.hub
                     /\ Word(z)[4] = z.hop /\ Word(z)[5] = z.dist
    BY DEF Word
  <2>2. 1 .. 5 = {1, 2, 3, 4, 5}
    OBVIOUS
  <2> QED BY <2>1, <2>2 DEF WordLess
<1>6. \A x \in S : /\ x.to \in Int /\ x.par \in Int /\ x.hub \in Int /\ x.hop \in Int
                   /\ x.dist \in Int
  BY Sizes DEF Labels, Vertices
<1>7. \A x, y \in S : x.to = y.to /\ x.par = y.par /\ x.hub = y.hub /\ x.hop = y.hop
                      /\ x.dist = y.dist => x = y
  BY DEF Labels
<1>8. /\ \A x, y \in S : x = y \/ x \in below[y] \/ y \in below[x]
      /\ \A x \in S : x \notin below[x]
      /\ \A x, y, z \in S : x \in below[y] /\ y \in below[z] => x \in below[z]
  BY ONLY <1>2, <1>5, <1>6, <1>7
<1>9. /\ Cardinality(S) \in Nat
      /\ s \in [1 .. Cardinality(S) -> S]
      /\ \A x \in S : \E i \in 1 .. Cardinality(S) : s[i] = x
      /\ \A i, j \in 1 .. Cardinality(S) : i < j => s[i] \in below[s[j]]
      /\ \A i, j \in 1 .. Cardinality(S) : s[i] = s[j] => i = j
  <2>1. below \in [S -> SUBSET S] /\ IsFiniteSet(S)
    BY <1>2
  <2> QED BY ONLY <2>1, <1>3, <1>4, <1>8, Ranked
<1>10. Len(s) = Cardinality(S)
  BY ONLY <1>9
<1> QED BY ONLY <1>9, <1>10 DEF Lists

(* What the deduplication lets out: of every key one of the cheapest.      *)
LEMMA SelectionIs ==
  ASSUME NEW C, NEW out \in Selections(C), C \subseteq Labels
  PROVE  /\ out \subseteq C
         /\ \A x, y \in out : SameKey(x, y) => x = y
         /\ \A c \in C : \E d \in out : SameKey(c, d) /\ d.dist <= c.dist
<1> DEFINE tied == {c \in Cheapest(C) : \E d \in Cheapest(C) \ {c} : SameKey(c, d)}
           One(S) == \A c \in Cheapest(C) : \E d \in S : \A x \in S : SameKey(c, x) <=> x = d
<1>1. out \in {Cheapest(C) \ lost : lost \in SUBSET tied} /\ One(out)
  BY DEF Selections
<1>2. out \subseteq Cheapest(C) /\ Cheapest(C) \subseteq C
  BY <1>1 DEF Cheapest
<1>3. ASSUME NEW x \in out, NEW y \in out, SameKey(x, y) PROVE x = y
  <2>1. PICK d \in out : \A z \in out : SameKey(x, z) <=> z = d
    BY <1>1, <1>2
  <2>2. SameKey(x, x)
    BY DEF SameKey
  <2> QED BY <1>3, <2>1, <2>2
<1>4. ASSUME NEW c \in C PROVE \E d \in out : SameKey(c, d) /\ d.dist <= c.dist
  <2> DEFINE S == {x.dist : x \in {y \in C : SameKey(c, y)}}
  <2>1. \A x \in C : x.dist \in Nat
    BY Sizes DEF Labels
  <2>2. S \subseteq Nat /\ c.dist \in S
    BY <2>1 DEF SameKey
  <2>3. \E t \in S : \A k \in S : t <= k
    <3> HIDE DEF S
    <3> QED BY <2>2, LeastNatural
  <2>4. PICK b \in C : SameKey(c, b) /\ \A y \in C : SameKey(c, y) => b.dist <= y.dist
    BY <2>3
  <2>5. b \in Cheapest(C)
    BY <2>4 DEF Cheapest, SameKey
  <2>6. PICK d \in out : SameKey(b, d)
    BY <1>1, <2>5
  <2>7. d \in C /\ d \in Cheapest(C) /\ SameKey(d, b) /\ SameKey(c, d) /\ SameKey(c, c)
    BY <1>2, <2>4, <2>6 DEF SameKey
  <2>8. d.dist <= b.dist /\ b.dist <= c.dist
    BY <2>4, <2>7 DEF Cheapest
  <2> QED BY <2>1, <2>4, <2>6, <2>7, <2>8
<1> QED BY <1>2, <1>3, <1>4
----------------------------------------------------------------------------
(***************************************************************************)
(* What lies in the buffer.                                                *)
(***************************************************************************)
InGroup == pc \in {"expand", "prune", "update", "finish"}
Top == lastPos + lastSize - 1
Current == IF pc = "expand" THEN hop - 1 ELSE hop   \* the hop of the last launch

GpuTypes ==
  /\ w \in Graphs /\ groups \in Groupings /\ gid \in Nat \ {0}
  /\ InGroup \/ pc \in {"idle", "done"}
  /\ lastPos \in Nat /\ lastSize \in Nat /\ totL \in Nat
  /\ InGroup => /\ gid \in DOMAIN groups
                /\ lastPos > 0 /\ hop \in 1 .. K + 1 /\ (pc # "expand" => hop <= K)
                /\ pc = "finish" => lastSize = 0

IsWalk(l) == l \in Labels /\ l.dist \in WalkLengths(w, l.hub)[l.hop][l.to]

(* A label continues one of the hop before, and its hub has its own label. *)
Continues(l, m) ==
  /\ m.to = l.par /\ m.hub = l.hub /\ m.hop = l.hop - 1
  /\ l.dist = m.dist + w[<<l.par, l.to>>]
Rooted(n) ==
  \A i \in 1 .. n :
    /\ T[i].hop > 0 => \E j \in 1 .. n : Continues(T[i], T[j])
    /\ \E j \in 1 .. n : T[j].hop = 0 /\ T[j].to = T[i].hub

SameSpot(a, b) == a.to = b.to /\ a.hub = b.hub /\ a.hop = b.hop

BufferInv ==
  /\ 1 .. HeldCount \subseteq DOMAIN T
  /\ \A i \in 1 .. HeldCount : IsWalk(T[i])
  /\ Rooted(HeldCount)
  /\ \A i, j \in 1 .. HeldCount : SameSpot(T[i], T[j]) => i = j
  /\ InGroup => \A i \in 1 .. HeldCount :
                  /\ T[i].hub \in ToSet(groups[gid])
                  /\ IF i < lastPos THEN T[i].hop < Current ELSE T[i].hop = Current

LEMMA BatchKeeps ==
  ASSUME GpuTypes, GpuTypes', BufferInv, InGroup, InGroup', UNCHANGED <<w, groups, gid>>,
         NEW n \in Nat, n <= HeldCount, lastPos' = n + 1, Rooted(n),
         NEW m \in Nat, m = n + lastSize',
         \A i \in 1 .. n : i \in DOMAIN T' /\ T'[i] = T[i] /\ T[i].hop < Current',
         \A i \in n + 1 .. m :
           /\ i \in DOMAIN T' /\ IsWalk(T[i])' /\ T'[i].hop = Current' /\ T'[i].hop > 0
           /\ \E j \in 1 .. n : Continues(T[i]', T[j]),
         \A i, j \in n + 1 .. m :
           T'[i].to = T'[j].to /\ T'[i].hub = T'[j].hub => i = j
  PROVE  BufferInv'
<1>1. HeldCount' = m /\ lastSize' \in Nat /\ n <= m
  BY DEF GpuTypes, HeldCount, InGroup
<1>2. \A i \in 1 .. m : i \in 1 .. n \/ i \in n + 1 .. m
  BY <1>1
<1>3. /\ \A i \in 1 .. n : IsWalk(T[i]) /\ T[i].hub \in ToSet(groups[gid])
      /\ \A i, j \in 1 .. n : SameSpot(T[i], T[j]) => i = j
  <2>1. HeldCount \in Int
    BY DEF GpuTypes, HeldCount
  <2>2. \A i \in 1 .. n : i \in 1 .. HeldCount
    BY <2>1
  <2> QED BY <2>2 DEF BufferInv
<1>4. \A i \in 1 .. n : IsWalk(T[i])' /\ T'[i].hub \in ToSet(groups'[gid'])
  BY <1>3 DEF IsWalk
<1>5. \A i \in n + 1 .. m : \E j \in 1 .. n : Continues(T'[i], T[j]) /\ Continues(T[i], T[j])'
  BY DEF Continues
<1>6. \A i \in n + 1 .. m : \E j \in 1 .. n : T'[i].hub = T[j].hub
  BY <1>5 DEF Continues
<1>7. \A i \in 1 .. m : IsWalk(T[i])' /\ T'[i].hub \in ToSet(groups'[gid'])
  BY <1>2, <1>3, <1>4, <1>6
<1>8. Rooted(m)'
  <2>1. ASSUME NEW i \in 1 .. n
        PROVE  /\ T'[i].hop > 0 => \E j \in 1 .. n : Continues(T[i], T[j])'
               /\ \E j \in 1 .. n : T'[j].hop = 0 /\ T'[j].to = T'[i].hub
    BY DEF Rooted, Continues
  <2>2. ASSUME NEW i \in n + 1 .. m
        PROVE  /\ \E j \in 1 .. n : Continues(T[i], T[j])'
               /\ \E j \in 1 .. n : T'[j].hop = 0 /\ T'[j].to = T'[i].hub
    <3>1. PICK k \in 1 .. n : T'[i].hub = T[k].hub
      BY <1>6
    <3> QED BY <1>5, <2>1, <3>1
  <2>3. \A j \in 1 .. n : j \in 1 .. m
    BY ONLY <1>1
  <2> QED BY <1>2, <2>1, <2>2, <2>3 DEF Rooted
<1>9. \A i, j \in 1 .. m : SameSpot(T[i], T[j])' => i = j
  <2>1. \A i \in 1 .. n, j \in n + 1 .. m : T'[i].hop # T'[j].hop
    <3>1. \A i \in 1 .. n : T'[i].hop \in Int
      BY <1>4, Sizes DEF IsWalk, Labels
    <3> QED BY <3>1
  <2> QED BY <1>2, <1>3, <2>1 DEF SameSpot
<1>10. \A i \in 1 .. m : IF i < lastPos' THEN T'[i].hop < Current' ELSE T'[i].hop = Current'
  <2>1. /\ \A i \in 1 .. n : i < lastPos'
        /\ \A i \in n + 1 .. m : ~(i < lastPos')
    OBVIOUS
  <2>2. /\ \A i \in 1 .. n : T'[i].hop < Current'
        /\ \A i \in n + 1 .. m : T'[i].hop = Current'
    OBVIOUS
  <2> QED BY ONLY <1>2, <2>1, <2>2
<1>11. 1 .. m \subseteq DOMAIN T'
  BY <1>2
<1> QED BY <1>1, <1>7, <1>8, <1>9, <1>10, <1>11 DEF BufferInv
LEMMA CandidateIs ==
  ASSUME GpuTypes, BufferInv, pc = "expand", hop <= K
  PROVE  /\ IsFiniteSet(Candidates) /\ Candidates \subseteq Labels
         /\ \A c \in Candidates :
              /\ IsWalk(c) /\ c.hop = hop
              /\ \E j \in lastPos .. Top : Continues(c, T[j])
<1> DEFINE Cand(u, x) == [to |-> x, par |-> u.to, hub |-> u.hub, hop |-> hop,
                          dist |-> u.dist + w[<<u.to, x>>]]
           run == lastPos .. Top
<1>1. /\ Undirected(w) /\ hop \in 1 .. K /\ lastPos \in Nat /\ lastPos > 0 /\ lastSize \in Nat
      /\ HeldCount = Top
  BY GraphIs DEF GpuTypes, InGroup, HeldCount, Top
<1>2. \A i \in run : i \in 1 .. HeldCount /\ ~(i < lastPos)
  BY <1>1
<1>3. \A i \in run : IsWalk(T[i]) /\ T[i].hop = hop - 1
  BY <1>2 DEF BufferInv, InGroup, Current
<1>4. \A c \in Candidates : \E i \in run : \E x \in Spreads(T[i]) : c = Cand(T[i], x)
  <2> SUFFICES ASSUME NEW c \in Candidates
               PROVE  \E i \in run : \E x \in Spreads(T[i]) : c = Cand(T[i], x)
    OBVIOUS
  <2>1. PICK i \in run : c \in {Cand(T[i], x) : x \in Spreads(T[i])}
    BY DEF Candidates, Top
  <2> QED BY <2>1
<1>5. ASSUME NEW c \in Candidates
      PROVE  IsWalk(c) /\ c.hop = hop /\ \E j \in run : Continues(c, T[j])
  <2>1. PICK i \in run : \E x \in Spreads(T[i]) : c = Cand(T[i], x)
    BY <1>4
  <2>2. PICK x \in Spreads(T[i]) : c = Cand(T[i], x)
    BY <2>1
  <2>3. /\ T[i] \in Labels /\ T[i].dist \in WalkLengths(w, T[i].hub)[hop - 1][T[i].to]
        /\ x \in Nbrs(w, T[i].to) /\ T[i].hub < x
    BY <1>3 DEF IsWalk, Spreads
  <2>4. T[i].to \in Vertices /\ T[i].hub \in Vertices /\ x \in Vertices
        /\ hop - 1 \in 0 .. K - 1 /\ (hop - 1) + 1 = hop /\ hop \in 0 .. K /\ hop > 0
    BY <1>1, <2>3, Sizes DEF Labels, Nbrs
  <2>5. c.dist \in WalkLengths(w, c.hub)[c.hop][c.to]
    BY <1>1, <2>2, <2>3, <2>4, WalkExtends
  <2>6. c.dist \in 0 .. Inf - 1
    BY <1>1, <2>2, <2>4, <2>5, WalkBounds
  <2>7. c \in Labels
    BY <2>2, <2>4, <2>6 DEF Labels
  <2>8. Continues(c, T[i])
    BY <1>3, <2>2 DEF Continues
  <2> QED BY <2>2, <2>5, <2>7, <2>8 DEF IsWalk
<1>6. IsFiniteSet(Candidates)
  <2> DEFINE f == [p \in run \X Vertices |-> Cand(T[p[1]], p[2])]
  <2>1. IsFiniteSet(run)
    <3>1. lastPos \in Int /\ Top \in Int
      BY <1>1 DEF Top
    <3> QED BY <3>1, FS_Interval
  <2>2. IsFiniteSet(run \X Vertices)
    BY <2>1, VerticesFinite, FS_Product
  <2>3. \A c \in Candidates : \E p \in run \X Vertices : c = f[p]
    <3> TAKE c \in Candidates
    <3>1. PICK i \in run : \E x \in Spreads(T[i]) : c = Cand(T[i], x)
      BY <1>4
    <3>2. PICK x \in Spreads(T[i]) : c = Cand(T[i], x)
      BY <3>1
    <3>3. <<i, x>> \in run \X Vertices
      BY DEF Spreads, Nbrs
    <3>4. f[<<i, x>>] = c
      BY <3>2, <3>3
    <3> HIDE DEF f
    <3> QED BY <3>3, <3>4
  <2> HIDE DEF f, run
  <2> QED BY <2>2, <2>3, FiniteImage
<1> QED BY <1>5, <1>6 DEF IsWalk

LEMMA BufferInit == Init => GpuTypes /\ BufferInv
<1> SUFFICES ASSUME Init PROVE GpuTypes /\ BufferInv
  OBVIOUS
<1>1. pc = "idle" /\ lastPos = 0 /\ HeldCount = 0 /\ 1 .. 0 = {}
  BY DEF Init, HeldCount
<1> QED BY <1>1 DEF Init, GpuTypes, BufferInv, InGroup, Rooted

LEMMA ExpandBuffer ==
  ASSUME GpuTypes, BufferInv, Expand
  PROVE  /\ GpuTypes' /\ BufferInv' /\ \A i \in 1 .. Top : T'[i] = T[i]
         /\ Top <= HeldCount'
         /\ \E out \in Selections(Candidates) :
              \A x \in out : \E i \in 1 .. HeldCount' : T'[i] = x
<1> DEFINE n == Top
<1>1. /\ pc = "expand" /\ hop <= K /\ lastSize > 0 /\ lastPos' = n + 1
      /\ UNCHANGED <<w, groups, gid, hop, totL>>
  BY DEF Expand, GpuTypes, Top
<1>2. PICK out \in Selections(Candidates) :
        /\ lastSize' = Cardinality(out)
        /\ T' = Put(T, lastPos', RadixSort(out))
        /\ pc' = IF out = {} THEN "finish" ELSE "prune"
  BY DEF Expand
<1>3. /\ lastPos \in Nat /\ lastPos > 0 /\ lastSize \in Nat /\ n \in Nat /\ HeldCount = n
      /\ hop \in 1 .. K
  BY <1>1 DEF GpuTypes, InGroup, HeldCount, Top
<1>4. /\ out \subseteq Candidates /\ IsFiniteSet(out) /\ out \subseteq Labels
      /\ \A x, y \in out : SameKey(x, y) => x = y
  BY <1>1, CandidateIs, SelectionIs, FS_Subset
<1> DEFINE m == n + Cardinality(out)
           s == RadixSort(out)
<1>5. Lists(s, out) /\ Len(s) = Cardinality(out)
  BY <1>4, RadixSortIs
<1>6. Cardinality(out) \in Nat /\ m \in Nat
  BY <1>3, <1>5 DEF Lists
<1>7. GpuTypes' /\ InGroup' /\ Current' = hop
  <2>1. pc' \in {"finish", "prune"} /\ (pc' = "finish" => lastSize' = 0)
    BY <1>2, FS_EmptySet
  <2> QED BY <1>1, <1>2, <1>3, <1>6, <2>1 DEF GpuTypes, InGroup, Current
<1> HIDE DEF n
<1>8. /\ DOMAIN T' = DOMAIN T \cup (n + 1 .. m)
      /\ \A i \in DOMAIN T : i < n + 1 => T'[i] = T[i]
      /\ \A i \in n + 1 .. m : T'[i] = s[i - n]
  <2>1. T' = Put(T, n + 1, s) /\ Len(s) \in Nat /\ m = n + 1 + Len(s) - 1
    BY <1>1, <1>2, <1>3, <1>5, <1>6
  <2>2. \A i \in n + 1 .. m : i - (n + 1) + 1 = i - n
    BY <1>3, <1>6
  <2> HIDE DEF s, m
  <2>3. /\ DOMAIN T' = DOMAIN T \cup (n + 1 .. m)
        /\ \A i \in n + 1 .. m : T'[i] = s[i - (n + 1) + 1]
        /\ \A i \in DOMAIN T : i < n + 1 => T'[i] = T[i]
    BY ONLY <2>1, <1>3 DEF Put
  <2> QED BY ONLY <2>2, <2>3
<1>9. \A i \in 1 .. n : i \in DOMAIN T' /\ T'[i] = T[i] /\ T[i].hop < hop
  <2>2. \A i \in 1 .. n : i \in DOMAIN T /\ T[i].hop <= hop - 1 /\ T[i].hop \in Int
    <3> TAKE i \in 1 .. n
    <3>1. i \in DOMAIN T /\ IsWalk(T[i])
      BY <1>3 DEF BufferInv
    <3>2. T[i].hop < hop - 1 \/ T[i].hop = hop - 1
      BY <1>1, <1>3 DEF BufferInv, InGroup, Current
    <3>3. T[i].hop \in Int
      BY <3>1, Sizes DEF IsWalk, Labels
    <3> QED BY <1>3, <3>1, <3>2, <3>3
  <2> QED BY <1>3, <1>8, <2>2
<1>10. ASSUME NEW i \in n + 1 .. m
       PROVE  /\ i - n \in 1 .. Cardinality(out) /\ i \in DOMAIN T'
              /\ T'[i] = s[i - n] /\ T'[i] \in out
  <2>1. i - n \in 1 .. Cardinality(out)
    BY <1>3, <1>6
  <2>2. s[i - n] \in out
    BY <1>5, <2>1 DEF Lists
  <2> QED BY <1>8, <2>1, <2>2
<1> HIDE DEF m
<1>11. ASSUME NEW i \in n + 1 .. m
       PROVE  /\ IsWalk(T[i])' /\ T'[i].hop = Current' /\ T'[i].hop > 0
              /\ \E j \in 1 .. n : Continues(T[i]', T[j])
  <2>1. T'[i] \in Candidates
    BY <1>4, <1>10
  <2>2. IsWalk(T'[i]) /\ T'[i].hop = hop /\ \E j \in lastPos .. n : Continues(T'[i], T[j])
    BY <1>1, <2>1, CandidateIs DEF n
  <2>3. lastPos .. n \subseteq 1 .. n
    BY <1>3
  <2> QED BY <1>1, <1>3, <1>7, <2>2, <2>3 DEF IsWalk
<1>12. ASSUME NEW i \in n + 1 .. m, NEW j \in n + 1 .. m,
              T'[i].to = T'[j].to, T'[i].hub = T'[j].hub
       PROVE  i = j
  <2>1. s[i - n] = s[j - n]
    BY <1>4, <1>10, <1>12 DEF SameKey
  <2>2. i - n = j - n
    BY <1>5, <1>10, <2>1 DEF Lists
  <2> QED BY <1>3, <2>2
<1>13. Rooted(n) /\ m = n + lastSize' /\ n <= HeldCount /\ InGroup
  BY <1>1, <1>2, <1>3 DEF BufferInv, InGroup, m
<1>14. BufferInv'
  BY <1>1, <1>3, <1>6, <1>7, <1>9, <1>10, <1>11, <1>12, <1>13, BatchKeeps DEF m
<1>15. HeldCount' = m
  <2>1. HeldCount' = lastPos' + lastSize' - 1
    BY <1>7 DEF InGroup, HeldCount
  <2> QED BY <1>1, <1>2, <1>3, <1>6, <2>1 DEF m
<1>16. \A x \in out : \E i \in 1 .. m : T'[i] = x
  <2> SUFFICES ASSUME NEW x \in out PROVE \E i \in 1 .. m : T'[i] = x
    OBVIOUS
  <2>1. PICK j \in 1 .. Cardinality(out) : s[j] = x
    BY <1>5 DEF Lists
  <2>2. n + j \in n + 1 .. m /\ n + j \in 1 .. m /\ (n + j) - n = j
    BY <1>3, <1>6 DEF m
  <2>3. T'[n + j] = s[j]
    BY <1>10, <2>2
  <2> QED BY <2>1, <2>2, <2>3
<1>17. n <= m
  BY <1>3, <1>6 DEF m
<1> QED BY <1>7, <1>9, <1>14, <1>15, <1>16, <1>17 DEF n

LEMMA StartBuffer ==
  ASSUME GpuTypes, BufferInv, StartGroup
  PROVE  /\ GpuTypes' /\ BufferInv' /\ HeldCount' = Len(groups[gid])
         /\ \A i \in 1 .. Len(groups[gid]) : /\ T'[i] = SelfLabel(groups[gid][i])
                                             /\ groups[gid][i] \in Vertices
         /\ \A i, j \in 1 .. Len(groups[gid]) : groups[gid][i] = groups[gid][j] => i = j
<1> DEFINE grp == groups[gid]
           self == [i \in 1 .. Len(grp) |-> SelfLabel(grp[i])]
<1>1. /\ grp \in Seq(Vertices) /\ IsInjective(grp) /\ gid \in DOMAIN groups
      /\ w \in Graphs /\ Undirected(w)
  <2>1. groups \in Seq(Seq(Vertices)) /\ \A g \in DOMAIN groups : IsInjective(groups[g])
    BY GroupAssumption DEF GpuTypes
  <2>2. gid \in DOMAIN groups
    BY <2>1 DEF GpuTypes, StartGroup
  <2> QED BY <2>1, <2>2, GraphIs DEF GpuTypes
<1>2. /\ pc' = "expand" /\ hop' = 1 /\ lastPos' = 1 /\ lastSize' = Len(grp) /\ T' = Put(T, 1, self)
      /\ UNCHANGED <<w, groups, gid, totL>>
  BY Zenon DEF StartGroup
<1>3. GpuTypes' /\ HeldCount' = Len(grp) /\ Len(grp) \in Nat /\ InGroup' /\ Current' = 0
  BY <1>1, <1>2, Sizes DEF GpuTypes, HeldCount, InGroup, Current
<1>4. \A i \in 1 .. Len(grp) : /\ i \in DOMAIN T' /\ T'[i] = SelfLabel(grp[i])
                               /\ grp[i] \in Vertices /\ grp[i] \in ToSet(grp)
  <2>1. Len(self) = Len(grp) /\ \A i \in 1 .. Len(grp) : self[i - 1 + 1] = SelfLabel(grp[i])
    BY <1>3
  <2>2. DOMAIN T' = DOMAIN T \cup (1 .. 1 + Len(self) - 1)
        /\ \A i \in 1 .. 1 + Len(self) - 1 : T'[i] = self[i - 1 + 1]
    <3> HIDE DEF self
    <3> QED BY <1>2 DEF Put
  <2>3. \A i \in 1 .. Len(grp) : grp[i] \in Vertices /\ grp[i] \in ToSet(grp)
    BY <1>1 DEF ToSet
  <2>4. 1 + Len(grp) - 1 = Len(grp)
    BY <1>3
  <2> QED BY <2>1, <2>2, <2>3, <2>4
<1> HIDE DEF self
<1>5. \A v \in Vertices : IsWalk(SelfLabel(v)) /\ IsWalk(SelfLabel(v))'
  <2> TAKE v \in Vertices
  <2>1. SelfLabel(v) \in Labels
    BY <1>1, FirstNbrIs, Sizes DEF SelfLabel, Labels
  <2>2. WalkLengths(w, v)[0][v] = {0}
    <3>1. WalkLengths(w, v)[0] = StandStill(v)
      BY <1>1, WalkRecursion
    <3> QED BY <3>1 DEF StandStill
  <2>3. SelfLabel(v)' = SelfLabel(v)
    BY <1>2 DEF SelfLabel, FirstNbr
  <2> QED BY <1>2, <2>1, <2>2, <2>3 DEF IsWalk, SelfLabel
<1>6. \A i \in 1 .. Len(grp) :
        /\ IsWalk(T[i])' /\ T'[i].hop = 0 /\ T'[i].to = grp[i] /\ T'[i].hub = grp[i]
        /\ T'[i].hub \in ToSet(grp)
  <2> TAKE i \in 1 .. Len(grp)
  <2>1. T'[i] = SelfLabel(grp[i]) /\ grp[i] \in Vertices /\ grp[i] \in ToSet(grp)
    BY <1>4
  <2>2. IsWalk(T'[i])
    BY <1>5, <2>1
  <2>3. IsWalk(T[i])'
    BY <1>2, <2>2 DEF IsWalk
  <2> QED BY <2>1, <2>3 DEF SelfLabel
<1>7. \A i, j \in 1 .. Len(grp) : grp[i] = grp[j] => i = j
  BY <1>1 DEF IsInjective
<1>8. BufferInv'
  BY <1>2, <1>3, <1>4, <1>6, <1>7 DEF BufferInv, Rooted, SameSpot
<1> QED BY <1>3, <1>4, <1>7, <1>8

LEMMA PruneBuffer ==
  ASSUME GpuTypes, BufferInv, Prune
  PROVE  /\ GpuTypes' /\ BufferInv'
         /\ \A i \in 1 .. lastPos - 1 : i \in DOMAIN T' /\ T'[i] = T[i]
         /\ \A i \in lastPos .. Top' : \E x \in lastPos .. Top : ~Pruned(T[x]) /\ T'[i] = T[x]
         /\ \A x \in lastPos .. Top : ~Pruned(T[x]) => \E i \in lastPos .. Top' : T'[i] = T[x]
<1> DEFINE new == lastPos .. Top
           S == {i \in new : ~Pruned(T[i])}
           kept == Select(T, S)
           c == Cardinality(S)
           n == lastPos - 1
<1>1. /\ pc = "prune" /\ pc' = "update" /\ lastSize' = Len(kept) /\ T' = Put(T, lastPos, kept)
      /\ UNCHANGED <<w, groups, gid, hop, lastPos, totL>>
  BY Zenon DEF Prune, Top
<1>2. /\ lastPos \in Nat /\ lastPos > 0 /\ lastSize \in Nat /\ n \in Nat /\ HeldCount = Top
      /\ hop \in 1 .. K /\ Top = n + lastSize /\ n <= Top
  BY <1>1, Sizes DEF GpuTypes, InGroup, HeldCount, Top
<1>3. S \subseteq Int /\ IsFiniteSet(S)
  <2>1. IsFiniteSet(new)
    <3>1. lastPos \in Int /\ Top \in Int
      BY <1>2
    <3> QED BY <3>1, FS_Interval
  <2>2. S \subseteq new /\ new \subseteq Int
    BY <1>2
  <2> HIDE DEF S, new
  <2> QED BY <2>1, <2>2, FS_Subset
<1>4. Picks(kept, T, S, c)
  <2> HIDE DEF S
  <2> QED BY <1>3, SelectIs, Zenon DEF kept, c
<1>5. Len(kept) = c /\ c \in Nat /\ \E at \in [1 .. c -> S] :
           /\ \A i \in 1 .. c : kept[i] = T[at[i]]
           /\ \A x \in S : \E i \in 1 .. c : at[i] = x
           /\ \A i, j \in 1 .. c : at[i] = at[j] => i = j
  <2> HIDE DEF S, kept, c
  <2> QED BY <1>4, Zenon DEF Picks
<1>5a. PICK at \in [1 .. c -> S] :
           /\ \A i \in 1 .. c : kept[i] = T[at[i]]
           /\ \A x \in S : \E i \in 1 .. c : at[i] = x
           /\ \A i, j \in 1 .. c : at[i] = at[j] => i = j
  BY <1>5
<1> HIDE DEF kept, c
<1>6. GpuTypes' /\ InGroup /\ InGroup' /\ Current' = hop /\ Current = hop /\ Top' = n + c /\ lastPos' = n + 1
  BY <1>1, <1>2, <1>5 DEF GpuTypes, InGroup, Current, Top
<1>7. \A i \in 1 .. n : i \in DOMAIN T' /\ T'[i] = T[i] /\ T[i].hop < hop
  <2>1. \A i \in 1 .. n : i \in 1 .. HeldCount /\ i < lastPos
    BY <1>2
  <2>2. \A i \in DOMAIN T : i < lastPos => i \in DOMAIN T' /\ T'[i] = T[i]
    BY <1>1, <1>2, <1>5 DEF Put
  <2> QED BY <1>6, <2>1, <2>2 DEF BufferInv
<1>8. \A i \in n + 1 .. n + c :
        /\ i \in DOMAIN T' /\ i - n \in 1 .. c /\ T'[i] = T[at[i - n]] /\ at[i - n] \in S
  <2>1. \A i \in n + 1 .. n + c :
          /\ i \in lastPos .. lastPos + Len(kept) - 1
          /\ i - lastPos + 1 = i - n /\ i - n \in 1 .. c
    BY <1>2, <1>5
  <2>2. \A i \in lastPos .. lastPos + Len(kept) - 1 : i \in DOMAIN T' /\ T'[i] = kept[i - lastPos + 1]
    BY <1>1 DEF Put
  <2> QED BY <1>5a, <2>1, <2>2
<1>9. \A x \in new : /\ x \in 1 .. HeldCount /\ T[x].hop = hop /\ IsWalk(T[x])
                     /\ \E j \in 1 .. n : Continues(T[x], T[j])
  <2> TAKE x \in new
  <2>1. x \in 1 .. HeldCount /\ ~(x < lastPos)
    BY <1>2
  <2>2. T[x].hop = hop /\ IsWalk(T[x]) /\ T[x].hop > 0
    BY <1>2, <1>6, <2>1 DEF BufferInv
  <2>3. PICK j \in 1 .. HeldCount : Continues(T[x], T[j])
    BY <2>1, <2>2 DEF BufferInv, Rooted
  <2>4. T[j].hop = hop - 1
    BY <2>2, <2>3 DEF Continues
  <2>5. j < lastPos
    BY <1>2, <1>6, <2>4 DEF BufferInv
  <2>6. j \in 1 .. n
    BY <1>2, <2>5
  <2> QED BY <2>1, <2>2, <2>3, <2>6
<1>10. Rooted(n)
  <2> SUFFICES ASSUME NEW i \in 1 .. n
               PROVE  /\ T[i].hop > 0 => \E j \in 1 .. n : Continues(T[i], T[j])
                      /\ \E j \in 1 .. n : T[j].hop = 0 /\ T[j].to = T[i].hub
    BY DEF Rooted
  <2>1. i \in 1 .. HeldCount /\ T[i].hop < hop /\ T[i].hop \in Int
    BY <1>2, <1>7, Sizes DEF BufferInv, IsWalk, Labels
  <2>2. \A j \in 1 .. HeldCount : T[j].hop < hop => j \in 1 .. n
    <3> TAKE j \in 1 .. HeldCount
    <3>1. ~(j < lastPos) => T[j].hop = hop
      BY <1>6 DEF BufferInv
    <3> QED BY <1>2, <3>1
  <2>3. ASSUME T[i].hop > 0 PROVE \E j \in 1 .. n : Continues(T[i], T[j])
    <3>1. PICK j \in 1 .. HeldCount : Continues(T[i], T[j])
      BY <2>1, <2>3 DEF BufferInv, Rooted
    <3>2. T[j].hop < hop
      BY <1>2, <2>1, <3>1 DEF Continues
    <3> QED BY <2>2, <3>1, <3>2
  <2>4. \E j \in 1 .. n : T[j].hop = 0 /\ T[j].to = T[i].hub
    <3>1. PICK j \in 1 .. HeldCount : T[j].hop = 0 /\ T[j].to = T[i].hub
      BY <2>1 DEF BufferInv, Rooted
    <3> QED BY <1>2, <2>2, <3>1
  <2> QED BY <2>3, <2>4
<1>11. ASSUME NEW i \in n + 1 .. n + c
       PROVE  /\ i \in DOMAIN T' /\ IsWalk(T[i])' /\ T'[i].hop = Current' /\ T'[i].hop > 0
              /\ \E j \in 1 .. n : Continues(T[i]', T[j])
  <2>1. i \in DOMAIN T' /\ T'[i] = T[at[i - n]] /\ at[i - n] \in new
    BY <1>8
  <2>2. /\ T'[i].hop = hop /\ IsWalk(T'[i])
        /\ \E j \in 1 .. n : Continues(T'[i], T[j])
    BY <1>9, <2>1
  <2>3. IsWalk(T[i])'
    BY <1>1, <2>2 DEF IsWalk
  <2> QED BY <1>2, <1>6, <2>1, <2>2, <2>3
<1>12. ASSUME NEW i \in n + 1 .. n + c, NEW j \in n + 1 .. n + c,
              T'[i].to = T'[j].to, T'[i].hub = T'[j].hub
       PROVE  i = j
  <2>1. /\ T'[i] = T[at[i - n]] /\ at[i - n] \in new /\ i - n \in 1 .. c
        /\ T'[j] = T[at[j - n]] /\ at[j - n] \in new /\ j - n \in 1 .. c
    BY <1>8
  <2>2. SameSpot(T[at[i - n]], T[at[j - n]])
    BY <1>9, <1>12, <2>1 DEF SameSpot
  <2>3. at[i - n] = at[j - n]
    BY <1>9, <2>1, <2>2 DEF BufferInv
  <2>4. i - n = j - n
    BY <1>5a, <2>1, <2>3
  <2> QED BY <1>2, <1>5, <2>4
<1> DEFINE m == n + c
<1>13. m \in Nat /\ m = n + lastSize'
  BY <1>1, <1>2, <1>5
<1>14. BufferInv'
  <2> HIDE DEF n, m
  <2> QED BY <1>1, <1>2, <1>6, <1>7, <1>10, <1>11, <1>12, <1>13, BatchKeeps DEF m
<1>15. \A i \in lastPos .. Top' : \E x \in lastPos .. Top : ~Pruned(T[x]) /\ T'[i] = T[x]
  <2>1. lastPos = n + 1
    BY <1>2
  <2> HIDE DEF n
  <2> QED BY <1>6, <1>8, <2>1
<1>16. ASSUME NEW x \in lastPos .. Top, ~Pruned(T[x])
       PROVE  \E i \in lastPos .. Top' : T'[i] = T[x]
  <2>1. PICK k \in 1 .. c : at[k] = x
    BY <1>5a, <1>16
  <2>2. n + k \in n + 1 .. n + c /\ (n + k) - n = k /\ n + 1 = lastPos
    BY <1>2, <1>5
  <2>3. T'[n + k] = T[x]
    BY <1>8, <2>1, <2>2
  <2> QED BY <1>6, <2>2, <2>3
<1> QED BY <1>6, <1>7, <1>14, <1>15, <1>16

(* The other steps leave the buffer alone.                                 *)
LEMMA SameBuffer ==
  ASSUME GpuTypes, BufferInv, UNCHANGED <<w, groups, T>>, GpuTypes', HeldCount' = HeldCount,
         InGroup' => /\ InGroup /\ gid' = gid /\ lastPos' = lastPos /\ Current' = Current
  PROVE  BufferInv'
<1>1. \A i \in 1 .. HeldCount : IsWalk(T[i])'
  BY DEF BufferInv, IsWalk
<1>2. Rooted(HeldCount)'
  BY DEF BufferInv, Rooted, Continues
<1>3. \A i, j \in 1 .. HeldCount : SameSpot(T[i], T[j])' => i = j
  BY DEF BufferInv, SameSpot
<1>4. 1 .. HeldCount \subseteq DOMAIN T'
  BY DEF BufferInv
<1>5. InGroup' => \A i \in 1 .. HeldCount :
                  /\ T'[i].hub \in ToSet(groups'[gid'])
                  /\ IF i < lastPos' THEN T'[i].hop < Current' ELSE T'[i].hop = Current'
  BY DEF BufferInv
<1> QED BY <1>1, <1>2, <1>3, <1>4, <1>5 DEF BufferInv

LEMMA UpdateBuffer ==
  ASSUME GpuTypes, BufferInv, UpdateHash
  PROVE  GpuTypes' /\ BufferInv'
<1>1. /\ pc = "update" /\ pc' = "expand" /\ hop' = hop + 1
      /\ UNCHANGED <<w, groups, gid, T, lastPos, lastSize, totL>>
  BY Zenon DEF UpdateHash
<1>2. /\ GpuTypes' /\ HeldCount' = HeldCount /\ Current' = Current /\ InGroup
  BY <1>1, Sizes DEF GpuTypes, InGroup, HeldCount, Current
<1> QED BY <1>1, <1>2, SameBuffer

LEMMA FinishBuffer ==
  ASSUME GpuTypes, BufferInv, FinishGroup
  PROVE  GpuTypes' /\ BufferInv'
<1>1. /\ pc \in {"expand", "finish"} /\ pc' = "idle" /\ lastPos' = lastPos + lastSize - 1
      /\ totL' = totL + lastPos' /\ gid' = gid + 1
      /\ UNCHANGED <<w, groups, hop, T, lastSize>>
  BY Zenon DEF FinishGroup
<1>2. lastPos \in Nat /\ lastPos > 0 /\ lastSize \in Nat /\ totL \in Nat /\ gid \in Nat \ {0}
  BY <1>1 DEF GpuTypes, InGroup
<1>3. GpuTypes' /\ HeldCount' = HeldCount /\ ~InGroup'
  BY <1>1, <1>2 DEF GpuTypes, InGroup, HeldCount
<1> QED BY <1>1, <1>3, SameBuffer

LEMMA CollectBuffer ==
  ASSUME GpuTypes, BufferInv, Collect
  PROVE  GpuTypes' /\ BufferInv'
<1>1. /\ pc = "idle" /\ pc' = "done"
      /\ UNCHANGED <<w, groups, gid, hop, T, lastPos, lastSize, totL>>
  BY Zenon DEF Collect
<1>2. GpuTypes' /\ HeldCount' = HeldCount /\ ~InGroup'
  BY <1>1 DEF GpuTypes, InGroup, HeldCount
<1> QED BY <1>1, <1>2, SameBuffer

LEMMA BufferNext == GpuTypes /\ BufferInv /\ [Next]_vars => GpuTypes' /\ BufferInv'
<1> SUFFICES ASSUME GpuTypes, BufferInv, [Next]_vars PROVE GpuTypes' /\ BufferInv'
  OBVIOUS
<1>1. CASE StartGroup
  BY <1>1, StartBuffer
<1>2. CASE Expand
  BY <1>2, ExpandBuffer
<1>3. CASE Prune
  BY <1>3, PruneBuffer
<1>4. CASE UpdateHash
  BY <1>4, UpdateBuffer
<1>5. CASE FinishGroup
  BY <1>5, FinishBuffer
<1>6. CASE Collect
  BY <1>6, CollectBuffer
<1>7. CASE UNCHANGED vars
  <2>1. UNCHANGED <<w, groups, gid, pc, hop, T, lastPos, lastSize, totL>>
    BY <1>7 DEF vars
  <2>2. GpuTypes' /\ HeldCount' = HeldCount /\ InGroup' = InGroup /\ Current' = Current
    BY <2>1 DEF GpuTypes, InGroup, HeldCount, Current
  <2> QED BY <2>1, <2>2, SameBuffer
<1> QED BY <1>1, <1>2, <1>3, <1>4, <1>5, <1>6, <1>7 DEF Next, Done

LEMMA BufferAlways == Spec => [](GpuTypes /\ BufferInv)
<1>1. Init => GpuTypes /\ BufferInv
  BY BufferInit
<1>2. (GpuTypes /\ BufferInv) /\ [Next]_vars => (GpuTypes /\ BufferInv)'
  BY BufferNext
<1> QED BY <1>1, <1>2, PTL DEF Spec

(* Whatever the graph, hop_cst and the groups: every label on the device   *)
(* is a walk of exactly its hops and length, and its last edge continues   *)
(* a label kept at the hop before, so a query can unroll it.               *)
THEOREM AlwaysWalks == Spec => []LabelsAreWalks
<1>1. GpuTypes /\ BufferInv => LabelsAreWalks
  <2> SUFFICES ASSUME GpuTypes, BufferInv, NEW l \in Held
               PROVE  /\ l.dist \in WalkLengths(w, l.hub)[l.hop][l.to]
                      /\ l.hop > 0 => \E m \in Held : Continues(l, m)
    BY DEF LabelsAreWalks, Continues
  <2>1. PICK i \in 1 .. HeldCount : l = T[i]
    BY DEF Held
  <2>2. IsWalk(l)
    BY <2>1 DEF BufferInv
  <2>3. ASSUME l.hop > 0 PROVE \E m \in Held : Continues(l, m)
    <3>1. PICK j \in 1 .. HeldCount : Continues(l, T[j])
      BY <2>1, <2>3 DEF BufferInv, Rooted
    <3> QED BY <3>1 DEF Held
  <2> QED BY <2>2, <2>3 DEF IsWalk
<1> QED BY <1>1, BufferAlways, PTL
----------------------------------------------------------------------------
(***************************************************************************)
(* The table.  The labels recorded in it are those before Sure; what is    *)
(* said of it holds while the offsets of these are right.                  *)
(***************************************************************************)
Sure == IF pc \in {"prune", "update"} THEN lastPos - 1 ELSE HeldCount
Judged == IF pc = "prune" THEN lastPos - 1 ELSE HeldCount

Recorded(n, h, v) == {i \in 1 .. n : T[i].to = v /\ T[i].hop = h}
ExactUpTo(n) ==
  \A h \in 1 .. K - 1, v \in Vertices : begin[<<h, v>>] .. end[<<h, v>>] - 1 = Recorded(n, h, v)

Within(i, v, m, k) == T[i].to = v /\ T[i].hub = m /\ T[i].hop <= k
TableRight(n) ==
  \A v, m \in Vertices, k \in 0 .. K - 1 :
    <<v, m, k>> # <<0, 0, 0>> =>
      /\ \A i \in 1 .. n : Within(i, v, m, k) => HashQuery(<<v, m, k>>) <= T[i].dist
      /\ \/ HashQuery(<<v, m, k>>) = Inf
         \/ \E i \in 1 .. n : Within(i, v, m, k) /\ HashQuery(<<v, m, k>>) = T[i].dist

(* Labels j and k answer label i within its hops.                          *)
Answered(i, j, k) ==
  /\ i # j /\ T[j].to = T[i].to
  /\ T[k].to = T[i].hub /\ T[k].hub = T[j].hub
  /\ T[j].hop + T[k].hop <= T[i].hop
  /\ T[j].dist + T[k].dist <= T[i].dist
NotRedundant(n) == \A i, j, k \in 1 .. n : ~Answered(i, j, k)

TableInv ==
  /\ DOMAIN begin = (0 .. K) \X Vertices /\ DOMAIN end = (0 .. K) \X Vertices
  /\ IF InGroup THEN DOMAIN has \subseteq ClearedKeys(Sure) ELSE DOMAIN has = {}
  /\ InGroup => /\ \A h \in hop .. K, v \in Vertices : begin[<<h, v>>] = 0 /\ end[<<h, v>>] = 0
                /\ ExactUpTo(Sure) => TableRight(Sure) /\ NotRedundant(Judged)

Shape(l) ==
  /\ l.to \in Vertices /\ l.hub \in Vertices /\ l.to \in Int /\ l.hub \in Int
  /\ l.hop \in 0 .. K /\ l.hop \in Int /\ l.dist \in Nat /\ l.dist < Inf
  /\ l.hop = 0 => l.to = l.hub /\ l.dist = 0
  /\ l.hop > 0 => l.hub < l.to

LEMMA WalkShape ==
  ASSUME w \in Graphs, NEW l, IsWalk(l)
  PROVE  Shape(l)
<1>1. l \in Labels /\ l.dist \in WalkLengths(w, l.hub)[l.hop][l.to]
  BY DEF IsWalk
<1>2. /\ l.to \in Vertices /\ l.hub \in Vertices /\ l.hop \in 0 .. K
      /\ l.to \in Int /\ l.hub \in Int /\ l.hop \in Int
  BY <1>1, Sizes DEF Labels, Vertices
<1>3. /\ l.dist \in 0 .. Inf - 1
      /\ l.hop = 0 => l.to = l.hub /\ l.dist = 0
      /\ l.hop > 0 => l.hub < l.to
  BY <1>1, <1>2, GraphIs, WalkBounds
<1> QED BY <1>2, <1>3, Sizes DEF Shape

LEMMA InsertIs ==
  ASSUME NEW labels, NEW hops, has' = InsertAll(has, labels, hops),
         \A a, b \in labels : SameKey(a, b) => a = b
  PROVE  /\ \A l \in labels, k \in hops :
              <<l.to, l.hub, k>> # <<0, 0, 0>> => HashQuery(<<l.to, l.hub, k>>)' = l.dist
         /\ \A key : key \notin Keys(labels, hops) => HashQuery(key)' = HashQuery(key)
         /\ DOMAIN has' \subseteq DOMAIN has \cup Keys(labels, hops)
<1> DEFINE keys == Keys(labels, hops)
           DistOf(key) == (CHOOSE l \in labels : l.to = key[1] /\ l.hub = key[2]).dist
           stay == {key \in keys : ~(key = <<0, 0, 0>> /\ DistOf(key) = 0)}
<1>1. has' = [x \in DOMAIN has \cup stay |-> IF x \in keys THEN DistOf(x) ELSE has[x]]
  BY DEF InsertAll
<1>2. ASSUME NEW l \in labels, NEW k \in hops
      PROVE  <<l.to, l.hub, k>> \in keys /\ DistOf(<<l.to, l.hub, k>>) = l.dist
  <2> DEFINE key == <<l.to, l.hub, k>>
  <2>1. key \in keys
    BY DEF Keys
  <2>2. key[1] = l.to /\ key[2] = l.hub
    OBVIOUS
  <2> HIDE DEF key
  <2>3. \A x \in labels : x.to = key[1] /\ x.hub = key[2] => x = l
    BY <2>2 DEF SameKey
  <2>4. (CHOOSE x \in labels : x.to = key[1] /\ x.hub = key[2]) = l
    BY <2>2, <2>3
  <2>5. DistOf(key) = l.dist
    BY <2>4
  <2> QED BY <2>1, <2>5 DEF key
<1> HIDE DEF DistOf, keys
<1>3. ASSUME NEW l \in labels, NEW k \in hops, <<l.to, l.hub, k>> # <<0, 0, 0>>
      PROVE  HashQuery(<<l.to, l.hub, k>>)' = l.dist
  <2>1. <<l.to, l.hub, k>> \in keys /\ <<l.to, l.hub, k>> \in stay
    BY <1>2, <1>3
  <2>2. has'[<<l.to, l.hub, k>>] = l.dist /\ <<l.to, l.hub, k>> \in DOMAIN has'
    BY <1>1, <1>2, <2>1
  <2> QED BY <2>2 DEF HashQuery
<1>4. ASSUME NEW key, key \notin keys PROVE HashQuery(key)' = HashQuery(key)
  BY <1>1, <1>4 DEF HashQuery
<1>5. DOMAIN has' \subseteq DOMAIN has \cup keys
  BY <1>1
<1> QED BY <1>3, <1>4, <1>5 DEF keys

(* What is said of the labels up to n does not depend on those behind.     *)
LEMMA UpToFrame ==
  ASSUME NEW n \in Nat, UNCHANGED <<has, begin, end>>, \A i \in 1 .. n : T'[i] = T[i]
  PROVE  /\ ExactUpTo(n)' => ExactUpTo(n)
         /\ TableRight(n) => TableRight(n)'
         /\ NotRedundant(n) => NotRedundant(n)'
         /\ ClearedKeys(n)' = ClearedKeys(n)
<1>1. ExactUpTo(n)' => ExactUpTo(n)
  <2>1. \A h \in 1 .. K - 1, v \in Vertices : Recorded(n, h, v)' = Recorded(n, h, v)
    BY DEF Recorded
  <2> QED BY <2>1 DEF ExactUpTo
<1>2. TableRight(n) => TableRight(n)'
  <2>1. \A key : HashQuery(key)' = HashQuery(key)
    BY DEF HashQuery
  <2>2. \A v, m \in Vertices, k \in 0 .. K - 1 : \A i \in 1 .. n : Within(i, v, m, k)' <=> Within(i, v, m, k)
    BY DEF Within
  <2> SUFFICES ASSUME TableRight(n),
                      NEW v \in Vertices, NEW m \in Vertices, NEW k \in 0 .. K - 1,
                      <<v, m, k>> # <<0, 0, 0>>
               PROVE  /\ \A i \in 1 .. n : Within(i, v, m, k) => HashQuery(<<v, m, k>>) <= T'[i].dist
                      /\ \/ HashQuery(<<v, m, k>>) = Inf
                         \/ \E i \in 1 .. n :
                              Within(i, v, m, k) /\ HashQuery(<<v, m, k>>) = T'[i].dist
    BY <2>1, <2>2, Zenon DEF TableRight
  <2> QED BY DEF TableRight
<1>3. NotRedundant(n) => NotRedundant(n)'
  BY DEF NotRedundant, Answered
<1>4. ClearedKeys(n)' = ClearedKeys(n)
  BY DEF ClearedKeys
<1> QED BY <1>1, <1>2, <1>3, <1>4

LEMMA TableExpand ==
  ASSUME GpuTypes, BufferInv, TableInv, Expand
  PROVE  TableInv'
<1>1. /\ pc = "expand" /\ pc' \in {"prune", "finish"} /\ lastPos' = lastPos + lastSize
      /\ UNCHANGED <<has, begin, end, hop, gid>>
      /\ pc' = "finish" => lastSize' = 0
  <2>1. \A out : out = {} => Cardinality(out) = 0
    BY FS_EmptySet
  <2> QED BY <2>1 DEF Expand
<1>2. lastPos \in Nat /\ lastPos > 0 /\ lastSize \in Nat /\ Top \in Nat
  BY <1>1 DEF GpuTypes, InGroup, Top
<1> SUFFICES ASSUME NEW n \in Nat, n = Top PROVE TableInv'
  BY <1>2
<1>3. \A i \in 1 .. n : T'[i] = T[i]
  BY ExpandBuffer
<1>4. InGroup /\ Sure = n /\ Judged = n
  BY <1>1 DEF InGroup, Sure, Judged, HeldCount, Top
<1>5. InGroup' /\ Sure' = n /\ Judged' = n
  <2>1. CASE pc' = "prune"
    BY <1>1, <1>2, <2>1 DEF InGroup, Sure, Judged, Top
  <2>2. CASE pc' = "finish"
    BY <1>1, <1>2, <2>2 DEF InGroup, Sure, Judged, HeldCount, Top
  <2> QED BY <1>1, <2>1, <2>2
<1>6. /\ ExactUpTo(n)' => ExactUpTo(n)
      /\ TableRight(n) => TableRight(n)'
      /\ NotRedundant(n) => NotRedundant(n)'
      /\ ClearedKeys(n)' = ClearedKeys(n)
  BY <1>1, <1>3, UpToFrame
<1>7. ExactUpTo(n)' => TableRight(n)' /\ NotRedundant(n)'
  BY <1>4, <1>6 DEF TableInv
<1>8. ExactUpTo(Sure)' => TableRight(Sure)' /\ NotRedundant(Judged)'
  BY <1>5, <1>7
<1>9. DOMAIN has' \subseteq ClearedKeys(n)'
  BY <1>1, <1>4, <1>6 DEF TableInv
<1>10. DOMAIN has' \subseteq ClearedKeys(Sure)'
  BY <1>5, <1>9
<1> QED BY <1>1, <1>4, <1>5, <1>8, <1>10 DEF TableInv

LEMMA PruneMinimal ==
  ASSUME GpuTypes, BufferInv, Prune, NEW n \in Nat, lastPos = n + 1,
         ExactUpTo(n), TableRight(n), NotRedundant(n)
  PROVE  NotRedundant(HeldCount)'
<1>1. /\ pc = "prune" /\ pc' = "update" /\ hop \in 1 .. K /\ lastPos \in Nat
      /\ UNCHANGED <<w, hop, lastPos>> /\ HeldCount' = Top'
  <2>1. pc = "prune" /\ pc' = "update" /\ UNCHANGED <<w, hop, lastPos>>
    BY Zenon DEF Prune
  <2> QED BY <2>1, Sizes DEF GpuTypes, InGroup, HeldCount, Top
<1>2. /\ GpuTypes' /\ BufferInv'
      /\ \A i \in 1 .. n : i \in DOMAIN T' /\ T'[i] = T[i]
      /\ \A i \in n + 1 .. Top' : \E x \in n + 1 .. Top : ~Pruned(T[x]) /\ T'[i] = T[x]
  BY PruneBuffer
<1>3. \A i \in 1 .. Top' : Shape(T'[i])
  <2> SUFFICES ASSUME NEW i \in 1 .. Top' PROVE Shape(T'[i])
    OBVIOUS
  <2>1. IsWalk(T[i])'
    BY <1>1, <1>2 DEF BufferInv
  <2>2. IsWalk(T'[i])
    BY <1>1, <2>1 DEF IsWalk
  <2> QED BY <2>2, WalkShape DEF GpuTypes
<1>4. \A i \in 1 .. Top' : IF i <= n THEN T'[i].hop < hop ELSE T'[i].hop = hop
  <2>1. InGroup' /\ Current' = hop
    BY <1>1 DEF InGroup, Current
  <2> QED BY <1>1, <1>2, <2>1 DEF BufferInv
<1>5. Top' \in Int /\ n \in DOMAIN T \cup {0}
  <2>1. Top' \in Int
    BY <1>2 DEF GpuTypes, Top
  <2>2. n <= HeldCount
    BY <1>1 DEF GpuTypes, HeldCount
  <2>3. HeldCount \in Int
    BY DEF GpuTypes, HeldCount
  <2> QED BY <2>1, <2>2, <2>3 DEF BufferInv
<1>6. 1 .. n \subseteq DOMAIN T
  <2>1. HeldCount \in Int /\ n <= HeldCount
    BY <1>1 DEF GpuTypes, HeldCount
  <2> QED BY <2>1 DEF BufferInv
<1> SUFFICES ASSUME NEW i \in 1 .. Top', NEW j \in 1 .. Top', NEW k \in 1 .. Top', Answered(i, j, k)'
             PROVE  FALSE
  BY <1>1 DEF NotRedundant
<1> DEFINE l == T'[i]
           a == T'[j]
           b == T'[k]
<1>7. Shape(l) /\ Shape(a) /\ Shape(b)
  BY <1>3
<1>8. /\ i # j /\ a.to = l.to /\ b.to = l.hub /\ b.hub = a.hub
      /\ a.hop + b.hop <= l.hop /\ a.dist + b.dist <= l.dist
  BY DEF Answered
<1>9. CASE i <= n
  <2>1. l.hop < hop
    BY <1>4, <1>9
  <2>2. a.hop < hop /\ b.hop < hop
    BY <1>1, <1>7, <1>8, <2>1 DEF Shape
  <2>3. j <= n /\ k <= n
    BY <1>1, <1>4, <2>2
  <2>4. i \in 1 .. n /\ j \in 1 .. n /\ k \in 1 .. n
    BY <1>5, <1>9, <2>3
  <2>5. Answered(i, j, k)
    BY <1>2, <2>4 DEF Answered
  <2> QED BY <2>4, <2>5 DEF NotRedundant
<1>10. CASE ~(i <= n)
  <2>1. l.hop = hop /\ i \in n + 1 .. Top'
    BY <1>4, <1>5, <1>10
  <2>2. ~Pruned(l)
    <3>1. PICK x \in n + 1 .. Top : ~Pruned(T[x]) /\ T'[i] = T[x]
      BY <1>2, <2>1
    <3> QED BY <3>1
  <2>3. CASE a.hop = hop
    <3>1. b.hop = 0
      BY <1>1, <1>7, <1>8, <2>1, <2>3 DEF Shape
    <3>2. a.hub = l.hub
      BY <1>7, <1>8, <3>1 DEF Shape
    <3>3. SameSpot(T[i], T[j])'
      BY <1>8, <2>1, <2>3, <3>2 DEF SameSpot
    <3> QED BY <1>1, <1>2, <1>8, <3>3 DEF BufferInv
  <2>4. CASE a.hop = 0
    <3>1. a.to = a.hub /\ b.hub = l.to /\ b.to = l.hub /\ l.hub < l.to
      BY <1>1, <1>7, <1>8, <2>1, <2>4 DEF Shape
    <3> QED BY <1>7, <3>1 DEF Shape
  <2>5. CASE a.hop \in 1 .. hop - 1
    <3>1. j \in 1 .. n /\ a = T[j] /\ b.hop <= hop - a.hop /\ b.hop < hop
      <4>1. a.hop < hop
        BY <1>1, <2>5
      <4>2. j <= n
        BY <1>1, <1>4, <4>1
      <4>3. j \in 1 .. n
        BY <1>5, <4>2
      <4> QED BY <1>1, <1>2, <1>7, <1>8, <2>1, <2>5, <4>3 DEF Shape
    <3>2. k \in 1 .. n /\ b = T[k]
      <4>1. k <= n
        BY <1>1, <1>4, <3>1
      <4>2. k \in 1 .. n
        BY <1>5, <4>1
      <4> QED BY <1>2, <4>2
    <3>3. j \in begin[<<a.hop, l.to>>] .. end[<<a.hop, l.to>>] - 1
      <4>1. j \in Recorded(n, a.hop, l.to)
        BY <1>8, <3>1 DEF Recorded
      <4>2. a.hop \in 1 .. K - 1 /\ l.to \in Vertices
        BY <1>1, <1>7, <2>5, Sizes DEF Shape
      <4> QED BY <4>1, <4>2 DEF ExactUpTo
    <3> DEFINE q == HashQuery(<<l.hub, a.hub, hop - a.hop>>)
               left == hop - a.hop
    <3>4. At(T, j) = a
      BY <1>6, <3>1 DEF At
    <3>5. left \in 0 .. K - 1 /\ left # 0 /\ l.hub \in Vertices /\ a.hub \in Vertices
      BY <1>1, <1>7, <2>5, Sizes DEF Shape
    <3>6. Within(k, l.hub, a.hub, left)
      BY <1>8, <3>1, <3>2 DEF Within
    <3>7. q <= b.dist
      <4>1. <<l.hub, a.hub, left>> # <<0, 0, 0>>
        BY <3>5
      <4> HIDE DEF left
      <4>2. HashQuery(<<l.hub, a.hub, left>>) <= T[k].dist
        BY <3>2, <3>5, <3>6, <4>1 DEF TableRight
      <4> QED BY <3>2, <4>2 DEF left
    <3>8. ~(a.dist + q <= l.dist)
      <4>1. a.hop \in 1 .. l.hop - 1
        BY <2>1, <2>5
      <4>2. ~(At(T, j).dist + HashQuery(<<l.hub, At(T, j).hub, l.hop - a.hop>>) <= l.dist)
        BY <2>2, <3>3, <4>1, Zenon DEF Pruned
      <4> QED BY <2>1, <3>4, <4>2
    <3>9. q \in Int
      <4>1. <<l.hub, a.hub, left>> # <<0, 0, 0>>
        BY <3>5
      <4> HIDE DEF left
      <4>2. \/ HashQuery(<<l.hub, a.hub, left>>) = Inf
            \/ \E y \in 1 .. n : HashQuery(<<l.hub, a.hub, left>>) = T[y].dist
        BY <3>5, <4>1 DEF TableRight
      <4>3. \A y \in 1 .. n : T[y].dist \in Int
        <5>1. \A y \in 1 .. n : T[y].dist \in Int
          <6> SUFFICES ASSUME NEW y \in 1 .. n PROVE T[y].dist \in Int
            OBVIOUS
          <6>1. y \in 1 .. HeldCount
            BY <1>1 DEF GpuTypes, HeldCount
          <6>2. Shape(T[y])
            BY <6>1, WalkShape DEF BufferInv, GpuTypes
          <6> QED BY <6>2 DEF Shape
        <5> QED BY <5>1
      <4> QED BY <4>2, <4>3, Sizes DEF left
    <3> HIDE DEF q
    <3> QED BY <1>7, <1>8, <3>7, <3>8, <3>9 DEF Shape
  <2>6. a.hop = hop \/ a.hop = 0 \/ a.hop \in 1 .. hop - 1
    BY <1>1, <1>7, <1>8, <2>1 DEF Shape
  <2> QED BY <2>3, <2>4, <2>5, <2>6
<1> QED BY <1>9, <1>10

LEMMA TablePrune ==
  ASSUME GpuTypes, BufferInv, TableInv, Prune
  PROVE  TableInv'
<1>1. /\ pc = "prune" /\ pc' = "update" /\ UNCHANGED <<lastPos, has, begin, end, hop, gid>>
  BY Zenon DEF Prune
<1>2. lastPos \in Nat /\ lastPos > 0 /\ lastPos - 1 \in Nat
  BY <1>1 DEF GpuTypes, InGroup
<1> SUFFICES ASSUME NEW n \in Nat, n = lastPos - 1 PROVE TableInv'
  BY <1>2
<1>3. \A i \in 1 .. n : T'[i] = T[i]
  BY PruneBuffer
<1>4. InGroup /\ Sure = n /\ Judged = n /\ InGroup' /\ Sure' = n /\ Judged' = HeldCount'
  BY <1>1 DEF InGroup, Sure, Judged
<1>5. /\ ExactUpTo(n)' => ExactUpTo(n)
      /\ TableRight(n) => TableRight(n)'
      /\ ClearedKeys(n)' = ClearedKeys(n)
  BY <1>1, <1>3, UpToFrame
<1>6. ExactUpTo(n)' => TableRight(n)' /\ NotRedundant(HeldCount)'
  <2> SUFFICES ASSUME ExactUpTo(n)' PROVE TableRight(n)' /\ NotRedundant(HeldCount)'
    OBVIOUS
  <2>1. ExactUpTo(n) /\ TableRight(n) /\ NotRedundant(n)
    BY <1>4, <1>5 DEF TableInv
  <2>2. lastPos = n + 1
    BY <1>2
  <2> QED BY <1>5, <2>1, <2>2, PruneMinimal
<1>7. ExactUpTo(Sure)' => TableRight(Sure)' /\ NotRedundant(Judged)'
  BY <1>4, <1>6
<1>8. DOMAIN has' \subseteq ClearedKeys(n)'
  BY <1>1, <1>4, <1>5 DEF TableInv
<1>9. DOMAIN has' \subseteq ClearedKeys(Sure)'
  BY <1>4, <1>8
<1> QED BY <1>1, <1>4, <1>7, <1>9 DEF TableInv

(* The new labels are filed over older ones that cost more.                *)
LEMMA UpdateRecords ==
  ASSUME GpuTypes, BufferInv, pc = "update", UNCHANGED <<w, T>>,
         NEW n \in Nat, lastPos = n + 1, NEW m \in Nat, m = HeldCount,
         has' = InsertAll(has, {T[i] : i \in n + 1 .. m}, hop .. K - 1)
  PROVE  /\ TableRight(n) /\ NotRedundant(m) => TableRight(m)'
         /\ DOMAIN has \subseteq ClearedKeys(n) => DOMAIN has' \subseteq ClearedKeys(m)'
<1> DEFINE labels == {T[i] : i \in n + 1 .. m}
           hops == hop .. K - 1
<1>1. hop \in 1 .. K /\ lastSize \in Nat /\ n <= m /\ InGroup /\ Current = hop
  BY Sizes DEF GpuTypes, InGroup, HeldCount, Current
<1>2. \A i \in 1 .. m : /\ Shape(T[i])
                        /\ IF i <= n THEN T[i].hop < hop ELSE T[i].hop = hop
  <2> SUFFICES ASSUME NEW i \in 1 .. m
               PROVE  Shape(T[i]) /\ IF i <= n THEN T[i].hop < hop ELSE T[i].hop = hop
    OBVIOUS
  <2>1. IsWalk(T[i]) /\ IF i < lastPos THEN T[i].hop < hop ELSE T[i].hop = hop
    BY <1>1 DEF BufferInv
  <2> QED BY <2>1, WalkShape DEF GpuTypes
<1>3. \A i \in n + 1 .. m : i \in 1 .. m /\ ~(i <= n)
  OBVIOUS
<1>4. \A i, j \in n + 1 .. m : SameKey(T[i], T[j]) => i = j
  <2> TAKE i, j \in n + 1 .. m
  <2>1. SameKey(T[i], T[j]) => SameSpot(T[i], T[j])
    BY <1>2, <1>3 DEF SameKey, SameSpot
  <2> QED BY <1>3, <2>1 DEF BufferInv
<1>5. \A a, b \in labels : SameKey(a, b) => a = b
  BY <1>4
<1>6. /\ \A l \in labels, k \in hops :
              <<l.to, l.hub, k>> # <<0, 0, 0>> => HashQuery(<<l.to, l.hub, k>>)' = l.dist
      /\ \A key : key \notin Keys(labels, hops) => HashQuery(key)' = HashQuery(key)
      /\ DOMAIN has' \subseteq DOMAIN has \cup Keys(labels, hops)
  <2> HIDE DEF labels, hops
  <2>1. has' = InsertAll(has, labels, hops)
    BY DEF labels, hops
  <2> QED BY <1>5, <2>1, InsertIs
<1>7. ASSUME TableRight(n), NotRedundant(m) PROVE TableRight(m)'
  <2> SUFFICES ASSUME NEW v \in Vertices, NEW u \in Vertices, NEW k \in 0 .. K - 1,
                      <<v, u, k>> # <<0, 0, 0>>
               PROVE  /\ \A i \in 1 .. m : Within(i, v, u, k) => HashQuery(<<v, u, k>>)' <= T[i].dist
                      /\ \/ HashQuery(<<v, u, k>>)' = Inf
                         \/ \E i \in 1 .. m : Within(i, v, u, k) /\ HashQuery(<<v, u, k>>)' = T[i].dist
    <3>1. T' = T /\ \A i, v, u, k : Within(i, v, u, k)' <=> Within(i, v, u, k)
      BY DEF Within
    <3>2. ASSUME NEW v \in Vertices, NEW u \in Vertices, NEW k \in 0 .. K - 1,
                 /\ \A i \in 1 .. m : Within(i, v, u, k) => HashQuery(<<v, u, k>>)' <= T[i].dist
                 /\ \/ HashQuery(<<v, u, k>>)' = Inf
                    \/ \E i \in 1 .. m : Within(i, v, u, k) /\ HashQuery(<<v, u, k>>)' = T[i].dist
          PROVE  /\ \A i \in 1 .. m : Within(i, v, u, k)' => HashQuery(<<v, u, k>>)' <= T'[i].dist
                 /\ \/ HashQuery(<<v, u, k>>)' = Inf
                    \/ \E i \in 1 .. m : Within(i, v, u, k)' /\ HashQuery(<<v, u, k>>)' = T'[i].dist
      BY <3>1, <3>2
    <3> QED BY <3>2 DEF TableRight
  <2>1. CASE \E i \in n + 1 .. m : Within(i, v, u, k)
    <3>1. PICK i \in n + 1 .. m : Within(i, v, u, k)
      BY <2>1
    <3>2. i \in 1 .. m /\ Shape(T[i]) /\ T[i].hop = hop /\ T[i].to = v /\ T[i].hub = u /\ hop <= k
      BY <1>2, <1>3, <3>1 DEF Within
    <3>3. k \in hops
      BY <1>1, <3>2, Sizes
    <3>4. HashQuery(<<v, u, k>>)' = T[i].dist
      <4>1. T[i] \in labels
        OBVIOUS
      <4> HIDE DEF labels, hops
      <4> QED BY <1>6, <3>2, <3>3, <4>1
    <3>5. ASSUME NEW j \in 1 .. m, Within(j, v, u, k) PROVE T[i].dist <= T[j].dist
      <4>1. CASE j <= n
        <5>1. PICK r \in 1 .. m : T[r].hop = 0 /\ T[r].to = T[i].hub
          BY <3>2 DEF BufferInv, Rooted
        <5>2. T[r].hub = T[r].to /\ T[r].dist = 0
          BY <1>2, <5>1 DEF Shape
        <5>3. T[j].hop < hop /\ T[j].hop \in Int /\ T[j].dist \in Int /\ T[i].dist \in Int
          BY <1>2, <3>2, <4>1 DEF Shape
        <5>4. i # j
          BY <4>1, <1>3
        <5>5. ~Answered(i, j, r)
          BY <1>7, <3>2 DEF NotRedundant
        <5>6. ~(T[j].dist + T[r].dist <= T[i].dist)
          <6>1. T[j].hop + T[r].hop <= T[i].hop
            BY <1>1, <3>2, <5>1, <5>3
          <6> QED BY <3>2, <3>5, <5>1, <5>2, <5>4, <5>5, <6>1 DEF Answered, Within
        <5> QED BY <5>2, <5>3, <5>6
      <4>2. CASE ~(j <= n)
        <5>1. j \in n + 1 .. m
          BY <4>2
        <5>2. SameKey(T[i], T[j])
          BY <3>2, <3>5 DEF SameKey, Within
        <5>3. i = j
          BY <1>4, <5>1, <5>2
        <5> QED BY <3>2, <5>3 DEF Shape
      <4> QED BY <4>1, <4>2
    <3> QED BY <3>1, <3>2, <3>4, <3>5
  <2>2. CASE ~\E i \in n + 1 .. m : Within(i, v, u, k)
    <3>1. <<v, u, k>> \notin Keys(labels, hops)
      <4> SUFFICES ASSUME <<v, u, k>> \in Keys(labels, hops) PROVE FALSE
        OBVIOUS
      <4>1. PICK l \in labels, h \in hops : <<v, u, k>> = <<l.to, l.hub, h>>
        BY DEF Keys
      <4>2. PICK i \in n + 1 .. m : l = T[i]
        OBVIOUS
      <4>3. T[i].hop = hop /\ T[i].to = v /\ T[i].hub = u /\ k \in hops
        BY <1>2, <1>3, <4>1, <4>2
      <4>4. Within(i, v, u, k)
        BY <1>1, <4>3 DEF Within
      <4> QED BY <2>2, <4>4
    <3>2. HashQuery(<<v, u, k>>)' = HashQuery(<<v, u, k>>)
      BY <1>6, <3>1, Zenon
    <3>3. \A i \in 1 .. m : Within(i, v, u, k) => i \in 1 .. n
      BY <2>2
    <3>4. \A i \in 1 .. n : i \in 1 .. m
      BY <1>1
    <3> QED BY <1>7, <3>2, <3>3, <3>4 DEF TableRight
  <2> QED BY <2>1, <2>2
<1>8. ASSUME DOMAIN has \subseteq ClearedKeys(n) PROVE DOMAIN has' \subseteq ClearedKeys(m)'
  <2>1. \A i \in 1 .. m : Keys({T[i]}, T[i].hop .. K) \subseteq ClearedKeys(m)'
    BY DEF ClearedKeys
  <2>2. ClearedKeys(n) \subseteq ClearedKeys(m)'
    <3>1. \A i \in 1 .. n : i \in 1 .. m
      BY <1>1
    <3> QED BY <3>1 DEF ClearedKeys
  <2>3. Keys(labels, hops) \subseteq ClearedKeys(m)'
    <3> SUFFICES ASSUME NEW key \in Keys(labels, hops) PROVE key \in ClearedKeys(m)'
      OBVIOUS
    <3>1. PICK l \in labels, h \in hops : key = <<l.to, l.hub, h>>
      BY DEF Keys
    <3>2. PICK i \in n + 1 .. m : l = T[i]
      OBVIOUS
    <3>3. T[i].hop = hop /\ h \in T[i].hop .. K
      BY <1>1, <1>2, <1>3, Sizes
    <3>4. key \in Keys({T[i]}, T[i].hop .. K)
      BY <3>1, <3>2, <3>3 DEF Keys
    <3> QED BY <1>3, <2>1, <3>4
  <2> QED BY <1>6, <1>8, <2>2, <2>3
<1> QED BY <1>7, <1>8

(* The offsets of one hop are written at a time.                           *)
LEMMA UpdateOffsets ==
  ASSUME TableInv, UpdateHash
  PROVE  /\ DOMAIN begin' = DOMAIN begin /\ DOMAIN end' = DOMAIN end
         /\ \A h \in 0 .. K, v \in Vertices :
              h # hop => begin'[<<h, v>>] = begin[<<h, v>>] /\ end'[<<h, v>>] = end[<<h, v>>]
<1> DEFINE new == lastPos .. Top
           O(v) == {i \in new : T[i].to = v /\ T[i].to # At(T, i - 1).to}
           C(v) == {i \in new : T[i].to = v /\ T[i].to # At(T, i + 1).to}
<1>1. /\ begin' = [p \in DOMAIN begin |->
                    IF p[1] = hop /\ O(p[2]) # {} THEN Min(O(p[2])) ELSE begin[p]]
      /\ end' = [p \in DOMAIN end |->
                    IF p[1] = hop /\ C(p[2]) # {} THEN Max(C(p[2])) + 1 ELSE end[p]]
  BY Zenon DEF UpdateHash, Top
<1> HIDE DEF O, C
<1>2. \A h \in 0 .. K, v \in Vertices : <<h, v>> \in DOMAIN begin /\ <<h, v>> \in DOMAIN end
  BY DEF TableInv
<1> QED BY <1>1, <1>2

LEMMA TableUpdate ==
  ASSUME GpuTypes, BufferInv, TableInv, UpdateHash
  PROVE  TableInv'
<1>1. /\ pc = "update" /\ pc' = "expand" /\ hop' = hop + 1
      /\ UNCHANGED <<w, groups, gid, T, lastPos, lastSize>>
      /\ has' = InsertAll(has, {T[i] : i \in lastPos .. Top}, hop .. K - 1)
  BY Zenon DEF UpdateHash, Top
<1>2. /\ lastPos \in Nat /\ lastPos > 0 /\ lastSize \in Nat /\ hop \in 1 .. K /\ hop \in Int
      /\ InGroup /\ InGroup' /\ Top \in Nat /\ HeldCount = Top
  BY <1>1, Sizes DEF GpuTypes, InGroup, Top, HeldCount
<1> SUFFICES ASSUME NEW n \in Nat, lastPos = n + 1, NEW m \in Nat, m = Top
             PROVE  TableInv'
  <2>1. lastPos - 1 \in Nat /\ lastPos = (lastPos - 1) + 1
    BY <1>2
  <2> QED BY <1>2, <2>1
<1>3. /\ Sure = n /\ Judged = m /\ HeldCount = m
      /\ HeldCount' = m /\ Sure' = m /\ Judged' = m /\ Top' = m
  <2>1. Sure = lastPos - 1 /\ Judged = Top
    BY <1>1, <1>2 DEF Sure, Judged
  <2>2. HeldCount' = Top /\ Top' = Top
    BY <1>1 DEF HeldCount, Top
  <2>3. Sure' = HeldCount' /\ Judged' = HeldCount'
    BY <1>1 DEF Sure, Judged
  <2> QED BY <1>2, <2>1, <2>2, <2>3
<1>4. /\ TableRight(n) /\ NotRedundant(m) => TableRight(m)'
      /\ DOMAIN has \subseteq ClearedKeys(n) => DOMAIN has' \subseteq ClearedKeys(m)'
  <2>1. has' = InsertAll(has, {T[i] : i \in n + 1 .. m}, hop .. K - 1)
    BY <1>1
  <2> QED BY <1>1, <1>3, <2>1, UpdateRecords
<1>5. /\ DOMAIN begin' = DOMAIN begin /\ DOMAIN end' = DOMAIN end
      /\ \A h \in 0 .. K, v \in Vertices :
           h # hop => begin'[<<h, v>>] = begin[<<h, v>>] /\ end'[<<h, v>>] = end[<<h, v>>]
  BY UpdateOffsets
<1>6. \A i \in 1 .. m : /\ T[i].hop \in Int
                        /\ IF i <= n THEN T[i].hop < hop ELSE T[i].hop = hop
  <2> SUFFICES ASSUME NEW i \in 1 .. m
               PROVE  T[i].hop \in Int /\ IF i <= n THEN T[i].hop < hop ELSE T[i].hop = hop
    OBVIOUS
  <2>1. IsWalk(T[i]) /\ IF i < lastPos THEN T[i].hop < hop ELSE T[i].hop = hop
    <3>1. Current = hop
      BY <1>1 DEF Current
    <3> QED BY <1>2, <1>3, <3>1 DEF BufferInv
  <2> QED BY <2>1, Sizes DEF IsWalk, Labels
<1>7. n <= m
  BY <1>2 DEF Top
<1>8. ASSUME ExactUpTo(m)' PROVE ExactUpTo(n)
  <2> SUFFICES ASSUME NEW h \in 1 .. K - 1, NEW v \in Vertices
               PROVE  begin[<<h, v>>] .. end[<<h, v>>] - 1 = Recorded(n, h, v)
    BY DEF ExactUpTo
  <2>1. h \in 0 .. K /\ h \in Int
    BY Sizes
  <2>2. CASE h < hop
    <3>1. begin[<<h, v>>] .. end[<<h, v>>] - 1 = Recorded(m, h, v)'
      BY <1>2, <1>5, <1>8, <2>1, <2>2 DEF ExactUpTo
    <3>2. Recorded(m, h, v)' = Recorded(n, h, v)
      <4>1. \A i \in 1 .. m : T[i].hop = h => i \in 1 .. n
        BY <1>2, <1>6, <2>1, <2>2
      <4>2. \A i \in 1 .. n : i \in 1 .. m
        BY <1>7
      <4> QED BY <1>1, <4>1, <4>2 DEF Recorded
    <3> QED BY <3>1, <3>2
  <2>3. CASE ~(h < hop)
    <3>1. begin[<<h, v>>] = 0 /\ end[<<h, v>>] = 0
      <4>1. h \in hop .. K
        BY <1>2, <2>1, <2>3, Sizes
      <4> QED BY <1>2, <4>1 DEF TableInv
    <3>2. Recorded(n, h, v) = {}
      <4>1. \A i \in 1 .. n : T[i].hop < hop /\ T[i].hop \in Int
        BY <1>6, <1>7
      <4>2. \A i \in 1 .. n : T[i].hop # h
        BY <1>2, <2>1, <2>3, <4>1
      <4> QED BY <4>2 DEF Recorded
    <3> QED BY <3>1, <3>2
  <2> QED BY <2>2, <2>3
<1>9. ExactUpTo(m)' => TableRight(m)' /\ NotRedundant(m)'
  <2>1. NotRedundant(m) => NotRedundant(m)'
    BY <1>1 DEF NotRedundant, Answered
  <2>2. ExactUpTo(n) => TableRight(n) /\ NotRedundant(m)
    BY <1>2, <1>3 DEF TableInv
  <2> QED BY <1>4, <1>8, <2>1, <2>2
<1>10. ExactUpTo(Sure)' => TableRight(Sure)' /\ NotRedundant(Judged)'
  BY <1>3, <1>9
<1>11. DOMAIN has' \subseteq ClearedKeys(m)'
  BY <1>2, <1>3, <1>4 DEF TableInv
<1>12. DOMAIN has' \subseteq ClearedKeys(Sure)'
  BY <1>3, <1>11
<1>13. \A h \in hop' .. K, v \in Vertices : begin'[<<h, v>>] = 0 /\ end'[<<h, v>>] = 0
  <2> SUFFICES ASSUME NEW h \in hop + 1 .. K, NEW v \in Vertices
               PROVE  begin'[<<h, v>>] = 0 /\ end'[<<h, v>>] = 0
    BY <1>1
  <2>1. h \in hop .. K /\ h \in 0 .. K /\ h # hop
    BY <1>2
  <2> QED BY <1>2, <1>5, <2>1 DEF TableInv
<1> QED BY <1>2, <1>5, <1>10, <1>12, <1>13 DEF TableInv

LEMMA TableFinish ==
  ASSUME GpuTypes, BufferInv, TableInv, FinishGroup
  PROVE  TableInv'
<1>1. /\ pc \in {"expand", "finish"} /\ pc' = "idle" /\ lastPos' = lastPos + lastSize - 1
      /\ has' = [x \in DOMAIN has \ ClearedKeys(lastPos') |-> has[x]]
      /\ UNCHANGED <<begin, end>>
  BY Zenon DEF FinishGroup
<1>2. InGroup /\ ~InGroup' /\ Sure = lastPos'
  BY <1>1 DEF InGroup, Sure, HeldCount
<1>3. DOMAIN has' = {}
  BY <1>1, <1>2 DEF TableInv
<1> QED BY <1>1, <1>2, <1>3 DEF TableInv

LEMMA TableStart ==
  ASSUME GpuTypes, BufferInv, TableInv, StartGroup
  PROVE  TableInv'
<1> DEFINE grp == groups[gid]
           self == [i \in 1 .. Len(grp) |-> SelfLabel(grp[i])]
           Row(v) == CHOOSE i \in 1 .. Len(grp) : grp[i] = v
<1>1. /\ pc = "idle" /\ pc' = "expand" /\ hop' = 1
      /\ begin' = [p \in (0 .. K) \X Vertices |->
                     IF p[1] = 0 /\ p[2] \in ToSet(grp) THEN Row(p[2]) ELSE 0]
      /\ end' = [p \in (0 .. K) \X Vertices |->
                     IF p[1] = 0 /\ p[2] \in ToSet(grp) THEN Row(p[2]) + 1 ELSE 0]
      /\ has' = InsertAll(has, ToSet(self), 0 .. K)
      /\ UNCHANGED <<w, groups, gid>>
  BY Zenon DEF StartGroup
<1>2. /\ HeldCount' = Len(grp) /\ GpuTypes'
      /\ \A i \in 1 .. Len(grp) : T'[i] = SelfLabel(grp[i]) /\ grp[i] \in Vertices
      /\ \A i, j \in 1 .. Len(grp) : grp[i] = grp[j] => i = j
  BY StartBuffer
<1>3. /\ ~InGroup /\ InGroup' /\ Sure' = Len(grp) /\ Judged' = Len(grp) /\ DOMAIN has = {}
  BY <1>1, <1>2 DEF InGroup, Sure, Judged, TableInv
<1>4. Len(grp) \in Nat
  <2>1. HeldCount' \in Int /\ HeldCount' >= 0
    BY <1>1, <1>2, <1>3 DEF GpuTypes, HeldCount
  <2> QED BY <1>2, <2>1
<1> SUFFICES ASSUME NEW m \in Nat, m = Len(grp) PROVE TableInv'
  BY <1>4
<1> DEFINE labels == ToSet(self)
<1>5. \A l \in labels : \E i \in 1 .. m : l = SelfLabel(grp[i])
  <2>1. DOMAIN self = 1 .. m
    OBVIOUS
  <2> QED BY <2>1 DEF ToSet
<1>6. \A i \in 1 .. m : SelfLabel(grp[i]) \in labels
  <2>1. DOMAIN self = 1 .. m
    OBVIOUS
  <2> QED BY <2>1 DEF ToSet
<1> HIDE DEF labels, self, Row
<1>7. \A v : /\ SelfLabel(v).to = v /\ SelfLabel(v).hub = v
             /\ SelfLabel(v).hop = 0 /\ SelfLabel(v).dist = 0
  BY DEF SelfLabel
<1>8. \A a, b \in labels : SameKey(a, b) => a = b
  <2> TAKE a, b \in labels
  <2>1. PICK i \in 1 .. m : a = SelfLabel(grp[i])
    BY <1>5
  <2>2. PICK j \in 1 .. m : b = SelfLabel(grp[j])
    BY <1>5
  <2> QED BY <1>7, <2>1, <2>2 DEF SameKey
<1>9. /\ \A l \in labels, k \in 0 .. K :
           <<l.to, l.hub, k>> # <<0, 0, 0>> => HashQuery(<<l.to, l.hub, k>>)' = l.dist
      /\ \A key : key \notin Keys(labels, 0 .. K) => HashQuery(key)' = HashQuery(key)
      /\ DOMAIN has' \subseteq DOMAIN has \cup Keys(labels, 0 .. K)
  <2>1. has' = InsertAll(has, labels, 0 .. K)
    BY <1>1 DEF labels
  <2> QED BY <1>8, <2>1, InsertIs
<1>10. \A i \in 1 .. m : /\ T'[i].to = grp[i] /\ T'[i].hub = grp[i]
                         /\ T'[i].hop = 0 /\ T'[i].dist = 0
  BY <1>2, <1>7
<1>11. TableRight(m)'
  <2>1. ASSUME NEW v \in Vertices, NEW u \in Vertices, NEW k \in 0 .. K - 1,
               <<v, u, k>> # <<0, 0, 0>>
        PROVE  /\ \A i \in 1 .. m : Within(i, v, u, k)' => HashQuery(<<v, u, k>>)' <= T'[i].dist
               /\ \/ HashQuery(<<v, u, k>>)' = Inf
                  \/ \E i \in 1 .. m : Within(i, v, u, k)' /\ HashQuery(<<v, u, k>>)' = T'[i].dist
    <3>0. k \in 0 .. K /\ k >= 0
      BY Sizes
    <3>1. ASSUME NEW i \in 1 .. m, grp[i] = v, v = u
          PROVE  HashQuery(<<v, u, k>>)' = 0 /\ Within(i, v, u, k)'
      <4>1. HashQuery(<<v, u, k>>)' = 0
        <5>1. /\ SelfLabel(grp[i]) \in labels /\ SelfLabel(grp[i]).to = v
              /\ SelfLabel(grp[i]).hub = u /\ SelfLabel(grp[i]).dist = 0
          BY <1>6, <1>7, <3>1
        <5> QED BY <1>9, <2>1, <3>0, <5>1
      <4>2. Within(i, v, u, k)'
        BY <1>10, <3>0, <3>1 DEF Within
      <4> QED BY <4>1, <4>2
    <3>2. \A i \in 1 .. m : Within(i, v, u, k)' => grp[i] = v /\ v = u
      BY <1>10 DEF Within
    <3>3. CASE \E i \in 1 .. m : grp[i] = v /\ v = u
      BY <1>10, <3>1, <3>2, <3>3
    <3>4. CASE ~\E i \in 1 .. m : grp[i] = v /\ v = u
      <4>1. <<v, u, k>> \notin Keys(labels, 0 .. K)
        <5> SUFFICES ASSUME <<v, u, k>> \in Keys(labels, 0 .. K) PROVE FALSE
          OBVIOUS
        <5>1. PICK l \in labels, h \in 0 .. K : <<v, u, k>> = <<l.to, l.hub, h>>
          BY DEF Keys
        <5>2. PICK i \in 1 .. m : l = SelfLabel(grp[i])
          BY <1>5
        <5> QED BY <1>7, <3>4, <5>1, <5>2
      <4>2. HashQuery(<<v, u, k>>)' = HashQuery(<<v, u, k>>)
        BY <1>9, <4>1, Zenon
      <4>3. HashQuery(<<v, u, k>>) = Inf
        BY <1>3 DEF HashQuery
      <4> QED BY <3>2, <3>4, <4>2, <4>3
    <3> QED BY <3>3, <3>4
  <2> QED BY <2>1 DEF TableRight
<1>12. NotRedundant(m)'
  <2> SUFFICES ASSUME NEW i \in 1 .. m, NEW j \in 1 .. m, NEW k \in 1 .. m, Answered(i, j, k)'
               PROVE  FALSE
    BY DEF NotRedundant
  <2>1. i # j /\ T'[j].to = T'[i].to
    BY DEF Answered
  <2> QED BY <1>2, <1>10, <2>1
<1>13. DOMAIN has' \subseteq ClearedKeys(m)'
  <2> SUFFICES ASSUME NEW key \in Keys(labels, 0 .. K) PROVE key \in ClearedKeys(m)'
    BY <1>3, <1>9
  <2>1. PICK l \in labels, k \in 0 .. K : key = <<l.to, l.hub, k>>
    BY DEF Keys
  <2>2. PICK i \in 1 .. m : l = SelfLabel(grp[i])
    BY <1>5
  <2>3. T'[i] = l /\ T'[i].hop = 0
    BY <1>2, <1>10, <2>2
  <2>4. key \in Keys({T'[i]}, T'[i].hop .. K)
    BY <2>1, <2>3 DEF Keys
  <2> QED BY <2>4 DEF ClearedKeys
<1>14. \A h \in hop' .. K, v \in Vertices : begin'[<<h, v>>] = 0 /\ end'[<<h, v>>] = 0
  <2> TAKE h \in hop' .. K, v \in Vertices
  <2>1. h \in 0 .. K /\ h # 0
    BY <1>1, Sizes
  <2> QED BY <1>1, <2>1
<1>15. DOMAIN begin' = (0 .. K) \X Vertices /\ DOMAIN end' = (0 .. K) \X Vertices
  BY <1>1
<1>16. TableRight(Sure)' /\ NotRedundant(Judged)' /\ DOMAIN has' \subseteq ClearedKeys(Sure)'
  BY <1>3, <1>11, <1>12, <1>13
<1> QED BY <1>3, <1>14, <1>15, <1>16 DEF TableInv

LEMMA TableAlone ==
  ASSUME TableInv, UNCHANGED <<has, begin, end>>,
         \/ ~InGroup /\ ~InGroup'
         \/ UNCHANGED <<pc, hop, T, lastPos, lastSize>>
  PROVE  TableInv'
<1>1. CASE ~InGroup /\ ~InGroup'
  BY <1>1 DEF TableInv
<1>2. CASE UNCHANGED <<pc, hop, T, lastPos, lastSize>>
  BY <1>2 DEF TableInv, InGroup, Sure, Judged, HeldCount, ExactUpTo, Recorded, TableRight,
              Within, HashQuery, NotRedundant, Answered, ClearedKeys, Keys
<1> QED BY <1>1, <1>2

LEMMA TableInit == Init => TableInv
  BY DEF Init, TableInv, InGroup

LEMMA TableNext ==
  GpuTypes /\ BufferInv /\ TableInv /\ [Next]_vars => TableInv'
<1> SUFFICES ASSUME GpuTypes, BufferInv, TableInv, [Next]_vars PROVE TableInv'
  OBVIOUS
<1>1. CASE StartGroup
  BY <1>1, TableStart
<1>2. CASE Expand
  BY <1>2, TableExpand
<1>3. CASE Prune
  BY <1>3, TablePrune
<1>4. CASE UpdateHash
  BY <1>4, TableUpdate
<1>5. CASE FinishGroup
  BY <1>5, TableFinish
<1>6. CASE Collect
  <2>1. UNCHANGED <<has, begin, end>> /\ pc = "idle" /\ pc' = "done"
    BY <1>6, Zenon DEF Collect
  <2>2. ~InGroup /\ ~InGroup'
    BY <2>1 DEF InGroup
  <2> QED BY <2>1, <2>2, TableAlone
<1>7. CASE UNCHANGED vars
  BY <1>7, TableAlone DEF vars
<1> QED BY <1>1, <1>2, <1>3, <1>4, <1>5, <1>6, <1>7 DEF Next, Done

LEMMA TableAlways == Spec => [](GpuTypes /\ BufferInv /\ TableInv)
<1>1. Init => GpuTypes /\ BufferInv /\ TableInv
  BY BufferInit, TableInit
<1>2. (GpuTypes /\ BufferInv /\ TableInv) /\ [Next]_vars => (GpuTypes /\ BufferInv /\ TableInv)'
  BY BufferNext, TableNext
<1> QED BY <1>1, <1>2, PTL DEF Spec

(* Between hops everything held is recorded.                               *)
LEMMA SettledTable ==
  ASSUME GpuTypes, BufferInv, TableInv, Settled, OffsetsExact
  PROVE  TableRight(HeldCount) /\ NotRedundant(HeldCount)
<1>1. /\ InGroup /\ Sure = HeldCount /\ Judged = HeldCount
      /\ HeldCount = lastPos + lastSize - 1
  BY DEF Settled, InGroup, Sure, Judged, HeldCount
<1>2. ExactUpTo(HeldCount)
  BY <1>1 DEF OffsetsExact, ExactUpTo, Recorded
<1> QED BY <1>1, <1>2 DEF TableInv

(* While the offsets are right, the table holds for every vertex, hub and  *)
(* hop bound the least distance of the labels within the bound: although   *)
(* gen_hash_insert overwrites without a test, a label that survives the    *)
(* pruning is cheaper than every label of its key and fewer hops.          *)
THEOREM AlwaysPrefixMin == Spec => []HasIsPrefixMin
<1>1. GpuTypes /\ BufferInv /\ TableInv => HasIsPrefixMin
  <2> SUFFICES ASSUME GpuTypes, BufferInv, TableInv, Settled, OffsetsExact,
                      NEW v \in Vertices, NEW m \in Vertices, NEW k \in 0 .. K - 1,
                      <<v, m, k>> # <<0, 0, 0>>
               PROVE  HashQuery(<<v, m, k>>)
                        = Min({Inf} \cup {l.dist : l \in {x \in Held : /\ x.to = v /\ x.hub = m
                                                                       /\ x.hop <= k}})
    BY Zenon DEF HasIsPrefixMin
  <2> DEFINE q == HashQuery(<<v, m, k>>)
             within == {l.dist : l \in {x \in Held : x.to = v /\ x.hub = m /\ x.hop <= k}}
  <2>1. /\ \A i \in 1 .. HeldCount : Within(i, v, m, k) => q <= T[i].dist
        /\ \/ q = Inf
           \/ \E i \in 1 .. HeldCount : Within(i, v, m, k) /\ q = T[i].dist
    BY SettledTable DEF TableRight
  <2> HIDE DEF q
  <2>2. \A i \in 1 .. HeldCount : T[i].dist \in Nat /\ T[i].dist < Inf
    <3> SUFFICES ASSUME NEW i \in 1 .. HeldCount PROVE T[i].dist \in Nat /\ T[i].dist < Inf
      OBVIOUS
    <3>1. Shape(T[i])
      BY WalkShape DEF BufferInv, GpuTypes
    <3> QED BY <3>1 DEF Shape
  <2>3. \A d \in within : \E i \in 1 .. HeldCount : Within(i, v, m, k) /\ d = T[i].dist
    BY DEF Held, Within
  <2>4. \A i \in 1 .. HeldCount : Within(i, v, m, k) => T[i].dist \in within
    <3> TAKE i \in 1 .. HeldCount
    <3>1. Within(i, v, m, k) => T[i] \in {x \in Held : x.to = v /\ x.hub = m /\ x.hop <= k}
      BY DEF Held, Within
    <3> QED BY <3>1
  <2>5. {Inf} \cup within \subseteq Nat /\ {Inf} \cup within # {}
    BY <2>2, <2>3, Sizes
  <2>6. q \in {Inf} \cup within
    BY <2>1, <2>4
  <2>7. \A d \in {Inf} \cup within : q <= d
    BY <2>1, <2>2, <2>3, Sizes
  <2>8. Min({Inf} \cup within) \in {Inf} \cup within
        /\ \A d \in {Inf} \cup within : Min({Inf} \cup within) <= d
    BY <2>5, MinNatural
  <2>9. q = Min({Inf} \cup within)
    <3> DEFINE least == Min({Inf} \cup within)
    <3>1. least <= q /\ q <= least /\ least \in Int /\ q \in Int
      BY <2>5, <2>6, <2>7, <2>8
    <3> HIDE DEF least
    <3>2. q = least
      BY <3>1
    <3> QED BY <3>2 DEF least
  <2> QED BY <2>9 DEF q
<1> QED BY <1>1, TableAlways, PTL

(* With the offsets right, the labels of a group are minimal at every hop  *)
(* boundary: none is answered by other labels within its hops.             *)
THEOREM AlwaysMinimal == Spec => []GroupMinimal
<1>1. GpuTypes /\ BufferInv /\ TableInv => GroupMinimal
  <2> DEFINE held == [v \in Vertices |-> {l \in Held : l.to = v}]
  <2> SUFFICES ASSUME GpuTypes, BufferInv, TableInv, Settled, OffsetsExact,
                      NEW v \in Vertices, NEW l \in held[v], Redundant(held, v, l)
               PROVE  FALSE
    BY DEF GroupMinimal, Minimal
  <2>1. \A u \in Vertices : \A x \in held[u] : x \in Held /\ x.to = u
    OBVIOUS
  <2>2. l \in Held /\ l.to = v
    BY <2>1
  <2>3. PICK i \in 1 .. HeldCount : l = T[i]
    BY <2>2 DEF Held
  <2>4. l.hub \in Vertices
    <3>1. Shape(T[i])
      BY WalkShape DEF BufferInv, GpuTypes
    <3> QED BY <2>3, <3>1 DEF Shape
  <2>5. PICK a \in held[v] \ {l}, b \in held[l.hub] :
          a.hub = b.hub /\ a.hop + b.hop <= l.hop /\ a.dist + b.dist <= l.dist
    <3> HIDE DEF held
    <3> QED BY DEF Redundant
  <2>6. a \in Held /\ a.to = v /\ a # l /\ b \in Held /\ b.to = l.hub
    BY <2>1, <2>4, <2>5
  <2>7. PICK j \in 1 .. HeldCount : a = T[j]
    BY <2>6 DEF Held
  <2>8. PICK k \in 1 .. HeldCount : b = T[k]
    BY <2>6 DEF Held
  <2>9. Answered(i, j, k)
    BY <2>2, <2>3, <2>5, <2>6, <2>7, <2>8 DEF Answered
  <2> QED BY <2>9, SettledTable DEF NotRedundant
<1> QED BY <1>1, TableAlways, PTL
----------------------------------------------------------------------------
(***************************************************************************)
(* The cover.  Runs that miss labels only leave redundant labels and       *)
(* raised table entries behind: as long as no run takes in a foreign label *)
(* every answer the pruning finds is a walk, so it never drops a canonical *)
(* label.                                                                  *)
(***************************************************************************)
OwnUpTo(n) ==
  \A h \in 1 .. K - 1, v \in Vertices :
    begin[<<h, v>>] .. end[<<h, v>>] - 1 \subseteq Recorded(n, h, v)

(* What the table answers is the distance of a label.                      *)
TableSound(n) ==
  \A v, m \in Vertices, k \in 0 .. K - 1 :
    <<v, m, k>> # <<0, 0, 0>> =>
      \/ HashQuery(<<v, m, k>>) = Inf
      \/ \E i \in 1 .. n : Within(i, v, m, k) /\ HashQuery(<<v, m, k>>) = T[i].dist

IsCanonical(m, v, h) == Canonical(HopDist(w), m, v, h)
LabelOf(l, m, v, h) ==
  l.hub = m /\ l.to = v /\ l.hop = h /\ l.dist = HopDist(w)[h][<<m, v>>]

HubsKept(n, c) ==
  \A m \in ToSet(groups[gid]), v \in Vertices, h \in 0 .. K :
    h <= c /\ IsCanonical(m, v, h) => \E i \in 1 .. n : LabelOf(T[i], m, v, h)

CoverInv ==
  InGroup => /\ TableSound(Sure)
             /\ OwnUpTo(Sure) => HubsKept(HeldCount, Current)

LEMMA GroupInside ==
  ASSUME GpuTypes, InGroup
  PROVE  ToSet(groups[gid]) \subseteq Vertices
<1>1. groups \in Seq(Seq(Vertices)) /\ gid \in DOMAIN groups
  BY GroupAssumption DEF GpuTypes
<1>2. groups[gid] \in Seq(Vertices)
  BY <1>1
<1> QED BY <1>2 DEF ToSet

(* A label costs at least the distance within its hops.                    *)
LEMMA LabelSound ==
  ASSUME w \in Graphs, NEW l, IsWalk(l)
  PROVE  /\ Shape(l) /\ HopDist(w)[l.hop][<<l.hub, l.to>>] \in Nat
         /\ HopDist(w)[l.hop][<<l.hub, l.to>>] <= l.dist
<1>1. Shape(l)
  BY WalkShape
<1>2. /\ Undirected(w) /\ l.hub \in Vertices /\ l.to \in Vertices /\ l.hop \in 0 .. K
      /\ l.dist \in WalkLengths(w, l.hub)[l.hop][l.to]
  BY <1>1, GraphIs DEF IsWalk, Shape
<1>3. HopDist(w)[l.hop][<<l.hub, l.to>>] <= l.dist
  BY <1>2, WalkSound
<1>4. HopDist(w)[l.hop][<<l.hub, l.to>>] \in Nat
  BY <1>2, DistSteps
<1> QED BY <1>1, <1>3, <1>4

LEMMA SoundFrame ==
  ASSUME NEW n \in Nat, UNCHANGED <<has, begin, end>>, \A i \in 1 .. n : T'[i] = T[i]
  PROVE  /\ OwnUpTo(n)' => OwnUpTo(n)
         /\ TableSound(n) => TableSound(n)'
<1>1. OwnUpTo(n)' => OwnUpTo(n)
  <2>1. \A h \in 1 .. K - 1, v \in Vertices : Recorded(n, h, v)' = Recorded(n, h, v)
    BY DEF Recorded
  <2> QED BY <2>1 DEF OwnUpTo
<1>2. TableSound(n) => TableSound(n)'
  <2>1. \A key : HashQuery(key)' = HashQuery(key)
    BY DEF HashQuery
  <2>2. \A v, m \in Vertices, k \in 0 .. K - 1 : \A i \in 1 .. n : Within(i, v, m, k)' <=> Within(i, v, m, k)
    BY DEF Within
  <2> QED BY <2>1, <2>2 DEF TableSound
<1> QED BY <1>1, <1>2

LEMMA KeptFrame ==
  ASSUME UNCHANGED <<w, groups, gid>>, NEW n \in Nat, NEW c, HubsKept(n, c),
         NEW m \in Nat, \A i \in 1 .. n : \E j \in 1 .. m : T'[j] = T[i]
  PROVE  HubsKept(m, c)'
<1> SUFFICES ASSUME NEW u \in ToSet(groups[gid]), NEW v \in Vertices, NEW h \in 0 .. K,
                    h <= c, IsCanonical(u, v, h)
             PROVE  \E j \in 1 .. m : LabelOf(T[j], u, v, h)'
  <2>1. \A u, v, h : IsCanonical(u, v, h)' <=> IsCanonical(u, v, h)
    BY DEF IsCanonical
  <2> QED BY <2>1 DEF HubsKept
<1>1. PICK i \in 1 .. n : LabelOf(T[i], u, v, h)
  BY DEF HubsKept
<1>2. PICK j \in 1 .. m : T'[j] = T[i]
  OBVIOUS
<1>3. LabelOf(T[j], u, v, h)'
  BY <1>1, <1>2 DEF LabelOf
<1> QED BY <1>3

(* An answer costs at least the distance of what it answers.               *)
LEMMA AnswerSound ==
  ASSUME GpuTypes, BufferInv, InGroup, NEW n \in Nat, n <= HeldCount, TableSound(n),
         NEW v \in Vertices, NEW m \in Vertices, NEW k \in 1 .. K - 1,
         HashQuery(<<v, m, k>>) # Inf
  PROVE  /\ HashQuery(<<v, m, k>>) \in Nat /\ m <= v
         /\ HopDist(w)[k][<<m, v>>] <= HashQuery(<<v, m, k>>)
<1>1. w \in Graphs /\ Undirected(w) /\ k \in 0 .. K /\ k \in 0 .. K - 1
  BY GraphIs, Sizes DEF GpuTypes
<1>2. <<v, m, k>> # <<0, 0, 0>>
  OBVIOUS
<1>3. PICK i \in 1 .. n : Within(i, v, m, k) /\ HashQuery(<<v, m, k>>) = T[i].dist
  BY <1>1, <1>2 DEF TableSound
<1> DEFINE l == T[i]
<1>4. IsWalk(l)
  <2>1. HeldCount \in Nat
    BY DEF GpuTypes, InGroup, HeldCount
  <2>2. i \in 1 .. HeldCount
    BY <2>1
  <2> QED BY <2>2 DEF BufferInv
<1>5. l.to = v /\ l.hub = m /\ l.hop <= k /\ HashQuery(<<v, m, k>>) = l.dist
  BY <1>3 DEF Within
<1> HIDE DEF l
<1>6. /\ Shape(l) /\ HopDist(w)[l.hop][<<m, v>>] \in Nat
      /\ HopDist(w)[l.hop][<<m, v>>] <= l.dist
  BY <1>1, <1>4, <1>5, LabelSound
<1>7. l.hop \in 0 .. K /\ l.dist \in Nat /\ m <= v
  BY <1>5, <1>6 DEF Shape
<1>8. HopDist(w)[k][<<m, v>>] <= HopDist(w)[l.hop][<<m, v>>]
  BY <1>1, <1>5, <1>7, DistMonotone
<1>9. HopDist(w)[k][<<m, v>>] \in Nat
  BY <1>1, DistSteps
<1> QED BY <1>5, <1>6, <1>7, <1>8, <1>9

LEMMA CanonicalStays ==
  ASSUME GpuTypes, BufferInv, pc = "prune", NEW n \in Nat, lastPos = n + 1,
         TableSound(n), OwnUpTo(n), NEW x \in lastPos .. Top,
         NEW m \in Vertices, NEW v \in Vertices, NEW h \in 0 .. K,
         IsCanonical(m, v, h), LabelOf(T[x], m, v, h)
  PROVE  ~Pruned(T[x])
<1>1. /\ w \in Graphs /\ Undirected(w) /\ InGroup /\ HeldCount = Top /\ hop \in 1 .. K
      /\ Top = n + lastSize /\ lastSize \in Nat /\ Top \in Nat
  BY GraphIs, Sizes DEF GpuTypes, InGroup, HeldCount, Top
<1>2. /\ T[x].to = v /\ T[x].hub = m /\ T[x].hop = h /\ T[x].dist = HopDist(w)[h][<<m, v>>]
  BY DEF LabelOf
<1>3. h = hop
  <2>1. x \in 1 .. HeldCount /\ ~(x < lastPos)
    BY <1>1
  <2>2. T[x].hop = Current
    BY <1>1, <2>1 DEF BufferInv
  <2> QED BY <1>2, <2>2 DEF Current
<1> DEFINE d == HopDist(w)[h][<<m, v>>]
<1>4. d \in Nat /\ d < Inf /\ K \in Nat
  BY <1>1, DistSteps, Sizes DEF IsCanonical, Canonical
<1> SUFFICES ASSUME NEW i \in 1 .. h - 1,
                    NEW j \in begin[<<i, v>>] .. end[<<i, v>>] - 1,
                    At(T, j).dist + HashQuery(<<m, At(T, j).hub, h - i>>) <= d
             PROVE  FALSE
  BY <1>2 DEF Pruned
<1>5. i \in 1 .. K - 1 /\ i \in 0 .. K /\ i \in 0 .. h /\ h - i \in 1 .. K - 1 /\ h - i \in 0 .. K
      /\ h - i \in 0 .. h
  BY <1>1, <1>3, <1>4
<1>6. j \in 1 .. n /\ T[j].to = v /\ T[j].hop = i
  BY <1>5 DEF OwnUpTo, Recorded
<1>7. IsWalk(T[j]) /\ At(T, j) = T[j]
  <2>1. j \in 1 .. HeldCount
    BY <1>1, <1>6
  <2> QED BY <2>1 DEF BufferInv, At
<1> DEFINE c == T[j].hub
           q == HashQuery(<<m, c, h - i>>)
<1>8. c \in Vertices /\ T[j].dist \in Nat /\ c \in Int /\ m \in Int
      /\ HopDist(w)[i][<<c, v>>] \in Nat /\ HopDist(w)[i][<<c, v>>] <= T[j].dist
  <2>1. m \in Int
    BY Sizes DEF Vertices
  <2> QED BY <1>1, <1>6, <1>7, <2>1, LabelSound DEF Shape
<1>9. T[j].dist + q <= d
  BY <1>7
<1> HIDE DEF c, d
<1>10. q # Inf
  <2> HIDE DEF q
  <2> QED BY <1>4, <1>8, <1>9, Sizes
<1>11. q \in Nat /\ c <= m /\ HopDist(w)[h - i][<<c, m>>] <= q
  <2>1. n <= HeldCount
    BY <1>1
  <2> QED BY <1>1, <1>5, <1>8, <1>10, <2>1, AnswerSound DEF c
<1>12. HopDist(w)[h - i][<<c, m>>] = HopDist(w)[h - i][<<m, c>>]
  BY <1>1, <1>5, <1>8, DistSymmetric
<1>13. HopDist(w)[h - i][<<m, c>>] \in Nat
  BY <1>1, <1>5, <1>8, DistSteps
<1>14. CASE c < m
  <2>1. c \in 0 .. m - 1 /\ h - (h - i) = i
    BY <1>3, <1>5, <1>8, <1>14 DEF Vertices
  <2>2. HopDist(w)[h - i][<<m, c>>] + HopDist(w)[h - (h - i)][<<c, v>>] > d
    BY <1>5, <2>1 DEF IsCanonical, Canonical, d
  <2>3. HopDist(w)[h - i][<<m, c>>] + HopDist(w)[i][<<c, v>>] > d
    BY <2>1, <2>2
  <2> HIDE DEF q
  <2> QED BY <1>4, <1>8, <1>9, <1>11, <1>12, <1>13, <2>3
<1>15. CASE c = m
  <2>1. HopDist(w)[h][<<m, v>>] < HopDist(w)[h - 1][<<m, v>>]
    BY <1>3, <1>1 DEF IsCanonical, Canonical
  <2>2. h - 1 \in 0 .. K /\ i <= h - 1
    BY <1>1, <1>3, <1>4
  <2>3. HopDist(w)[h - 1][<<m, v>>] <= HopDist(w)[i][<<m, v>>]
    BY <1>1, <1>5, <2>2, DistMonotone
  <2>4. HopDist(w)[h - 1][<<m, v>>] \in Nat
    BY <1>1, <2>2, DistSteps
  <2>5. d < T[j].dist
    BY <1>4, <1>8, <1>15, <2>1, <2>3, <2>4 DEF d
  <2> HIDE DEF q
  <2> QED BY <1>4, <1>8, <1>9, <1>11, <2>5
<1> QED BY <1>8, <1>11, <1>14, <1>15

LEMMA CoverExpand ==
  ASSUME GpuTypes, BufferInv, CoverInv, Expand
  PROVE  CoverInv'
<1>1. /\ pc = "expand" /\ pc' \in {"prune", "finish"} /\ hop <= K
      /\ lastPos' = lastPos + lastSize
      /\ UNCHANGED <<w, groups, has, begin, end, hop, gid>>
      /\ pc' = "finish" => lastSize' = 0
  <2>1. \A out : out = {} => Cardinality(out) = 0
    BY FS_EmptySet
  <2> QED BY <2>1 DEF Expand
<1>2. /\ lastPos \in Nat /\ lastPos > 0 /\ lastSize \in Nat /\ Top \in Nat /\ InGroup
      /\ HeldCount = Top /\ Current = hop - 1 /\ hop \in 1 .. K /\ w \in Graphs /\ Undirected(w)
      /\ Sure = Top
  BY <1>1, GraphIs, Sizes DEF GpuTypes, InGroup, Top, HeldCount, Current, Sure
<1> SUFFICES ASSUME NEW n \in Nat, n = Top PROVE CoverInv'
  BY <1>2
<1>3. /\ GpuTypes' /\ BufferInv' /\ \A i \in 1 .. n : T'[i] = T[i]
      /\ n <= HeldCount'
  BY ExpandBuffer
<1>4. PICK out \in Selections(Candidates) : \A x \in out : \E i \in 1 .. HeldCount' : T'[i] = x
  BY ExpandBuffer
<1>5. InGroup' /\ Sure' = n /\ Current' = hop /\ HeldCount' \in Nat
  <2>1. InGroup' /\ Current' = hop
    BY <1>1 DEF InGroup, Current
  <2>2. lastPos' = n + 1 /\ HeldCount' = lastPos' + lastSize' - 1
    BY <1>1, <1>2 DEF HeldCount, Top
  <2>3. lastSize' \in Nat
    BY <1>3, <2>1 DEF GpuTypes
  <2>4. Sure' = n
    <3>1. CASE pc' = "prune"
      BY <2>2, <3>1 DEF Sure
    <3>2. CASE pc' = "finish"
      <4>1. Sure' = HeldCount' /\ lastSize' = 0
        BY <1>1, <3>2 DEF Sure
      <4>2. HeldCount' = n
        BY ONLY <2>2, <2>3, <4>1
      <4> QED BY <4>1, <4>2
    <3> QED BY <1>1, <3>1, <3>2
  <2>5. HeldCount' = n + lastSize'
    BY <2>2, <2>3
  <2>6. \A a, b \in Nat : a + b \in Nat
    OBVIOUS
  <2>7. HeldCount' \in Nat
    BY <2>3, <2>5, <2>6, Zenon
  <2> QED BY <2>1, <2>4, <2>7
<1>6. /\ OwnUpTo(n)' => OwnUpTo(n)
      /\ TableSound(n) => TableSound(n)'
  BY <1>1, <1>3, SoundFrame
<1>7. ASSUME NEW m \in Nat, m = HeldCount', OwnUpTo(n)' PROVE HubsKept(m, hop)'
  <2>1. HubsKept(n, hop - 1)
    BY <1>2, <1>6, <1>7 DEF CoverInv
  <2> SUFFICES ASSUME NEW u \in ToSet(groups[gid]), NEW v \in Vertices, NEW h \in 0 .. K,
                      h <= hop, IsCanonical(u, v, h)
               PROVE  \E j \in 1 .. m : LabelOf(T[j], u, v, h)'
    <3>1. \A u, v, h : IsCanonical(u, v, h)' <=> IsCanonical(u, v, h)
      BY <1>1 DEF IsCanonical
    <3> QED BY <1>1, <3>1 DEF HubsKept
  <2>2. \A l : LabelOf(l, u, v, h) => l.hub = u /\ l.to = v /\ l.hop = h
                                      /\ l.dist = HopDist(w)[h][<<u, v>>]
    BY DEF LabelOf
  <2>3. CASE h <= hop - 1
    <3>1. PICK i \in 1 .. n : LabelOf(T[i], u, v, h)
      BY <2>1, <2>3 DEF HubsKept
    <3>2. i \in 1 .. m /\ T'[i] = T[i]
      BY <1>3, <1>7
    <3>3. LabelOf(T[i], u, v, h)'
      BY <1>1, <3>1, <3>2 DEF LabelOf
    <3> QED BY <3>2, <3>3
  <2>4. CASE h = hop
    <3>1. u \in Vertices /\ h \in 1 .. K /\ h - 1 \in 0 .. K /\ h - 1 <= hop - 1
      BY <1>2, <2>4, GroupInside, Sizes
    <3>2. PICK y \in Nbrs(w, v) : /\ IsCanonical(u, y, h - 1) /\ u < v
                                  /\ HopDist(w)[h][<<u, v>>]
                                       = HopDist(w)[h - 1][<<u, y>>] + w[<<y, v>>]
      BY <1>2, <3>1, CanonicalContinues DEF IsCanonical
    <3>3. y \in Vertices /\ v \in Nbrs(w, y) /\ w[<<y, v>>] = w[<<v, y>>]
      BY <1>2 DEF Nbrs, Undirected
    <3>4. PICK i \in 1 .. n : LabelOf(T[i], u, y, h - 1)
      BY <2>1, <3>1, <3>2, <3>3 DEF HubsKept
    <3>5. /\ T[i].hub = u /\ T[i].to = y /\ T[i].hop = hop - 1
          /\ T[i].dist = HopDist(w)[h - 1][<<u, y>>]
      BY <2>4, <3>4 DEF LabelOf
    <3>6. i \in lastPos .. lastPos + lastSize - 1
      <4>1. ~(i < lastPos)
        <5> SUFFICES ASSUME i < lastPos PROVE FALSE
          OBVIOUS
        <5>1. T[i].hop < hop - 1
          BY <1>2 DEF BufferInv
        <5> QED BY <1>2, <3>5, <5>1
      <4> QED BY <1>2, <4>1 DEF Top
    <3> DEFINE c == [to |-> v, par |-> y, hub |-> u, hop |-> hop,
                     dist |-> HopDist(w)[h - 1][<<u, y>>] + w[<<y, v>>]]
    <3>7. c \in Candidates
      <4>1. v \in Spreads(T[i])
        BY <3>2, <3>3, <3>5 DEF Spreads
      <4>2. c \in {[to |-> x, par |-> T[i].to, hub |-> T[i].hub, hop |-> hop,
                    dist |-> T[i].dist + w[<<T[i].to, x>>]] : x \in Spreads(T[i])}
        BY <3>5, <4>1
      <4> HIDE DEF c
      <4> QED BY <3>6, <4>2 DEF Candidates
    <3>8. c.to = v /\ c.hub = u /\ c.dist = HopDist(w)[h][<<u, v>>]
      BY <3>2
    <3> HIDE DEF c
    <3>9. Candidates \subseteq Labels /\ \A e \in Candidates : IsWalk(e) /\ e.hop = hop
      BY <1>1, CandidateIs
    <3>10. PICK e \in out : SameKey(c, e) /\ e.dist <= c.dist
      BY <3>7, <3>9, SelectionIs
    <3>11. e \in Candidates
      BY <3>9, SelectionIs
    <3>12. e.to = v /\ e.hub = u /\ e.hop = h
      BY <2>4, <3>8, <3>9, <3>10, <3>11 DEF SameKey
    <3>13. HopDist(w)[h][<<u, v>>] <= e.dist /\ e.dist \in Nat /\ HopDist(w)[h][<<u, v>>] \in Nat
      BY <1>2, <3>9, <3>11, <3>12, LabelSound DEF Shape
    <3>14. e.dist = HopDist(w)[h][<<u, v>>]
      BY <3>8, <3>10, <3>13
    <3>15. PICK j \in 1 .. m : T'[j] = e
      BY <1>4, <1>7
    <3>16. LabelOf(T[j], u, v, h)'
      BY <1>1, <3>12, <3>14, <3>15 DEF LabelOf
    <3> QED BY <3>16
  <2> QED BY <1>2, <2>3, <2>4
<1>8. TableSound(n)' /\ (OwnUpTo(n)' => HubsKept(HeldCount, hop)')
  BY <1>2, <1>5, <1>6, <1>7 DEF CoverInv
<1>9. TableSound(Sure)' /\ (OwnUpTo(Sure)' => HubsKept(HeldCount, Current)')
  BY <1>1, <1>5, <1>8
<1> QED BY <1>9 DEF CoverInv

LEMMA CoverPrune ==
  ASSUME GpuTypes, BufferInv, CoverInv, Prune
  PROVE  CoverInv'
<1>1. /\ pc = "prune" /\ pc' = "update"
      /\ UNCHANGED <<w, groups, lastPos, has, begin, end, hop, gid>>
  BY Zenon DEF Prune
<1>2. lastPos \in Nat /\ lastPos > 0 /\ lastSize \in Nat /\ hop \in 1 .. K
  BY <1>1 DEF GpuTypes, InGroup
<1> SUFFICES ASSUME NEW n \in Nat, lastPos = n + 1 PROVE CoverInv'
  <2>1. lastPos - 1 \in Nat /\ lastPos = (lastPos - 1) + 1
    BY <1>2
  <2> QED BY <2>1
<1>3. /\ GpuTypes' /\ \A i \in 1 .. n : T'[i] = T[i]
      /\ \A x \in lastPos .. Top : ~Pruned(T[x]) => \E i \in lastPos .. Top' : T'[i] = T[x]
  <2>1. lastPos - 1 = n
    BY <1>2
  <2> QED BY <2>1, PruneBuffer
<1>4. /\ InGroup /\ Sure = n /\ Current = hop /\ HeldCount = Top
      /\ InGroup' /\ Sure' = n /\ Current' = hop /\ HeldCount' = Top'
  BY <1>1, <1>2 DEF InGroup, Sure, Current, HeldCount, Top
<1>5. Top \in Nat /\ Top' \in Nat /\ n <= Top'
  <2>1. lastSize' \in Nat /\ lastPos' = n + 1 /\ lastPos = n + 1
    BY <1>1, <1>3 DEF GpuTypes
  <2>2. Top = n + lastSize /\ Top' = n + lastSize'
    BY <1>2, <2>1 DEF Top
  <2>3. \A a, b \in Nat : a + b \in Nat /\ a <= a + b
    OBVIOUS
  <2> QED BY <1>2, <2>1, <2>2, <2>3, Zenon
<1>6. /\ OwnUpTo(n)' => OwnUpTo(n)
      /\ TableSound(n) => TableSound(n)'
  BY <1>1, <1>3, SoundFrame
<1>7. TableSound(n)
  BY <1>4 DEF CoverInv
<1>8. ASSUME NEW m \in Nat, m = Top', OwnUpTo(n)' PROVE HubsKept(m, hop)'
  <2>1. HubsKept(Top, hop)
    BY <1>4, <1>6, <1>8 DEF CoverInv
  <2> SUFFICES ASSUME NEW u \in ToSet(groups[gid]), NEW v \in Vertices, NEW h \in 0 .. K,
                      h <= hop, IsCanonical(u, v, h)
               PROVE  \E j \in 1 .. m : LabelOf(T[j], u, v, h)'
    <3>1. \A u, v, h : IsCanonical(u, v, h)' <=> IsCanonical(u, v, h)
      BY <1>1 DEF IsCanonical
    <3> QED BY <1>1, <3>1 DEF HubsKept
  <2>2. PICK i \in 1 .. Top : LabelOf(T[i], u, v, h)
    BY <2>1 DEF HubsKept
  <2>3. \E j \in 1 .. m : T'[j] = T[i]
    <3>1. CASE i <= n
      BY <1>3, <1>5, <1>8, <3>1
    <3>2. CASE ~(i <= n)
      <4>1. i \in lastPos .. Top
        BY <3>2
      <4>2. u \in Vertices
        BY <1>4, GroupInside
      <4>3. ~Pruned(T[i])
        BY <1>1, <1>6, <1>7, <1>8, <2>2, <4>1, <4>2, CanonicalStays
      <4>4. PICK j \in lastPos .. Top' : T'[j] = T[i]
        BY <1>3, <4>1, <4>3
      <4>5. j \in 1 .. m
        BY <1>2, <1>8
      <4> QED BY <4>4, <4>5
    <3> QED BY <3>1, <3>2
  <2>4. PICK j \in 1 .. m : T'[j] = T[i]
    BY <2>3
  <2>5. LabelOf(T[j], u, v, h)'
    BY <1>1, <2>2, <2>4 DEF LabelOf
  <2> QED BY <2>5
<1>9. TableSound(n)' /\ (OwnUpTo(n)' => HubsKept(Top, hop)')
  BY <1>5, <1>6, <1>7, <1>8
<1>10. TableSound(Sure)' /\ (OwnUpTo(Sure)' => HubsKept(HeldCount, Current)')
  BY <1>1, <1>4, <1>9
<1> QED BY <1>10 DEF CoverInv

LEMMA CoverUpdate ==
  ASSUME GpuTypes, BufferInv, TableInv, CoverInv, UpdateHash
  PROVE  CoverInv'
<1>1. /\ pc = "update" /\ pc' = "expand" /\ hop' = hop + 1
      /\ UNCHANGED <<w, groups, gid, T, lastPos, lastSize>>
      /\ has' = InsertAll(has, {T[i] : i \in lastPos .. Top}, hop .. K - 1)
  BY Zenon DEF UpdateHash, Top
<1>2. /\ lastPos \in Nat /\ lastPos > 0 /\ lastSize \in Nat /\ hop \in 1 .. K /\ hop \in Int
      /\ InGroup /\ InGroup' /\ Top \in Nat /\ HeldCount = Top
  BY <1>1, Sizes DEF GpuTypes, InGroup, Top, HeldCount
<1> SUFFICES ASSUME NEW n \in Nat, lastPos = n + 1, NEW m \in Nat, m = Top,
                    NEW c \in Nat, c = hop
             PROVE  CoverInv'
  <2>1. lastPos - 1 \in Nat /\ lastPos = (lastPos - 1) + 1
    BY <1>2
  <2> QED BY <1>2, <2>1
<1>3. /\ Sure = n /\ HeldCount = m /\ Current = hop
      /\ HeldCount' = m /\ Sure' = m /\ Current' = c
  <2>1. Sure = lastPos - 1 /\ Current = hop
    BY <1>1, <1>2 DEF Sure, Current
  <2>2. HeldCount' = Top
    BY <1>1 DEF HeldCount, Top
  <2>3. Sure' = HeldCount' /\ Current' = hop' - 1
    BY <1>1 DEF Sure, Current
  <2> QED BY <1>1, <1>2, <2>1, <2>2, <2>3
<1>4. /\ \A h \in 0 .. K, v \in Vertices :
           h # hop => begin'[<<h, v>>] = begin[<<h, v>>] /\ end'[<<h, v>>] = end[<<h, v>>]
  BY UpdateOffsets
<1>5. \A i \in 1 .. m : IF i <= n THEN T[i].hop < hop ELSE T[i].hop = hop
  <2> TAKE i \in 1 .. m
  <2>1. IF i < lastPos THEN T[i].hop < hop ELSE T[i].hop = hop
    BY <1>2, <1>3 DEF BufferInv
  <2> QED BY <2>1
<1>6. n <= m
  BY <1>2 DEF Top
<1>7. ASSUME OwnUpTo(m)' PROVE OwnUpTo(n)
  <2> SUFFICES ASSUME NEW h \in 1 .. K - 1, NEW v \in Vertices
               PROVE  begin[<<h, v>>] .. end[<<h, v>>] - 1 \subseteq Recorded(n, h, v)
    BY DEF OwnUpTo
  <2>1. h \in 0 .. K /\ h \in Int
    BY Sizes
  <2>2. CASE h < hop
    <3>1. begin[<<h, v>>] .. end[<<h, v>>] - 1 \subseteq Recorded(m, h, v)'
      BY <1>2, <1>4, <1>7, <2>1, <2>2 DEF OwnUpTo
    <3>2. Recorded(m, h, v)' \subseteq Recorded(n, h, v)
      <4>1. \A i \in 1 .. m : T[i].hop = h => i \in 1 .. n
        BY <1>2, <1>5, <2>1, <2>2
      <4> QED BY <1>1, <4>1 DEF Recorded
    <3> QED BY <3>1, <3>2
  <2>3. CASE ~(h < hop)
    <3>1. h \in hop .. K
      BY <1>2, <2>1, <2>3, Sizes
    <3>2. begin[<<h, v>>] = 0 /\ end[<<h, v>>] = 0
      BY <1>2, <3>1 DEF TableInv
    <3> QED BY <3>2
  <2> QED BY <2>2, <2>3
<1> DEFINE labels == {T[i] : i \in n + 1 .. m}
           hops == hop .. K - 1
<1>8. \A i \in n + 1 .. m : i \in 1 .. m /\ T[i].hop = hop
  BY <1>5
<1>9. \A a, b \in labels : SameKey(a, b) => a = b
  <2> SUFFICES ASSUME NEW i \in n + 1 .. m, NEW j \in n + 1 .. m, SameKey(T[i], T[j])
               PROVE  i = j
    OBVIOUS
  <2>1. SameSpot(T[i], T[j])
    BY <1>8 DEF SameKey, SameSpot
  <2> QED BY <1>3, <1>8, <2>1 DEF BufferInv
<1>10. /\ \A l \in labels, k \in hops :
            <<l.to, l.hub, k>> # <<0, 0, 0>> => HashQuery(<<l.to, l.hub, k>>)' = l.dist
       /\ \A key : key \notin Keys(labels, hops) => HashQuery(key)' = HashQuery(key)
  <2>1. has' = InsertAll(has, labels, hops)
    BY <1>1
  <2> HIDE DEF labels, hops
  <2> QED BY <1>9, <2>1, InsertIs
<1>11. TableSound(m)'
  <2> SUFFICES ASSUME NEW v \in Vertices, NEW u \in Vertices, NEW k \in 0 .. K - 1,
                      <<v, u, k>> # <<0, 0, 0>>
               PROVE  \/ HashQuery(<<v, u, k>>)' = Inf
                      \/ \E i \in 1 .. m : Within(i, v, u, k) /\ HashQuery(<<v, u, k>>)' = T[i].dist
    <3>1. T' = T /\ \A i, v, u, k : Within(i, v, u, k)' <=> Within(i, v, u, k)
      BY <1>1 DEF Within
    <3> QED BY <3>1 DEF TableSound
  <2>1. CASE <<v, u, k>> \in Keys(labels, hops)
    <3>1. PICK l \in labels, h \in hops : <<v, u, k>> = <<l.to, l.hub, h>>
      BY <2>1 DEF Keys
    <3>2. PICK i \in n + 1 .. m : l = T[i]
      OBVIOUS
    <3>3. T[i].to = v /\ T[i].hub = u /\ k = h /\ hop <= k
      BY <1>2, <3>1, <3>2
    <3>4. HashQuery(<<v, u, k>>)' = T[i].dist
      <4> HIDE DEF labels, hops
      <4> QED BY <1>10, <3>1, <3>2, <3>3
    <3>5. i \in 1 .. m /\ Within(i, v, u, k)
      BY <1>8, <3>3 DEF Within
    <3> QED BY <3>4, <3>5
  <2>2. CASE <<v, u, k>> \notin Keys(labels, hops)
    <3>1. HashQuery(<<v, u, k>>)' = HashQuery(<<v, u, k>>)
      BY <1>10, <2>2, Zenon
    <3>2. TableSound(n)
      BY <1>2, <1>3 DEF CoverInv
    <3>3. \A i \in 1 .. n : i \in 1 .. m
      BY <1>6
    <3> QED BY <3>1, <3>2, <3>3 DEF TableSound
  <2> QED BY <2>1, <2>2
<1>12. ASSUME OwnUpTo(m)' PROVE HubsKept(m, c)'
  <2>1. HubsKept(m, c)
    BY <1>2, <1>3, <1>7, <1>12 DEF CoverInv
  <2>2. UNCHANGED <<w, groups, gid>> /\ \A i \in 1 .. m : \E j \in 1 .. m : T'[j] = T[i]
    BY <1>1
  <2> QED BY <1>2, <2>1, <2>2, KeptFrame
<1>13. TableSound(Sure)' /\ (OwnUpTo(Sure)' => HubsKept(HeldCount, Current)')
  BY <1>1, <1>3, <1>11, <1>12
<1> QED BY <1>13 DEF CoverInv

LEMMA CoverStart ==
  ASSUME GpuTypes, BufferInv, TableInv, StartGroup
  PROVE  CoverInv'
<1> DEFINE grp == groups[gid]
<1>1. /\ pc = "idle" /\ pc' = "expand" /\ hop' = 1 /\ gid \in DOMAIN groups
      /\ UNCHANGED <<w, groups, gid>>
  <2>1. /\ pc = "idle" /\ gid <= Len(groups) /\ pc' = "expand" /\ hop' = 1
        /\ UNCHANGED <<w, groups, gid>>
    BY Zenon DEF StartGroup
  <2>2. gid \in Nat \ {0} /\ groups \in Seq(Seq(Vertices))
    BY GroupAssumption DEF GpuTypes
  <2> QED BY <2>1, <2>2
<1>2. /\ HeldCount' = Len(grp) /\ GpuTypes' /\ w \in Graphs /\ Undirected(w)
      /\ \A i \in 1 .. Len(grp) : T'[i] = SelfLabel(grp[i]) /\ grp[i] \in Vertices
  BY StartBuffer, GraphIs DEF GpuTypes
<1>3. Len(grp) \in Nat /\ grp \in Seq(Vertices)
  <2>1. groups \in Seq(Seq(Vertices))
    BY GroupAssumption DEF GpuTypes
  <2>2. grp \in Seq(Vertices)
    BY <1>1, <2>1
  <2> QED BY <2>2
<1> SUFFICES ASSUME NEW m \in Nat, m = Len(grp) PROVE CoverInv'
  BY <1>3
<1>4. InGroup' /\ Sure' = m /\ HeldCount' = m /\ Current' = 0
  BY <1>1, <1>2 DEF InGroup, Sure, Current
<1>5. \A i \in 1 .. m : /\ T'[i].to = grp[i] /\ T'[i].hub = grp[i]
                        /\ T'[i].hop = 0 /\ T'[i].dist = 0
  <2>1. \A v : /\ SelfLabel(v).to = v /\ SelfLabel(v).hub = v
               /\ SelfLabel(v).hop = 0 /\ SelfLabel(v).dist = 0
    BY DEF SelfLabel
  <2>2. \A i \in 1 .. m : T'[i] = SelfLabel(grp[i])
    BY <1>2
  <2> QED BY <2>1, <2>2
<1>6. ExactUpTo(m)'
  <2>1. \A h \in 1 .. K - 1, v \in Vertices :
          begin'[<<h, v>>] .. end'[<<h, v>>] - 1 = {} /\ Recorded(m, h, v)' = {}
    <3> TAKE h \in 1 .. K - 1, v \in Vertices
    <3>1. h \in hop' .. K /\ h # 0
      BY <1>1, Sizes
    <3>2. begin'[<<h, v>>] = 0 /\ end'[<<h, v>>] = 0
      BY <1>4, <3>1, TableStart DEF TableInv
    <3>3. Recorded(m, h, v)' = {}
      BY <1>5, <3>1 DEF Recorded
    <3> QED BY <3>2, <3>3
  <2> QED BY <2>1 DEF ExactUpTo
<1>7. TableSound(m)'
  <2>1. ExactUpTo(Sure)' => TableRight(Sure)'
    BY <1>4, TableStart DEF TableInv
  <2>2. TableRight(m)'
    BY <1>4, <1>6, <2>1
  <2> QED BY <2>2 DEF TableRight, TableSound
<1>8. HubsKept(m, 0)'
  <2> SUFFICES ASSUME NEW u \in ToSet(grp), NEW v \in Vertices, NEW h \in 0 .. K,
                      h <= 0, IsCanonical(u, v, h)
               PROVE  \E j \in 1 .. m : LabelOf(T[j], u, v, h)'
    <3>1. \A u, v, h : IsCanonical(u, v, h)' <=> IsCanonical(u, v, h)
      BY <1>1 DEF IsCanonical
    <3> QED BY <1>1, <3>1 DEF HubsKept
  <2>1. PICK j \in 1 .. m : u = grp[j]
    BY <1>3 DEF ToSet
  <2>2. h = 0 /\ u \in Vertices
    BY <1>2, <2>1
  <2>3. u = v /\ HopDist(w)[0][<<u, v>>] = 0
    BY <1>2, <2>2, CanonicalAtZero DEF IsCanonical
  <2>4. LabelOf(T[j], u, v, h)'
    BY <1>1, <1>5, <2>1, <2>2, <2>3 DEF LabelOf
  <2> QED BY <2>4
<1>9. TableSound(Sure)' /\ (OwnUpTo(Sure)' => HubsKept(HeldCount, Current)')
  BY <1>4, <1>7, <1>8
<1> QED BY <1>9 DEF CoverInv

LEMMA CoverInit == Init => CoverInv
  BY DEF Init, CoverInv, InGroup

LEMMA CoverNext ==
  GpuTypes /\ BufferInv /\ TableInv /\ CoverInv /\ [Next]_vars => CoverInv'
<1> SUFFICES ASSUME GpuTypes, BufferInv, TableInv, CoverInv, [Next]_vars PROVE CoverInv'
  OBVIOUS
<1>1. CASE StartGroup
  BY <1>1, CoverStart
<1>2. CASE Expand
  BY <1>2, CoverExpand
<1>3. CASE Prune
  BY <1>3, CoverPrune
<1>4. CASE UpdateHash
  BY <1>4, CoverUpdate
<1>5. CASE FinishGroup \/ Collect
  <2>1. pc' \in {"idle", "done"}
    BY <1>5, Zenon DEF FinishGroup, Collect
  <2> QED BY <2>1 DEF CoverInv, InGroup
<1>6. CASE UNCHANGED vars
  BY <1>6 DEF vars, CoverInv, InGroup, Sure, HeldCount, Current, OwnUpTo, Recorded, TableSound,
              Within, HashQuery, HubsKept, IsCanonical, LabelOf
<1> QED BY <1>1, <1>2, <1>3, <1>4, <1>5, <1>6 DEF Next, Done
----------------------------------------------------------------------------
(***************************************************************************)
(* What is offloaded: the labels of the finished groups, and of the one at *)
(* work those that are pruned.                                             *)
(***************************************************************************)
Stored(n) == \A i \in 1 .. n : totL + i \in DOMAIN L /\ L[totL + i] = T[i]
Whole(n) == \A j \in 1 .. n : j \in DOMAIN L /\ IsWalk(L[j])
HostInv == Whole(totL) /\ (InGroup => Stored(Judged))

OffloadedOf(m) ==
  \A v \in Vertices, h \in 0 .. K :
    IsCanonical(m, v, h) => \E j \in 1 .. totL : LabelOf(L[j], m, v, h)
OffloadInv ==
  /\ HostInv
  /\ own => \A g \in DOMAIN groups : g < gid => \A m \in ToSet(groups[g]) : OffloadedOf(m)

(* No step takes an offloaded label back.                                  *)
HostStays == totL <= totL' /\ \A j \in 1 .. totL : L'[j] = L[j]

(* At the end of a group all its canonical labels are there, of every hop. *)
LEMMA GroupComplete ==
  ASSUME GpuTypes, BufferInv, CoverInv, FinishGroup, OffsetsOwn
  PROVE  HubsKept(HeldCount, K)
<1>1. pc = "finish" \/ (pc = "expand" /\ (hop > K \/ lastSize = 0))
  BY Zenon DEF FinishGroup
<1>2. /\ InGroup /\ Sure = HeldCount /\ HeldCount = lastPos + lastSize - 1
      /\ w \in Graphs /\ Undirected(w) /\ lastPos \in Nat /\ lastPos > 0 /\ lastSize \in Nat
      /\ hop \in 1 .. K + 1 /\ K \in Nat
  BY <1>1, GraphIs, Sizes DEF InGroup, Sure, HeldCount, GpuTypes
<1>3. OwnUpTo(HeldCount)
  BY <1>2 DEF OffsetsOwn, OwnUpTo, Recorded
<1>4. HubsKept(HeldCount, Current)
  BY <1>2, <1>3 DEF CoverInv
<1>5. CASE pc = "expand" /\ hop > K
  <2>1. Current = K
    BY <1>2, <1>5 DEF Current
  <2> QED BY <1>4, <2>1
<1>6. CASE lastSize = 0
  <2>1. Current \in Nat
    BY <1>2 DEF Current
  <2>2. \A i \in 1 .. HeldCount : T[i].hop < Current /\ T[i].hop \in Int
    <3> TAKE i \in 1 .. HeldCount
    <3>1. i < lastPos
      BY <1>2, <1>6
    <3>2. IsWalk(T[i]) /\ T[i].hop < Current
      BY <1>2, <3>1 DEF BufferInv
    <3>3. T[i].hop \in Int
      BY <3>2, Sizes DEF IsWalk, Labels
    <3> QED BY <3>2, <3>3
  <2> SUFFICES ASSUME NEW m \in ToSet(groups[gid]), NEW v \in Vertices, NEW h \in 0 .. K,
                      IsCanonical(m, v, h)
               PROVE  \E i \in 1 .. HeldCount : LabelOf(T[i], m, v, h)
    BY DEF HubsKept
  <2>3. h <= Current
    <3> SUFFICES ASSUME ~(h <= Current) PROVE FALSE
      OBVIOUS
    <3>1. Current \in 0 .. K /\ h \in Current .. K /\ m \in Vertices
      BY <1>2, <2>1, GroupInside
    <3>2. PICK y \in Vertices : IsCanonical(m, y, Current)
      BY <1>2, <3>1, CanonicalStops DEF IsCanonical
    <3>3. PICK i \in 1 .. HeldCount : LabelOf(T[i], m, y, Current)
      BY <1>4, <2>1, <3>1, <3>2 DEF HubsKept
    <3>4. T[i].hop = Current
      BY <3>3 DEF LabelOf
    <3> QED BY <2>1, <2>2, <3>4
  <2> QED BY <1>4, <2>3 DEF HubsKept
<1>7. pc = "finish" => lastSize = 0
  BY DEF GpuTypes, InGroup
<1> QED BY <1>1, <1>5, <1>6, <1>7

(* The places behind the labels of the finished groups.                    *)
LEMMA Behind ==
  ASSUME NEW t \in Nat, NEW m \in Nat
  PROVE  /\ \A i \in 1 .. m : t + i \in t + 1 .. t + 1 + m - 1
         /\ \A j \in Int : j <= t => j \notin t + 1 .. t + 1 + m - 1
  OBVIOUS

LEMMA Places ==
  ASSUME NEW t \in Nat, NEW n \in Nat, NEW c \in Nat
  PROVE  /\ \A i \in n + 1 .. n + c : /\ i \in n + 1 .. n + 1 + c - 1 /\ i - (n + 1) + 1 = i - n
                                      /\ t + i \in t + (n + 1) .. t + (n + 1) + c - 1
                                      /\ (t + i) - (t + (n + 1)) + 1 = i - n
         /\ \A j \in Int : j <= t + n => j \notin t + (n + 1) .. t + (n + 1) + c - 1
  OBVIOUS

(* What is offloaded stays, if only places behind it are written.          *)
LEMMA WholeStays ==
  ASSUME HostInv, UNCHANGED <<w, totL>>, NEW t \in Nat, t = totL,
         \A j \in DOMAIN L : j <= t /\ j \in Int => j \in DOMAIN L' /\ L'[j] = L[j]
  PROVE  Whole(totL)' /\ HostStays
<1>1. totL' = t
  OBVIOUS
<1>2. \A j \in 1 .. t : j \in DOMAIN L /\ j \in DOMAIN L' /\ L'[j] = L[j] /\ IsWalk(L[j])
  BY DEF HostInv, Whole
<1>3. Whole(t)'
  BY <1>2 DEF Whole, IsWalk
<1>4. HostStays
  BY <1>1, <1>2 DEF HostStays
<1> QED BY <1>1, <1>3, <1>4

LEMMA HostStart ==
  ASSUME GpuTypes, BufferInv, HostInv, StartGroup
  PROVE  HostInv' /\ HostStays
<1> DEFINE grp == groups[gid]
           self == [i \in 1 .. Len(grp) |-> SelfLabel(grp[i])]
<1>1. /\ pc' = "expand" /\ L' = Put(L, totL + 1, self) /\ UNCHANGED <<w, groups, gid, totL, own>>
  BY Zenon DEF StartGroup
<1>2. /\ HeldCount' = Len(grp) /\ GpuTypes'
      /\ \A i \in 1 .. Len(grp) : T'[i] = SelfLabel(grp[i])
  BY StartBuffer
<1>3. Judged' = Len(grp) /\ Len(grp) \in Nat /\ totL \in Nat
  <2>1. groups \in Seq(Seq(Vertices)) /\ gid \in DOMAIN groups
    <3>1. gid <= Len(groups)
      BY DEF StartGroup
    <3> QED BY <3>1, GroupAssumption DEF GpuTypes
  <2>2. grp \in Seq(Vertices)
    BY <2>1
  <2> QED BY <1>1, <1>2, <2>2 DEF Judged, GpuTypes
<1> SUFFICES ASSUME NEW t \in Nat, t = totL, NEW m \in Nat, m = Len(grp) PROVE HostInv' /\ HostStays
  BY <1>3
<1>4. totL' = t /\ Judged' = m
  BY <1>1, <1>3
<1>5. /\ \A i \in 1 .. m : t + i \in DOMAIN L' /\ L'[t + i] = T'[i]
      /\ \A j \in DOMAIN L : j <= t /\ j \in Int => j \in DOMAIN L' /\ L'[j] = L[j]
  <2>1. Len(self) = m /\ \A i \in 1 .. m : self[(t + i) - (t + 1) + 1] = T'[i]
    <3>1. \A i \in 1 .. m : (t + i) - (t + 1) + 1 = i
      OBVIOUS
    <3>2. \A i \in 1 .. m : self[i] = T'[i]
      BY <1>2
    <3>3. DOMAIN self = 1 .. m
      OBVIOUS
    <3> HIDE DEF self
    <3>4. Len(self) = m
      BY <3>3
    <3> QED BY <3>1, <3>2, <3>4
  <2>2. L' = Put(L, t + 1, self)
    BY <1>1
  <2> HIDE DEF self
  <2>3. \A i \in 1 .. m : t + i \in t + 1 .. t + 1 + m - 1
    BY Behind
  <2>4. \A j \in Int : j <= t => j \notin t + 1 .. t + 1 + m - 1
    BY Behind
  <2>5. L' = [i \in DOMAIN L \cup (t + 1 .. t + 1 + m - 1) |->
                IF i \in t + 1 .. t + 1 + m - 1 THEN self[i - (t + 1) + 1] ELSE L[i]]
    BY ONLY <2>1, <2>2 DEF Put
  <2>6. \A i \in 1 .. m : t + i \in DOMAIN L' /\ L'[t + i] = self[(t + i) - (t + 1) + 1]
    BY ONLY <2>3, <2>5
  <2>7. \A j \in DOMAIN L : j <= t /\ j \in Int => j \in DOMAIN L' /\ L'[j] = L[j]
    BY ONLY <2>4, <2>5
  <2> QED BY <2>1, <2>6, <2>7
<1>6. Stored(m)'
  BY <1>4, <1>5 DEF Stored
<1>7. Whole(totL)' /\ HostStays
  BY <1>1, <1>5, WholeStays
<1>8. Stored(Judged)'
  BY <1>4, <1>6
<1> QED BY <1>7, <1>8 DEF HostInv

LEMMA HostPrune ==
  ASSUME GpuTypes, BufferInv, HostInv, Prune
  PROVE  HostInv' /\ HostStays
<1> DEFINE kept == Select(T, {i \in lastPos .. Top : ~Pruned(T[i])})
<1>1. /\ pc = "prune" /\ pc' = "update" /\ lastSize' = Len(kept)
      /\ T' = Put(T, lastPos, kept) /\ L' = Put(L, totL + lastPos, kept)
      /\ UNCHANGED <<w, groups, gid, lastPos, totL, own>>
  BY Zenon DEF Prune, Top
<1>2. lastPos \in Nat /\ lastPos > 0 /\ totL \in Nat /\ InGroup
  BY <1>1 DEF GpuTypes, InGroup
<1>3. lastSize' \in Nat /\ \A i \in 1 .. lastPos - 1 : T'[i] = T[i]
  BY PruneBuffer DEF GpuTypes
<1> HIDE DEF kept
<1> SUFFICES ASSUME NEW t \in Nat, t = totL, NEW n \in Nat, lastPos = n + 1,
                    NEW c \in Nat, c = Len(kept)
             PROVE  HostInv' /\ HostStays
  <2>1. lastPos - 1 \in Nat /\ lastPos = (lastPos - 1) + 1 /\ Len(kept) \in Nat
    BY <1>1, <1>2, <1>3
  <2> QED BY <1>2, <2>1
<1>4. Judged = n /\ totL' = t
  BY <1>1 DEF Judged
<1>5. Judged' = n + c
  <2>1. Judged' = lastPos' + lastSize' - 1 /\ lastPos' = n + 1 /\ lastSize' = c
    BY <1>1 DEF Judged, HeldCount
  <2> QED BY <2>1
<1>6. T' = Put(T, n + 1, kept) /\ L' = Put(L, t + (n + 1), kept)
  BY <1>1
<1>7. \A i \in n + 1 .. n + c : T'[i] = kept[i - n]
  <2>1. T' = [i \in DOMAIN T \cup (n + 1 .. n + 1 + c - 1) |->
                IF i \in n + 1 .. n + 1 + c - 1 THEN kept[i - (n + 1) + 1] ELSE T[i]]
    BY <1>6 DEF Put
  <2>2. \A i \in n + 1 .. n + c : i \in n + 1 .. n + 1 + c - 1 /\ i - (n + 1) + 1 = i - n
    BY Places
  <2> QED BY ONLY <2>1, <2>2
<1>8. /\ \A i \in n + 1 .. n + c : t + i \in DOMAIN L' /\ L'[t + i] = kept[i - n]
      /\ \A j \in DOMAIN L : j <= t + n /\ j \in Int => j \in DOMAIN L' /\ L'[j] = L[j]
  <2>1. L' = [i \in DOMAIN L \cup (t + (n + 1) .. t + (n + 1) + c - 1) |->
                IF i \in t + (n + 1) .. t + (n + 1) + c - 1
                THEN kept[i - (t + (n + 1)) + 1] ELSE L[i]]
    BY <1>6 DEF Put
  <2>2. /\ \A i \in n + 1 .. n + c : /\ t + i \in t + (n + 1) .. t + (n + 1) + c - 1
                                     /\ (t + i) - (t + (n + 1)) + 1 = i - n
        /\ \A j \in Int : j <= t + n => j \notin t + (n + 1) .. t + (n + 1) + c - 1
    BY Places
  <2> QED BY ONLY <2>1, <2>2
<1>9. Whole(totL)' /\ HostStays
  <2>1. \A j \in DOMAIN L : j <= t /\ j \in Int => j \in DOMAIN L' /\ L'[j] = L[j]
    <3>1. \A j \in Int : j <= t => j <= t + n
      OBVIOUS
    <3> QED BY <1>8, <3>1
  <2> QED BY <1>1, <2>1, WholeStays
<1>10. Stored(n + c)'
  <2> SUFFICES ASSUME NEW i \in 1 .. n + c PROVE t + i \in DOMAIN L' /\ L'[t + i] = T'[i]
    BY <1>4 DEF Stored
  <2>1. CASE i \in 1 .. n
    <3>1. t + i \in DOMAIN L /\ L[t + i] = T[i]
      BY <1>2, <1>4, <2>1 DEF HostInv, Stored
    <3>2. t + i \in Int /\ t + i <= t + n
      BY <2>1
    <3>3. T'[i] = T[i]
      BY <1>3, <2>1
    <3> QED BY <1>8, <3>1, <3>2, <3>3
  <2>2. CASE i \in n + 1 .. n + c
    BY <1>7, <1>8, <2>2
  <2>3. i \in 1 .. n \/ i \in n + 1 .. n + c
    OBVIOUS
  <2> QED BY <2>1, <2>2, <2>3
<1>11. Stored(Judged)'
  BY <1>5, <1>10
<1> QED BY <1>9, <1>11 DEF HostInv

(* The launches between leave the host buffer alone.                       *)
LEMMA HostAlone ==
  ASSUME GpuTypes, BufferInv, HostInv, Expand \/ UpdateHash
  PROVE  HostInv' /\ HostStays
<1>1. /\ InGroup /\ pc # "prune" /\ UNCHANGED <<w, groups, gid, totL, own, L>>
  BY DEF Expand, UpdateHash, InGroup
<1>2. lastPos \in Nat /\ lastPos > 0 /\ lastSize \in Nat /\ totL \in Nat /\ Top \in Nat
  BY <1>1 DEF GpuTypes, Top
<1> SUFFICES ASSUME NEW t \in Nat, t = totL, NEW n \in Nat, n = Top PROVE HostInv' /\ HostStays
  BY <1>2
<1>3. Judged = n
  BY <1>1 DEF Judged, HeldCount, InGroup, Top
<1>4. Judged' = n /\ \A i \in 1 .. n : T'[i] = T[i]
  <2>1. CASE Expand
    <3>1. pc' \in {"prune", "finish"} /\ lastPos' = lastPos + lastSize
          /\ (pc' = "finish" => lastSize' = 0)
      <4>1. \A out : out = {} => Cardinality(out) = 0
        BY FS_EmptySet
      <4> QED BY <2>1, <4>1 DEF Expand
    <3>2. lastPos' = n + 1
      BY <1>2, <3>1 DEF Top
    <3>3. CASE pc' = "prune"
      BY <2>1, <3>2, <3>3, ExpandBuffer DEF Judged
    <3>4. CASE pc' = "finish"
      <4>1. Judged' = lastPos' + lastSize' - 1 /\ lastSize' = 0
        BY <3>1, <3>4 DEF Judged, HeldCount
      <4> QED BY <2>1, <3>2, <4>1, ExpandBuffer
    <3> QED BY <3>1, <3>3, <3>4
  <2>2. CASE UpdateHash
    <3>1. pc' = "expand" /\ UNCHANGED <<T, lastPos, lastSize>>
      BY <2>2, Zenon DEF UpdateHash
    <3>2. Judged' = lastPos + lastSize - 1
      BY <3>1 DEF Judged, HeldCount
    <3> QED BY <3>1, <3>2 DEF Top
  <2> QED BY <2>1, <2>2
<1>5. Whole(totL)' /\ HostStays
  BY <1>1, WholeStays
<1>6. Stored(n)'
  BY <1>1, <1>3, <1>4 DEF HostInv, Stored
<1>7. Stored(Judged)'
  BY <1>4, <1>6
<1> QED BY <1>5, <1>7 DEF HostInv

LEMMA HostFinish ==
  ASSUME GpuTypes, BufferInv, HostInv, FinishGroup
  PROVE  HostInv' /\ HostStays
<1>1. /\ pc \in {"expand", "finish"} /\ pc' = "idle" /\ lastPos' = lastPos + lastSize - 1
      /\ totL' = totL + lastPos' /\ UNCHANGED <<w, groups, T, L>>
  BY Zenon DEF FinishGroup
<1>2. /\ InGroup /\ HeldCount = Top /\ Judged = Top /\ Top \in Nat /\ totL \in Nat /\ lastPos' = Top
      /\ ~InGroup'
  BY <1>1 DEF GpuTypes, InGroup, HeldCount, Judged, Top
<1> SUFFICES ASSUME NEW t \in Nat, t = totL, NEW n \in Nat, n = Top
             PROVE  HostInv' /\ HostStays
  BY <1>2
<1>3. totL' = t + n
  BY <1>1, <1>2
<1>4. \A i \in 1 .. n : L[t + i] = T[i] /\ t + i \in DOMAIN L /\ IsWalk(T[i])
  <2>1. Stored(n)
    BY <1>2 DEF HostInv
  <2>2. \A i \in 1 .. n : IsWalk(T[i])
    BY <1>2 DEF BufferInv
  <2> QED BY <2>1, <2>2 DEF Stored
<1>5. \A j \in 1 .. t + n : j \in 1 .. t \/ \E i \in 1 .. n : j = t + i
  <2> TAKE j \in 1 .. t + n
  <2>1. j > t => j - t \in 1 .. n /\ j = t + (j - t)
    OBVIOUS
  <2> QED BY <2>1
<1>6. \A j \in 1 .. t + n : j \in DOMAIN L /\ IsWalk(L[j])
  <2> TAKE j \in 1 .. t + n
  <2>1. CASE j \in 1 .. t
    BY <2>1 DEF HostInv, Whole
  <2>2. CASE \E i \in 1 .. n : j = t + i
    <3>1. PICK i \in 1 .. n : j = t + i
      BY <2>2
    <3>2. L[j] = T[i] /\ j \in DOMAIN L /\ IsWalk(T[i])
      BY <1>4, <3>1
    <3> QED BY <3>2
  <2> QED BY <1>5, <2>1, <2>2
<1>7. Whole(t + n)'
  BY <1>1, <1>6 DEF Whole, IsWalk
<1>8. Whole(totL)'
  BY <1>3, <1>7
<1>9. HostStays
  BY <1>1, <1>3 DEF HostStays
<1> QED BY <1>2, <1>8, <1>9 DEF HostInv

(* With offsets that took in no foreign label the group's canonical labels *)
(* are there.                                                              *)
LEMMA GroupOffloaded ==
  ASSUME GpuTypes, BufferInv, CoverInv, HostInv, FinishGroup, OffsetsOwn
  PROVE  \A m \in ToSet(groups[gid]) : OffloadedOf(m)'
<1>1. /\ pc \in {"expand", "finish"} /\ lastPos' = lastPos + lastSize - 1
      /\ totL' = totL + lastPos' /\ UNCHANGED <<w, L>>
  BY Zenon DEF FinishGroup
<1>2. /\ InGroup /\ HeldCount = Top /\ Judged = Top /\ Top \in Nat /\ totL \in Nat /\ lastPos' = Top
  BY <1>1 DEF GpuTypes, InGroup, HeldCount, Judged, Top
<1> SUFFICES ASSUME NEW t \in Nat, t = totL, NEW n \in Nat, n = Top,
                    NEW u \in ToSet(groups[gid]), NEW v \in Vertices, NEW h \in 0 .. K,
                    IsCanonical(u, v, h)
             PROVE  \E j \in 1 .. t + n : LabelOf(L[j], u, v, h)
  <2>1. \A u, v, h : IsCanonical(u, v, h)' <=> IsCanonical(u, v, h)
    BY <1>1 DEF IsCanonical
  <2>2. \A l, u, v, h : LabelOf(l, u, v, h)' <=> LabelOf(l, u, v, h)
    BY <1>1 DEF LabelOf
  <2> QED BY <1>1, <1>2, <2>1, <2>2 DEF OffloadedOf
<1>3. HubsKept(HeldCount, K) /\ h <= K
  BY GroupComplete, Sizes
<1>4. PICK i \in 1 .. n : LabelOf(T[i], u, v, h)
  BY <1>2, <1>3 DEF HubsKept
<1>5. t + i \in 1 .. t + n
  OBVIOUS
<1>6. L[t + i] = T[i]
  BY <1>2 DEF HostInv, Stored
<1> QED BY <1>4, <1>5, <1>6

LEMMA OffloadStays ==
  ASSUME UNCHANGED w, totL \in Nat, totL' \in Nat, HostStays, NEW m, OffloadedOf(m)
  PROVE  OffloadedOf(m)'
<1> SUFFICES ASSUME NEW t \in Nat, t = totL, NEW n \in Nat, n = totL',
                    NEW v \in Vertices, NEW h \in 0 .. K, IsCanonical(m, v, h)
             PROVE  \E j \in 1 .. n : LabelOf(L'[j], m, v, h)
  <2>1. \A u, v, h : IsCanonical(u, v, h)' <=> IsCanonical(u, v, h)
    BY DEF IsCanonical
  <2>2. \A l, u, v, h : LabelOf(l, u, v, h)' <=> LabelOf(l, u, v, h)
    BY DEF LabelOf
  <2> QED BY <2>1, <2>2 DEF OffloadedOf
<1>1. PICK j \in 1 .. t : LabelOf(L[j], m, v, h)
  BY DEF OffloadedOf
<1>2. t <= n /\ L'[j] = L[j]
  BY DEF HostStays
<1>3. j \in 1 .. n
  BY <1>2
<1> QED BY <1>1, <1>2, <1>3

(* Together, for whoever runs the generator among others.                  *)
GpuInv == GpuTypes /\ BufferInv /\ TableInv /\ CoverInv /\ HostInv

LEMMA GpuInit == Init => GpuInv
<1> SUFFICES ASSUME Init PROVE GpuInv
  OBVIOUS
<1>1. totL = 0 /\ ~InGroup
  BY DEF Init, InGroup
<1>2. 1 .. 0 = {}
  OBVIOUS
<1>3. HostInv
  BY <1>1, <1>2 DEF HostInv, Whole
<1> QED BY <1>3, BufferInit, TableInit, CoverInit DEF GpuInv

LEMMA GpuSteps ==
  ASSUME GpuInv, StartGroup \/ Expand \/ Prune \/ UpdateHash \/ FinishGroup
  PROVE  GpuInv' /\ HostStays
<1>1. GpuTypes /\ BufferInv /\ TableInv /\ CoverInv /\ HostInv /\ [Next]_vars
  BY DEF GpuInv, Next
<1>2. GpuTypes' /\ BufferInv' /\ TableInv' /\ CoverInv'
  BY <1>1, BufferNext, TableNext, CoverNext
<1>3. HostInv' /\ HostStays
  BY <1>1, HostStart, HostPrune, HostAlone, HostFinish
<1> QED BY <1>2, <1>3 DEF GpuInv

(* Between two groups the generator does not mind what others do.          *)
LEMMA GpuRests ==
  ASSUME GpuInv, ~InGroup, pc' \in {"idle", "done"}, gid' \in Nat \ {0},
         UNCHANGED <<w, groups, T, lastPos, lastSize, begin, end, has, L, totL>>
  PROVE  GpuInv' /\ HostStays
<1>1. ~InGroup' /\ pc \in {"idle", "done"} /\ totL \in Nat
  BY DEF GpuInv, GpuTypes, InGroup
<1>2. GpuTypes' /\ HeldCount' = HeldCount
  BY <1>1 DEF GpuInv, GpuTypes, HeldCount
<1>3. BufferInv'
  BY <1>1, <1>2, SameBuffer DEF GpuInv
<1>4. TableInv'
  BY <1>1, TableAlone DEF GpuInv
<1>5. CoverInv'
  BY <1>1 DEF CoverInv
<1>6. HostInv' /\ HostStays
  BY <1>1, WholeStays DEF GpuInv, HostInv
<1> QED BY <1>2, <1>3, <1>4, <1>5, <1>6 DEF GpuInv

LEMMA GpuStutters ==
  ASSUME GpuInv, UNCHANGED vars
  PROVE  GpuInv' /\ HostStays
<1>1. (GpuTypes /\ BufferInv /\ TableInv /\ CoverInv)'
  BY BufferNext, TableNext, CoverNext DEF GpuInv
<1>2. HostInv'
  BY DEF vars, GpuInv, HostInv, Whole, Stored, InGroup, Judged, HeldCount, IsWalk
<1>3. HostStays
  BY DEF vars, HostStays, GpuInv, GpuTypes
<1> QED BY <1>1, <1>2, <1>3 DEF GpuInv

LEMMA OffloadInit == Init => OffloadInv
<1> SUFFICES ASSUME Init PROVE OffloadInv
  OBVIOUS
<1>1. gid = 1 /\ groups \in Seq(Seq(Vertices))
  BY GroupAssumption DEF Init
<1>2. \A g \in DOMAIN groups : ~(g < gid)
  BY <1>1
<1> QED BY <1>2, GpuInit DEF OffloadInv, GpuInv

LEMMA OffloadNext ==
  GpuInv /\ OffloadInv /\ [Next]_vars => GpuInv' /\ OffloadInv'
<1> SUFFICES ASSUME GpuInv, OffloadInv, [Next]_vars PROVE GpuInv' /\ OffloadInv'
  OBVIOUS
<1>1. GpuInv' /\ HostStays /\ UNCHANGED <<w, groups>>
  <2>1. CASE StartGroup \/ Expand \/ Prune \/ UpdateHash \/ FinishGroup
    <3>1. UNCHANGED <<w, groups>>
      BY <2>1, Zenon DEF StartGroup, Expand, Prune, UpdateHash, FinishGroup
    <3> QED BY <2>1, <3>1, GpuSteps
  <2>2. CASE Collect
    <3>1. /\ pc = "idle" /\ pc' = "done"
          /\ UNCHANGED <<w, groups, gid, T, lastPos, lastSize, begin, end, has, L, totL>>
      BY <2>2, Zenon DEF Collect
    <3>2. ~InGroup /\ gid' \in Nat \ {0}
      BY <3>1 DEF InGroup, GpuInv, GpuTypes
    <3> QED BY <3>1, <3>2, GpuRests
  <2>3. CASE UNCHANGED vars
    BY <2>3, GpuStutters DEF vars
  <2> QED BY <2>1, <2>2, <2>3 DEF Next, Done
<1>2. totL \in Nat /\ totL' \in Nat /\ groups \in Seq(Seq(Vertices)) /\ gid \in Nat
  BY <1>1, GroupAssumption DEF GpuInv, GpuTypes
<1>3. OffloadInv'
  <2> SUFFICES ASSUME own', NEW g \in DOMAIN groups, g < gid', NEW m \in ToSet(groups[g])
               PROVE  OffloadedOf(m)'
    BY <1>1 DEF OffloadInv, GpuInv
  <2>1. CASE FinishGroup
    <3>1. own' = (own /\ OffsetsOwn) /\ gid' = gid + 1
      BY <2>1, Zenon DEF FinishGroup
    <3>2. g \in Int /\ (g < gid \/ g = gid)
      BY <1>2, <3>1
    <3>3. CASE g = gid
      BY <2>1, <3>1, <3>3, GroupOffloaded DEF GpuInv
    <3>4. CASE g < gid
      BY <1>1, <1>2, <3>1, <3>4, OffloadStays DEF OffloadInv
    <3> QED BY <3>2, <3>3, <3>4
  <2>2. CASE ~FinishGroup
    <3>1. UNCHANGED <<gid, own>>
      BY <2>2, Zenon DEF Next, Done, vars, StartGroup, Expand, Prune, UpdateHash, Collect
    <3> QED BY <1>1, <1>2, <3>1, OffloadStays DEF OffloadInv
  <2> QED BY <2>1, <2>2
<1> QED BY <1>1, <1>3

LEMMA CoverAlways == Spec => [](GpuInv /\ OffloadInv)
<1>1. Init => GpuInv /\ OffloadInv
  BY GpuInit, OffloadInit
<1>2. (GpuInv /\ OffloadInv) /\ [Next]_vars => (GpuInv /\ OffloadInv)'
  BY OffloadNext
<1> QED BY <1>1, <1>2, PTL DEF Spec

(* An offloaded label costs no less than the distance.                     *)
LEMMA HostSound ==
  ASSUME GpuInv, NEW j \in 1 .. totL
  PROVE  SoundLabel(HopDist(w), L[j], L[j].to)
<1>1. w \in Graphs /\ IsWalk(L[j])
  BY DEF GpuInv, GpuTypes, HostInv, Whole
<1> DEFINE l == L[j]
<1>2. Shape(l) /\ HopDist(w)[l.hop][<<l.hub, l.to>>] <= l.dist
  BY <1>1, LabelSound
<1> HIDE DEF l
<1>3. SoundLabel(HopDist(w), l, l.to)
  BY <1>2 DEF SoundLabel, Shape
<1> QED BY <1>3 DEF l

(* Whatever the graph, hop_cst and the groups: unless a run took in labels *)
(* of another vertex, the labels offloaded over all groups answer every    *)
(* query within hop_cst with the distance the checker computes.            *)
THEOREM AlwaysCovered == Spec => []OffloadedCover
<1>1. GpuInv /\ OffloadInv => OffloadedCover
  <2> SUFFICES ASSUME GpuInv, OffloadInv, pc = "idle", gid > Len(groups), own
               PROVE  Covers(Offloaded, w)
    BY DEF OffloadedCover
  <2> DEFINE D == HopDist(w)
             labels == Offloaded
  <2>1. w \in Graphs /\ Undirected(w) /\ totL \in Nat
    BY GraphIs DEF GpuInv, GpuTypes
  <2>2. \A v \in Vertices : labels[v] = {L[j] : j \in {i \in 1 .. totL : L[i].to = v}}
    BY DEF Offloaded
  <2> HIDE DEF labels
  <2>3. ASSUME NEW v \in Vertices, NEW l \in labels[v] PROVE SoundLabel(D, l, v)
    <3>1. PICK j \in 1 .. totL : l = L[j] /\ L[j].to = v
      BY <2>2
    <3> QED BY <3>1, HostSound
  <2>4. ASSUME NEW m \in Vertices, NEW v \in Vertices, NEW h \in 0 .. K, Canonical(D, m, v, h)
        PROVE  HasLabel(labels, m, v, h, D[h][<<m, v>>])
    <3>1. groups \in Seq(Seq(Vertices)) /\ \E g \in DOMAIN groups : m \in ToSet(groups[g])
      BY GroupAssumption DEF GpuInv, GpuTypes
    <3>2. PICK g \in DOMAIN groups : m \in ToSet(groups[g])
      BY <3>1
    <3>3. g < gid
      <4>1. gid \in Int /\ g \in 1 .. Len(groups) /\ Len(groups) \in Nat
        BY <3>1 DEF GpuInv, GpuTypes
      <4> QED BY <4>1
    <3>4. PICK j \in 1 .. totL : LabelOf(L[j], m, v, h)
      BY <2>4, <3>2, <3>3 DEF OffloadInv, OffloadedOf, IsCanonical
    <3>5. L[j] \in labels[v] /\ L[j].hub = m /\ L[j].hop = h /\ L[j].dist = D[h][<<m, v>>]
      BY <2>2, <3>4 DEF LabelOf
    <3> QED BY <3>5 DEF HasLabel
  <2> HIDE DEF D
  <2>5. Covers(labels, w)
    BY <2>1, <2>3, <2>4, CanonicalCovers DEF D
  <2> QED BY <2>5 DEF labels
<1> QED BY <1>1, CoverAlways, PTL
=============================================================================
