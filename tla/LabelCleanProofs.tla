-------------------------- MODULE LabelCleanProofs --------------------------
(***************************************************************************)
(* Theorems about label cleaning for every graph, every label set that     *)
(* rank-pruned generation may leave, every size of the ranges and every    *)
(* choice of executors: a label no index can do without is never answered, *)
(* whatever others drop meanwhile, so every query keeps its answer.        *)
(***************************************************************************)
EXTENDS LabelClean, HopLabelsProofs

(***************************************************************************)
(* 1. The labels generation left.  x is a graph with them.                 *)
(***************************************************************************)
Given(x, v) == x.labels[v]
Needs(x, v) == CanonicalLabels(x.w)[v]
Meet(a, b, l) == a.hub = b.hub /\ a.hop + b.hop <= l.hop /\ a.dist + b.dist <= l.dist

LEMMA GivenIs ==
  ASSUME NEW x \in Indexes
  PROVE  /\ Undirected(x.w)
         /\ \A v \in Vertices :
              /\ IsFiniteSet(Given(x, v)) /\ Given(x, v) \subseteq Label
              /\ \A l \in Given(x, v) : l.dist \in WalkLengths(x.w, l.hub)[l.hop][v]
              /\ \A l, m \in Given(x, v) : l.hub = m.hub /\ l.hop = m.hop => l = m
              /\ Needs(x, v) \subseteq Given(x, v)
BY IndexAssumption, Zenon DEF Generated, Undirected, Given, Needs

(* Each is at least the distance, and its hub is above its vertex.         *)
LEMMA GivenSound ==
  ASSUME NEW x \in Indexes, NEW D, D = HopDist(x.w), NEW v \in Vertices, NEW l \in Given(x, v)
  PROVE  /\ l \in Label /\ SoundLabel(D, l, v) /\ l.hub <= v
         /\ l.hop = 0 => l.hub = v /\ l.dist = 0
         /\ l.hub = v => l.hop = 0
<1>0. Undirected(x.w)
  BY GivenIs
<1>1. l \in Label /\ l.dist \in WalkLengths(x.w, l.hub)[l.hop][v]
  BY GivenIs
<1>2. l.hub \in Vertices /\ l.hop \in 0 .. K /\ l.dist \in Nat
  BY <1>1 DEF Label
<1>3. D[l.hop][<<l.hub, v>>] <= l.dist
  BY <1>0, <1>1, <1>2, WalkSound
<1>4. (l.hop = 0 => v = l.hub /\ l.dist = 0) /\ (l.hop > 0 => l.hub < v)
  BY <1>0, <1>1, <1>2, WalkBounds
<1>5. l.hop \in Nat /\ l.hub \in Int /\ v \in Int
  BY <1>2, Sizes DEF Vertices
<1> QED BY <1>1, <1>2, <1>3, <1>4, <1>5 DEF SoundLabel

LEMMA NeedsAre ==
  ASSUME NEW x \in Indexes, NEW D, D = HopDist(x.w), NEW v \in Vertices
  PROVE  /\ \A l \in Needs(x, v) : l.dist = D[l.hop][<<l.hub, v>>] /\ Canonical(D, l.hub, v, l.hop)
         /\ \A m \in Vertices, h \in 0 .. K : Canonical(D, m, v, h) =>
              [hub |-> m, hop |-> h, dist |-> D[h][<<m, v>>]] \in Needs(x, v)
<1>1. Needs(x, v) = {[hub |-> p[1], hop |-> p[2], dist |-> D[p[2]][<<p[1], v>>]] :
                       p \in {q \in Vertices \X (0 .. K) : Canonical(D, q[1], v, q[2])}}
  BY Zenon DEF Needs, CanonicalLabels
<1>2. ASSUME NEW l \in Needs(x, v)
      PROVE  l.dist = D[l.hop][<<l.hub, v>>] /\ Canonical(D, l.hub, v, l.hop)
  <2>1. PICK p \in Vertices \X (0 .. K) :
          /\ Canonical(D, p[1], v, p[2])
          /\ l = [hub |-> p[1], hop |-> p[2], dist |-> D[p[2]][<<p[1], v>>]]
    BY <1>1
  <2>2. l.hub = p[1] /\ l.hop = p[2] /\ l.dist = D[p[2]][<<p[1], v>>]
    BY <2>1
  <2> QED BY <2>1, <2>2
<1>3. ASSUME NEW m \in Vertices, NEW h \in 0 .. K, Canonical(D, m, v, h)
      PROVE  [hub |-> m, hop |-> h, dist |-> D[h][<<m, v>>]] \in Needs(x, v)
  <2> DEFINE p == <<m, h>>
  <2>1. p \in Vertices \X (0 .. K) /\ p[1] = m /\ p[2] = h
    OBVIOUS
  <2> HIDE DEF p
  <2> QED BY <1>1, <1>3, <2>1
<1> QED BY <1>2, <1>3

(* Of each vertex its own label, of no hops, is needed.                    *)
LEMMA OwnLabel ==
  ASSUME NEW x \in Indexes, NEW v \in Vertices
  PROVE  [hub |-> v, hop |-> 0, dist |-> 0] \in Needs(x, v)
<1> DEFINE D == HopDist(x.w)
<1>0. Undirected(x.w) /\ K \in Nat /\ N \in Nat /\ 0 \in 0 .. K /\ v \in Nat
  BY GivenIs, Sizes DEF Vertices
<1>1. D[0][<<v, v>>] = 0 /\ \A u, z \in Vertices : D[0][<<u, z>>] = IF u = z THEN 0 ELSE Inf
  BY <1>0, DistSteps
<1> HIDE DEF D
<1>2. ASSUME NEW y \in 0 .. v - 1, NEW i \in 0 .. 0
      PROVE  D[i][<<v, y>>] + D[0 - i][<<y, v>>] > D[0][<<v, v>>]
  <2>0. i = 0
    OBVIOUS
  <2>a. 0 - i = 0
    BY <2>0
  <2>1. y \in Int /\ v \in Int /\ v <= N - 1 /\ 0 <= y /\ y <= v - 1
    BY <1>0 DEF Vertices
  <2>2. y \in Vertices /\ y # v
    BY <1>0, <2>1 DEF Vertices
  <2>3. D[i][<<v, y>>] = Inf /\ D[0 - i][<<y, v>>] = Inf
    BY <1>1, <2>0, <2>a, <2>2
  <2> QED BY <1>1, <2>3, Sizes
<1>3. Canonical(D, v, v, 0)
  BY <1>1, <1>2, Sizes DEF Canonical
<1> QED BY <1>0, <1>1, <1>3, NeedsAre DEF D

(* No meeting of other labels answers a label that is needed.              *)
LEMMA NeverAnswered ==
  ASSUME NEW x \in Indexes, NEW v \in Vertices, NEW l \in Needs(x, v),
         NEW a \in Given(x, l.hub), NEW b \in Given(x, v), Meet(a, b, l)
  PROVE  b = l /\ a.hop = 0
<1> DEFINE D == HopDist(x.w)
           m == l.hub
           h == l.hop
           y == a.hub
<1>a. /\ l \in Given(x, v) /\ Undirected(x.w)
      /\ \A p, q \in Given(x, v) : p.hub = q.hub /\ p.hop = q.hop => p = q
  BY GivenIs
<1>b. D = HopDist(x.w)
  OBVIOUS
<1>m. a.hub = b.hub /\ a.hop + b.hop <= l.hop /\ a.dist + b.dist <= l.dist
  BY DEF Meet
<1> HIDE DEF D
<1>0. /\ m \in Vertices /\ h \in 0 .. K /\ l.dist = D[h][<<m, v>>]
      /\ Canonical(D, m, v, h)
  BY <1>a, <1>b, GivenSound, NeedsAre DEF SoundLabel
<1>1. /\ y \in Vertices /\ a.hop \in 0 .. K /\ b.hop \in 0 .. K /\ a.dist \in Nat /\ b.dist \in Nat
      /\ D[a.hop][<<y, m>>] <= a.dist /\ D[b.hop][<<y, v>>] <= b.dist
      /\ y <= m /\ (y = m => a.hop = 0) /\ (a.hop = 0 => a.dist = 0)
  BY <1>0, <1>b, <1>m, GivenSound DEF SoundLabel
<1>2. K \in Nat /\ h - a.hop \in 0 .. K /\ b.hop <= h - a.hop /\ a.hop \in 0 .. h
      /\ m \in Nat /\ y \in Nat
  BY <1>0, <1>1, <1>m, Sizes DEF Vertices
<1>d. a.dist + b.dist <= D[h][<<m, v>>] /\ b.hub = y
  BY <1>m, <1>0
<1>e. b.hub = m /\ b.hop = h => b = l
  BY <1>a
<1> HIDE DEF m, h, y
<1>3. D[h - a.hop][<<y, v>>] <= D[b.hop][<<y, v>>]
  BY <1>a, <1>b, <1>1, <1>2, DistMonotone
<1>4. D[a.hop][<<m, y>>] = D[a.hop][<<y, m>>]
  BY <1>a, <1>b, <1>0, <1>1, DistSymmetric
<1>5. \A i \in 0 .. K : \A p, q \in Vertices : D[i][<<p, q>>] \in Nat
  BY <1>a, <1>b, DistSteps
<1>6. y = m
  <2>1. ASSUME y < m
        PROVE  D[a.hop][<<m, y>>] + D[h - a.hop][<<y, v>>] > D[h][<<m, v>>]
    <3>1. y \in 0 .. m - 1
      BY <1>2, <2>1
    <3> QED BY <1>0, <1>2, <3>1 DEF Canonical
  <2>2. /\ D[a.hop][<<m, y>>] \in Nat /\ D[h - a.hop][<<y, v>>] \in Nat
        /\ D[h][<<m, v>>] \in Nat /\ D[b.hop][<<y, v>>] \in Nat
    BY <1>0, <1>1, <1>2, <1>5
  <2> QED BY <1>0, <1>1, <1>2, <1>3, <1>4, <1>d, <2>1, <2>2
<1>7. a.hop = 0 /\ a.dist = 0 /\ b.hop <= h /\ b.dist <= D[h][<<m, v>>]
  BY <1>0, <1>1, <1>2, <1>5, <1>6, <1>d
<1>8. b.hop = h
  <2> SUFFICES ASSUME b.hop < h PROVE FALSE
    BY <1>0, <1>1, <1>7
  <2>1. h > 0 /\ h - 1 \in 0 .. K /\ b.hop <= h - 1
    BY <1>0, <1>1, <1>2
  <2>2. D[h - 1][<<m, v>>] <= D[b.hop][<<m, v>>]
    BY <1>a, <1>b, <1>0, <1>1, <2>1, DistMonotone
  <2>3. D[h][<<m, v>>] < D[h - 1][<<m, v>>]
    BY <1>0, <2>1 DEF Canonical
  <2>4. D[h][<<m, v>>] \in Nat /\ D[h - 1][<<m, v>>] \in Nat /\ D[b.hop][<<m, v>>] \in Nat
    BY <1>0, <1>1, <1>5, <2>1
  <2>5. D[b.hop][<<m, v>>] <= b.dist
    BY <1>1, <1>6
  <2> QED BY <1>1, <1>7, <2>2, <2>3, <2>4, <2>5
<1>9. b = l
  BY <1>6, <1>8, <1>d, <1>e
<1> QED BY <1>7, <1>9

LEMMA NeedsCover ==
  ASSUME NEW x \in Indexes, NEW labels,
         \A v \in Vertices : Needs(x, v) \subseteq labels[v] /\ labels[v] \subseteq Given(x, v)
  PROVE  Covers(labels, x.w)
<1> DEFINE D == HopDist(x.w)
<1>0. D = HopDist(x.w) /\ Undirected(x.w)
  BY GivenIs
<1> HIDE DEF D
<1>1. \A v \in Vertices : \A l \in labels[v] : SoundLabel(D, l, v)
  BY <1>0, GivenSound
<1>2. ASSUME NEW m \in Vertices, NEW v \in Vertices, NEW h \in 0 .. K, Canonical(D, m, v, h)
      PROVE  HasLabel(labels, m, v, h, D[h][<<m, v>>])
  <2> DEFINE l == [hub |-> m, hop |-> h, dist |-> D[h][<<m, v>>]]
  <2>1. l \in labels[v]
    BY <1>0, <1>2, NeedsAre
  <2> QED BY <2>1 DEF HasLabel
<1> QED BY <1>0, <1>1, <1>2, CanonicalCovers
-----------------------------------------------------------------------------
(***************************************************************************)
(* 2. Sorted rows, and the array of all words.                             *)
(***************************************************************************)
Rises(s, below) == \A i, j \in DOMAIN s : i < j => s[i] \in below[s[j]]

LEMMA RanksRise ==
  ASSUME NEW S, IsFiniteSet(S), NEW below, RankOrder(S, below), NEW s, AtRanks(s, S, below)
  PROVE  Lists(s, S) /\ Rises(s, below)
<1>1. /\ below \in [S -> SUBSET S]
      /\ \A x, y \in S : x = y \/ x \in below[y] \/ y \in below[x]
      /\ \A x \in S : x \notin below[x]
      /\ \A x, y, z \in S : x \in below[y] /\ y \in below[z] => x \in below[z]
  BY DEF RankOrder
<1>2. /\ s = [i \in 1 .. Cardinality(S) |-> s[i]]
      /\ \A i \in 1 .. Cardinality(S) :
           (\E x \in S : Cardinality(below[x]) = i - 1) =>
             s[i] \in S /\ Cardinality(below[s[i]]) = i - 1
  BY Zenon DEF AtRanks
<1>3. /\ s \in [1 .. Cardinality(S) -> S]
      /\ \A i, j \in 1 .. Cardinality(S) : i < j => s[i] \in below[s[j]]
  BY ONLY IsFiniteSet(S), <1>1, <1>2, Ranked
<1>4. DOMAIN s = 1 .. Cardinality(S)
  BY <1>3
<1> QED BY <1>3, <1>4, RanksList, Zenon DEF Rises

(* A row of labels in the order of compare_hop_constrained_two_hop_label.  *)
Increasing(q) == \A i, j \in DOMAIN q : i < j => LabelLess(q[i], q[j])

LEMMA LabelOrder ==
  /\ \A a \in Label : ~LabelLess(a, a)
  /\ \A a, b \in Label : a = b \/ LabelLess(a, b) \/ LabelLess(b, a)
  /\ \A a, b, c \in Label : LabelLess(a, b) /\ LabelLess(b, c) => LabelLess(a, c)
<1>0. \A a \in Label : a.hub \in Int /\ a.hop \in Int /\ a.dist \in Int
  BY Sizes DEF Label, Vertices
<1>1. \A a, b \in Label : a.hub = b.hub /\ a.hop = b.hop /\ a.dist = b.dist => a = b
  BY DEF Label
<1>2. ASSUME NEW a \in Label, NEW b \in Label
      PROVE  ~LabelLess(a, a) /\ (a = b \/ LabelLess(a, b) \/ LabelLess(b, a))
  BY <1>0, <1>1 DEF LabelLess
<1>3. ASSUME NEW a \in Label, NEW b \in Label, NEW c \in Label, LabelLess(a, b), LabelLess(b, c)
      PROVE  LabelLess(a, c)
  BY <1>0, <1>3 DEF LabelLess
<1> QED BY <1>2, <1>3

LEMMA Sorting ==
  ASSUME NEW S, IsFiniteSet(S), S \subseteq Label
  PROVE  /\ SortLabels(S) \in Seq(Label) /\ ToSet(SortLabels(S)) = S
         /\ Increasing(SortLabels(S))
<1> DEFINE below == [x \in S |-> {y \in S : LabelLess(y, x)}]
           e(i) == CHOOSE x \in S : Cardinality({y \in S : LabelLess(y, x)}) = i - 1
           s == SortLabels(S)
<1>1. s = [i \in 1 .. Cardinality(S) |-> e(i)]
  BY DEF SortLabels, Ordered
<1>2. below \in [S -> SUBSET S] /\ \A x, y \in S : y \in below[x] <=> LabelLess(y, x)
  OBVIOUS
<1>3. s = [i \in 1 .. Cardinality(S) |-> s[i]]
  <2> HIDE DEF e, s
  <2> QED BY ONLY <1>1
<1>4. ASSUME NEW i \in 1 .. Cardinality(S),
             \E x \in S : Cardinality(below[x]) = i - 1
      PROVE  s[i] \in S /\ Cardinality(below[s[i]]) = i - 1
  <2>1. \E x \in S : Cardinality({y \in S : LabelLess(y, x)}) = i - 1
    BY <1>4
  <2>2. e(i) \in S /\ Cardinality({y \in S : LabelLess(y, e(i))}) = i - 1
    BY <2>1, Zenon
  <2>3. s[i] = e(i)
    <3> HIDE DEF e, s
    <3> QED BY <1>1
  <2> HIDE DEF e, s
  <2> QED BY <2>2, <2>3
<1> HIDE DEF below, s
<1>5. RankOrder(S, below)
  <2>1. /\ \A x, y \in S : x = y \/ x \in below[y] \/ y \in below[x]
        /\ \A x \in S : x \notin below[x]
        /\ \A x, y, z \in S : x \in below[y] /\ y \in below[z] => x \in below[z]
    BY <1>2, LabelOrder
  <2> QED BY <1>2, <2>1 DEF RankOrder
<1>6. AtRanks(s, S, below)
  BY <1>3, <1>4 DEF AtRanks
<1>7. Lists(s, S) /\ Rises(s, below)
  BY <1>5, <1>6, RanksRise
<1>8. /\ Cardinality(S) \in Nat /\ s \in [1 .. Cardinality(S) -> S]
      /\ DOMAIN s = 1 .. Cardinality(S) /\ \A x \in S : \E i \in DOMAIN s : s[i] = x
  BY <1>7 DEF Lists
<1>9. s \in Seq(S) /\ s \in Seq(Label)
  BY <1>8
<1>10. ToSet(s) = S
  BY <1>8 DEF ToSet
<1>11. Increasing(s)
  <2>1. \A i \in DOMAIN s : s[i] \in S
    BY <1>8
  <2> QED BY <1>2, <1>7, <2>1 DEF Rises, Increasing
<1> QED BY <1>9, <1>10, <1>11 DEF s

(* The words of all vertices, in the order init_clean lays them out.       *)
Word == [to : Vertices, hub : Vertices, hop : 0 .. K, dist : Nat]
WordOf(v, l) == [to |-> v, hub |-> l.hub, hop |-> l.hop, dist |-> l.dist]
LabelIn(y) == [hub |-> y.hub, hop |-> y.hop, dist |-> y.dist]
AllWords(x) == UNION {{WordOf(v, l) : l \in Given(x, v)} : v \in Vertices}
Before(a, b) == a.to < b.to \/ (a.to = b.to /\ LabelLess(a, b))
Row(x) == Ordered(AllWords(x), Before)
Count(x) == Cardinality(AllWords(x))

LEMMA WordsAre ==
  ASSUME NEW x \in Indexes
  PROVE  /\ AllWords(x) \subseteq Word /\ IsFiniteSet(AllWords(x))
         /\ \A y \in AllWords(x) : LabelIn(y) \in Given(x, y.to)
         /\ \A v \in Vertices : \A l \in Given(x, v) :
              WordOf(v, l) \in AllWords(x) /\ WordOf(v, l).to = v /\ LabelIn(WordOf(v, l)) = l
<1>1. \A v \in Vertices : Given(x, v) \subseteq Label /\ IsFiniteSet(Given(x, v))
  BY GivenIs
<1>2. ASSUME NEW v \in Vertices, NEW l \in Given(x, v)
      PROVE  /\ WordOf(v, l) \in Word /\ WordOf(v, l).to = v /\ LabelIn(WordOf(v, l)) = l
             /\ WordOf(v, l) \in AllWords(x)
  <2>1. l \in Label
    BY <1>1
  <2>2. /\ WordOf(v, l) \in Word /\ WordOf(v, l).to = v
        /\ LabelIn(WordOf(v, l)) = [hub |-> l.hub, hop |-> l.hop, dist |-> l.dist]
    BY <2>1 DEF Word, WordOf, Label, LabelIn
  <2>3. l = [hub |-> l.hub, hop |-> l.hop, dist |-> l.dist]
    BY <2>1 DEF Label
  <2> QED BY <2>2, <2>3 DEF AllWords
<1>3. ASSUME NEW y \in AllWords(x)
      PROVE  y \in Word /\ LabelIn(y) \in Given(x, y.to)
  <2>1. PICK v \in Vertices : \E l \in Given(x, v) : y = WordOf(v, l)
    BY DEF AllWords
  <2>2. PICK l \in Given(x, v) : y = WordOf(v, l)
    BY <2>1
  <2> QED BY <1>2, <2>2
<1>4. IsFiniteSet(AllWords(x))
  <2> DEFINE f == [v \in Vertices |-> {WordOf(v, l) : l \in Given(x, v)}]
             U == {{WordOf(v, l) : l \in Given(x, v)} : v \in Vertices}
  <2>1. IsFiniteSet(U)
    <3>1. \A y \in U : \E v \in Vertices : y = f[v]
      OBVIOUS
    <3> HIDE DEF U, f
    <3> QED BY <3>1, VerticesFinite, FiniteImage
  <2>2. ASSUME NEW u \in U PROVE IsFiniteSet(u)
    <3>1. PICK v \in Vertices : u = {WordOf(v, l) : l \in Given(x, v)}
      OBVIOUS
    <3> DEFINE g == [l \in Given(x, v) |-> WordOf(v, l)]
    <3>2. \A y \in u : \E l \in Given(x, v) : y = g[l]
      BY <3>1
    <3> HIDE DEF g, U
    <3> QED BY <1>1, <3>2, FiniteImage
  <2>3. AllWords(x) = UNION U
    BY DEF AllWords
  <2> HIDE DEF U
  <2> QED BY <2>1, <2>2, <2>3, FS_UNION
<1> QED BY <1>2, <1>3, <1>4

LEMMA WordOrder ==
  /\ \A a \in Word : ~Before(a, a)
  /\ \A a, b \in Word : a = b \/ Before(a, b) \/ Before(b, a)
  /\ \A a, b, c \in Word : Before(a, b) /\ Before(b, c) => Before(a, c)
<1>0. \A a \in Word : a.to \in Int /\ a.hub \in Int /\ a.hop \in Int /\ a.dist \in Int
  BY Sizes DEF Word, Vertices
<1>1. \A a, b \in Word : a.to = b.to /\ a.hub = b.hub /\ a.hop = b.hop /\ a.dist = b.dist => a = b
  BY DEF Word
<1>2. ASSUME NEW a \in Word, NEW b \in Word
      PROVE  ~Before(a, a) /\ (a = b \/ Before(a, b) \/ Before(b, a))
  BY <1>0, <1>1 DEF Before, LabelLess
<1>3. ASSUME NEW a \in Word, NEW b \in Word, NEW c \in Word, Before(a, b), Before(b, c)
      PROVE  Before(a, c)
  BY <1>0, <1>3 DEF Before, LabelLess
<1> QED BY <1>2, <1>3

LEMMA RowIs ==
  ASSUME NEW x \in Indexes
  PROVE  /\ Count(x) \in Nat /\ Row(x) \in [1 .. Count(x) -> AllWords(x)]
         /\ \A y \in AllWords(x) : \E i \in 1 .. Count(x) : Row(x)[i] = y
         /\ \A i, j \in 1 .. Count(x) : i < j => Before(Row(x)[i], Row(x)[j])
<1> DEFINE S == AllWords(x)
           below == [z \in S |-> {y \in S : Before(y, z)}]
           e(i) == CHOOSE z \in S : Cardinality({y \in S : Before(y, z)}) = i - 1
           s == Row(x)
<1>0. IsFiniteSet(S) /\ S \subseteq Word
  BY WordsAre
<1> HIDE DEF S
<1>1. s = [i \in 1 .. Cardinality(S) |-> e(i)]
  BY DEF Row, Ordered, S
<1>2. below \in [S -> SUBSET S] /\ \A z, y \in S : y \in below[z] <=> Before(y, z)
  OBVIOUS
<1>3. s = [i \in 1 .. Cardinality(S) |-> s[i]]
  <2> HIDE DEF e, s
  <2> QED BY ONLY <1>1
<1>4. ASSUME NEW i \in 1 .. Cardinality(S),
             \E z \in S : Cardinality(below[z]) = i - 1
      PROVE  s[i] \in S /\ Cardinality(below[s[i]]) = i - 1
  <2>1. \E z \in S : Cardinality({y \in S : Before(y, z)}) = i - 1
    BY <1>4
  <2>2. e(i) \in S /\ Cardinality({y \in S : Before(y, e(i))}) = i - 1
    BY <2>1, Zenon
  <2>3. s[i] = e(i)
    <3> HIDE DEF e, s
    <3> QED BY <1>1
  <2> HIDE DEF e, s
  <2> QED BY <2>2, <2>3
<1> HIDE DEF below, s
<1>5. RankOrder(S, below)
  <2>1. /\ \A z, y \in S : z = y \/ z \in below[y] \/ y \in below[z]
        /\ \A z \in S : z \notin below[z]
        /\ \A u, y, z \in S : u \in below[y] /\ y \in below[z] => u \in below[z]
    BY <1>0, <1>2, WordOrder
  <2> QED BY <1>2, <2>1 DEF RankOrder
<1>6. AtRanks(s, S, below)
  BY <1>3, <1>4 DEF AtRanks
<1>7. Lists(s, S) /\ Rises(s, below)
  BY <1>0, <1>5, <1>6, RanksRise
<1>8. /\ Cardinality(S) \in Nat /\ s \in [1 .. Cardinality(S) -> S]
      /\ DOMAIN s = 1 .. Cardinality(S)
      /\ \A z \in S : \E i \in 1 .. Cardinality(S) : s[i] = z
  BY <1>7 DEF Lists
<1>9. \A i, j \in 1 .. Cardinality(S) : i < j => Before(s[i], s[j])
  <2>1. \A i \in DOMAIN s : s[i] \in S
    BY <1>8
  <2> QED BY <1>2, <1>7, <1>8, <2>1 DEF Rises
<1>10. Count(x) = Cardinality(S)
  BY DEF Count, S
<1> QED BY <1>8, <1>9, <1>10 DEF S, s

(* The words of a vertex are a block, and so are those of a range.         *)
Places(x, v) == {i \in 1 .. Count(x) : Row(x)[i].to = v}
Begin(x, v) == Min(Places(x, v))
Stop(x, v) == Max(Places(x, v)) + 1

LEMMA RowTo ==
  ASSUME NEW x \in Indexes
  PROVE  /\ \A i \in 1 .. Count(x) : Row(x)[i] \in AllWords(x) /\ Row(x)[i] \in Word
                                     /\ Row(x)[i].to \in Vertices /\ Row(x)[i].to \in Nat
         /\ \A i, j \in 1 .. Count(x) : i < j => Row(x)[i].to <= Row(x)[j].to
         /\ \A i, j \in 1 .. Count(x) : i < j =>
              Row(x)[i].to < Row(x)[j].to \/ Row(x)[i] # Row(x)[j]
<1> DEFINE n == Count(x)
           r == Row(x)
<1>1. ASSUME NEW i \in 1 .. n
      PROVE  r[i] \in AllWords(x) /\ r[i] \in Word /\ r[i].to \in Vertices /\ r[i].to \in Nat
  <2>1. r[i] \in AllWords(x) /\ r[i] \in Word
    BY RowIs, WordsAre
  <2> QED BY <2>1, Sizes DEF Word, Vertices
<1>2. ASSUME NEW i \in 1 .. n, NEW j \in 1 .. n, i < j
      PROVE  r[i].to <= r[j].to /\ (r[i].to < r[j].to \/ r[i] # r[j])
  <2>1. Before(r[i], r[j]) /\ r[i] \in Word /\ r[j] \in Word
    BY <1>1, <1>2, RowIs
  <2>2. r[i] # r[j]
    BY <2>1, WordOrder
  <2>3. r[i].to < r[j].to \/ r[i].to = r[j].to
    BY <2>1 DEF Before
  <2>4. r[i].to \in Nat /\ r[j].to \in Nat
    BY <1>1
  <2> HIDE DEF r
  <2> QED BY <2>2, <2>3, <2>4
<1> QED BY <1>1, <1>2

LEMMA Blocks ==
  ASSUME NEW x \in Indexes, NEW v \in Vertices
  PROVE  /\ Begin(x, v) \in 1 .. Count(x) /\ Stop(x, v) \in 1 .. Count(x) + 1
         /\ Begin(x, v) < Stop(x, v)
         /\ \A i \in 1 .. Count(x) :
              Row(x)[i].to = v <=> Begin(x, v) <= i /\ i < Stop(x, v)
<1> DEFINE P == Places(x, v)
           n == Count(x)
           r == Row(x)
<1>0. n \in Nat
  BY RowIs
<1>1. P # {}
  <2> DEFINE l == [hub |-> v, hop |-> 0, dist |-> 0]
  <2>1. l \in Given(x, v)
    BY OwnLabel, GivenIs
  <2>2. WordOf(v, l) \in AllWords(x) /\ WordOf(v, l).to = v
    BY <2>1, WordsAre
  <2> HIDE DEF l
  <2>3. PICK i \in 1 .. n : r[i] = WordOf(v, l)
    BY <2>2, RowIs
  <2> QED BY <2>2, <2>3 DEF Places
<1>2. P \subseteq 1 .. n /\ \A i \in 1 .. n : i \in P <=> r[i].to = v
  BY DEF Places
<1> DEFINE b == Begin(x, v)
           m == Max(P)
<1> HIDE DEF P, n, r
<1>3. P \subseteq Nat /\ P \subseteq Int /\ IsFiniteSet(P)
  <2>1. P \in SUBSET (1 .. n) /\ IsFiniteSet(1 .. n)
    BY <1>0, <1>2, FS_Interval
  <2>2. IsFiniteSet(P)
    BY <2>1, FS_Subset
  <2> QED BY <1>0, <1>2, <2>2
<1>4. b \in P /\ \A k \in P : b <= k
  BY <1>1, <1>3, MinNatural DEF Begin, P
<1>5. m \in P /\ \A k \in P : m >= k
  BY <1>1, <1>3, MaxFinite
<1> HIDE DEF b, m
<1>6. b \in 1 .. n /\ m \in 1 .. n /\ b <= m
  BY <1>2, <1>4, <1>5
<1>7. ASSUME NEW i \in 1 .. n
      PROVE  r[i].to = v <=> b <= i /\ i < m + 1
  <2>1. CASE i \in P
    BY <1>0, <1>2, <1>4, <1>5, <1>6, <2>1
  <2>2. CASE i \notin P
    <3> SUFFICES ASSUME b <= i, i < m + 1 PROVE FALSE
      BY <1>2, <2>2
    <3>1. b < i /\ i < m
      BY <1>0, <1>4, <1>5, <1>6, <2>2
    <3>2. r[b].to = v /\ r[m].to = v /\ r[i].to # v
      BY <1>2, <1>4, <1>5, <2>2
    <3>3. r[b].to <= r[i].to /\ r[i].to <= r[m].to /\ r[i].to \in Nat /\ v \in Nat
      BY <1>6, <3>1, RowTo, Sizes DEF n, r, Vertices
    <3> QED BY <3>2, <3>3
  <2> QED BY <2>1, <2>2
<1>8. Stop(x, v) = m + 1 /\ m + 1 \in 1 .. n + 1 /\ b < m + 1
  BY <1>0, <1>6 DEF Stop, m, P
<1> QED BY <1>6, <1>7, <1>8 DEF b, n, r

LEMMA Spans ==
  ASSUME NEW x \in Indexes, NEW a \in Vertices, NEW c \in Vertices, a <= c
  PROVE  /\ Begin(x, a) < Stop(x, c)
         /\ \A i \in 1 .. Count(x) :
              a <= Row(x)[i].to /\ Row(x)[i].to <= c <=> Begin(x, a) <= i /\ i < Stop(x, c)
<1> DEFINE n == Count(x)
           r == Row(x)
           b == Begin(x, a)
           p == Stop(x, a)
           q == Begin(x, c)
           s == Stop(x, c)
<1>0. a \in Nat /\ c \in Nat /\ n \in Nat
  BY Sizes, RowIs DEF Vertices
<1>1. /\ b \in 1 .. n /\ p \in 1 .. n + 1 /\ b < p
      /\ \A i \in 1 .. n : r[i].to = a <=> b <= i /\ i < p
  BY Blocks
<1>2. /\ q \in 1 .. n /\ s \in 1 .. n + 1 /\ q < s
      /\ \A i \in 1 .. n : r[i].to = c <=> q <= i /\ i < s
  BY Blocks
<1>3. /\ \A i \in 1 .. n : r[i].to \in Nat
      /\ \A i, j \in 1 .. n : i < j => r[i].to <= r[j].to
  BY RowTo
<1> HIDE DEF n, r, b, p, q, s
<1>4. r[b].to = a /\ r[q].to = c /\ s - 1 \in 1 .. n /\ r[s - 1].to = c
  BY <1>0, <1>1, <1>2
<1>5. b <= q
  <2> SUFFICES ASSUME q < b PROVE FALSE
    BY <1>1, <1>2
  <2>1. r[q].to <= r[b].to
    BY <1>1, <1>2, <1>3
  <2>2. a = c
    BY <1>0, <1>4, <2>1
  <2> QED BY <1>1, <1>2, <1>4, <2>2
<1>6. ASSUME NEW i \in 1 .. n
      PROVE  a <= r[i].to /\ r[i].to <= c <=> b <= i /\ i < s
  <2>1. ASSUME b <= i, i < s PROVE a <= r[i].to /\ r[i].to <= c
    <3>1. i = b \/ b < i
      BY <1>1, <2>1
    <3>2. i = s - 1 \/ i < s - 1
      BY <1>2, <2>1
    <3>3. a <= r[i].to
      BY <1>0, <1>1, <1>3, <1>4, <3>1
    <3>4. r[i].to <= c
      BY <1>0, <1>2, <1>3, <1>4, <3>2
    <3> QED BY <3>3, <3>4
  <2>2. ASSUME i < b, a <= r[i].to PROVE FALSE
    <3>1. r[i].to <= a
      BY <1>1, <1>3, <1>4, <2>2
    <3>2. r[i].to = a
      BY <1>0, <1>3, <2>2, <3>1
    <3> QED BY <1>1, <2>2, <3>2
  <2>3. ASSUME s <= i, r[i].to <= c PROVE FALSE
    <3>1. s - 1 < i
      BY <1>2, <2>3
    <3>2. c <= r[i].to
      BY <1>2, <1>3, <1>4, <3>1
    <3>3. r[i].to = c
      BY <1>0, <1>3, <2>3, <3>2
    <3> QED BY <1>2, <2>3, <3>3
  <2> QED BY <1>1, <1>2, <2>1, <2>2, <2>3
<1>7. b < s
  BY <1>1, <1>2, <1>5
<1> QED BY <1>6, <1>7 DEF n, r, b, s
-----------------------------------------------------------------------------
(***************************************************************************)
(* 3. The inductive invariant, for a graph x with its labels.              *)
(***************************************************************************)
Busy == {t \in Workers : pc[t] # "idle"}
Held == {t \in Workers : pc[t] \in {"copy", "test", "return"}}
Testing == {t \in Workers : pc[t] = "test"}

(* Who has the range, and where its vertices are: among the tasks, with a  *)
(* worker or finished, each in one place.                                  *)
Control ==
  /\ first \in Nat /\ turn \in {"pick", "cpu", "gpu"}
  /\ turn # "pick" => first < N
  /\ driver = IF turn = "cpu" THEN "wait" ELSE "rest"
  /\ turn # "cpu" => tasks = <<>> /\ finished = {} /\ Busy = {}
Tasks ==
  /\ pc \in [Workers -> {"idle", "slot", "copy", "test", "return"}]
  /\ vertex \in [Workers -> Vertices]
  /\ tasks \in Seq(Vertices) /\ finished \subseteq Vertices
  /\ \A i \in DOMAIN tasks : first <= tasks[i] /\ tasks[i] < RangeEnd /\ tasks[i] \notin finished
  /\ \A i, j \in DOMAIN tasks : tasks[i] = tasks[j] => i = j
  /\ \A t \in Busy : /\ first <= vertex[t] /\ vertex[t] < RangeEnd /\ vertex[t] \notin finished
                     /\ \A i \in DOMAIN tasks : tasks[i] # vertex[t]
  /\ \A t, u \in Busy : vertex[t] = vertex[u] => t = u

(* Scratch sets: one holder each, empty outside the tests, and in them     *)
(* just the labels kept so far.                                            *)
Noted(t, m) == {[dist |-> l.dist, hop |-> l.hop] : l \in {y \in ToSet(final[t]) : y.hub = m}}
Scratch ==
  /\ used \in [Workers -> Nat] /\ Qid \in Seq(Cpu!Slots)
  /\ \A t \in Held : used[t] \in Cpu!Slots
  /\ \A i, j \in DOMAIN Qid : Qid[i] = Qid[j] => i = j
  /\ \A t \in Held : \A i \in DOMAIN Qid : Qid[i] # used[t]
  /\ \A t, u \in Held : used[t] = used[u] => t = u
  /\ T \in [Cpu!Slots -> [Vertices -> SUBSET [dist : Nat, hop : 0 .. K]]]
  /\ \A s \in Cpu!Slots : (\A t \in Testing : used[t] # s) => T[s] = [m \in Vertices |-> {}]
  /\ \A t \in Testing : \A m \in Vertices : T[used[t]][m] = Noted(t, m)

(* The rows on the CPU.  A vertex whose row no task has written has all    *)
(* its labels; one that no GPU has cleaned has those that are needed.      *)
Pending(v) ==
  /\ first <= v /\ v \notin finished
  /\ \A t \in Workers : pc[t] = "return" => vertex[t] # v
Rows(x) ==
  /\ LHybrid \in [Vertices -> Seq(Label)]
  /\ \A v \in Vertices :
       /\ ToSet(LHybrid[v]) \subseteq Given(x, v) /\ Increasing(LHybrid[v])
       /\ Pending(v) => ToSet(LHybrid[v]) = Given(x, v)
       /\ first <= v => Needs(x, v) \subseteq ToSet(LHybrid[v])
Tests(x) ==
  /\ Lv \in [Workers -> Seq(Label)] /\ final \in [Workers -> Seq(Label)]
  /\ \A t \in Testing :
       /\ ToSet(final[t]) \cup ToSet(Lv[t]) \subseteq ToSet(LHybrid[vertex[t]])
       /\ Needs(x, vertex[t]) \subseteq ToSet(final[t]) \cup ToSet(Lv[t])
       /\ Increasing(final[t]) /\ Increasing(Lv[t])
       /\ \A a \in ToSet(final[t]), b \in ToSet(Lv[t]) : LabelLess(a, b)
  /\ \A t \in Workers : pc[t] = "return" => LHybrid[vertex[t]] = final[t]

(* Nothing that a row holds is answered by what stands before it, as long  *)
(* as only CPUs have cleaned.                                              *)
Lean(rows, q) ==
  \A l, a \in ToSet(q) : \A b \in ToSet(rows[l.hub]) : LabelLess(a, l) => ~Meet(a, b, l)
Leaner ==
  ranges = <<>> =>
    /\ \A v \in Vertices : ~Pending(v) => Lean(LHybrid, LHybrid[v])
    /\ \A t \in Testing : Lean(LHybrid, final[t])

(* The GPU's array: what no range has reached stands where init_clean put  *)
(* it, what is done lies before it.                                        *)
Past(x) == {i \in 1 .. Count(x) : Row(x)[i].to < first}
Current(x) == {i \in 1 .. Count(x) : lo <= i /\ i < hi}
Array(x) ==
  /\ LClean \in [0 .. Count(x) -> AllWords(x) \cup {Gpu!Sentinel}]
  /\ LClean[0] = Gpu!Sentinel
  /\ \A i \in 1 .. Count(x) : LClean[i] \in AllWords(x)
  /\ \A i \in Past(x) : LClean[i].to < first
  /\ \A i \in (1 .. Count(x)) \ Past(x) :
       kernel # "update" \/ i \notin Current(x) => LClean[i] = Row(x)[i]
  /\ start \in [Vertices -> Nat] /\ end \in [Vertices -> Nat]
  /\ \A v \in Vertices : first <= v => start[v] = Begin(x, v) /\ end[v] = Stop(x, v)
  /\ mark \subseteq 0 .. Count(x)
  /\ \A i \in 1 .. Count(x) : LabelIn(Row(x)[i]) \in Needs(x, Row(x)[i].to) => i \in mark
  /\ ranges \in Seq(Nat \X Nat) /\ Gpu!InRanges \subseteq Past(x)

(* A vertex whose range is done.                                           *)
FoundAt(v) == start[v] .. end[v] - 1
Found(v) == {Gpu!LabelOf(LClean[i]) : i \in FoundAt(v)}
Kept(v) == ToSet(LHybrid[v]) \cup Gpu!Cleaned(v)
Settled(x) ==
  \A v \in Vertices : v < first =>
    /\ FoundAt(v) \subseteq Past(x) /\ \A i \in FoundAt(v) : LClean[i].to = v
    /\ Needs(x, v) \subseteq Kept(v) /\ Kept(v) \subseteq Found(v)
    /\ Gpu!Cleaned(v) # {} => LHybrid[v] = <<>>

(* A range on the GPU: what is still marked is not answered by what the    *)
(* kernel has read.                                                        *)
Seen(x, v) == IF v < first THEN Found(v) ELSE Given(x, v)
LeanWord(x, y) ==
  \A b \in Seen(x, y.hub) : \A a \in Given(x, y.to) : Meet(a, b, y) => a = LabelIn(y)
Compact(x) ==
  LET m == Len(Gpu!Selected)
  IN  /\ \A k \in 1 .. m : LClean[lo + k - 1] = Row(x)[Gpu!Selected[k]]
      /\ \A i \in lo + m .. hi - 1 : LClean[i] = Row(x)[i]
OnGpu(x) ==
  /\ turn # "gpu" => kernel = "rest"
  /\ turn = "gpu" =>
       /\ kernel \in {"prune", "clear", "select", "update"}
       /\ lo = Begin(x, first) /\ hi = Stop(x, RangeEnd - 1)
       /\ kernel = "prune" => has = Gpu!Inserted({Row(x)[i] : i \in lo .. hi - 1})
       /\ kernel # "prune" => \A i \in mark \cap Current(x) : LeanWord(x, Row(x)[i])
       /\ kernel = "update" => Compact(x)

(* Nothing that the GPUs kept is answered by other labels of its vertex    *)
(* and what its hub's offsets find.                                        *)
LeanCleaned(x) ==
  \A v \in Vertices : v < first =>
    \A l \in Gpu!Cleaned(v) : \A b \in Found(l.hub) : \A a \in Given(x, v) :
      Meet(a, b, l) => a = l

Working(x) ==
  /\ Control /\ Tasks /\ Scratch /\ Rows(x) /\ Tests(x) /\ Leaner
  /\ Array(x) /\ Settled(x) /\ OnGpu(x) /\ LeanCleaned(x)

(* When all is done.                                                       *)
Over(x) ==
  /\ turn = "done" /\ first \in Nat /\ first >= N
  /\ \A v \in Vertices :
       /\ Needs(x, v) \subseteq ToSet(LHybrid[v]) /\ ToSet(LHybrid[v]) \subseteq Given(x, v)
       /\ \A i \in FoundAt(v) : LClean[i].to = v /\ Gpu!LabelOf(LClean[i]) \in Given(x, v)
       /\ ToSet(LHybrid[v]) \subseteq Found(v)
  /\ OneKind => Minimal([v \in Vertices |-> ToSet(LHybrid[v])])
  /\ Cpu!NothingLeft

Right(x) == w = x.w /\ given = x.labels /\ (Working(x) \/ Over(x))
CleanInv == \E x \in Indexes : Right(x)
-----------------------------------------------------------------------------
(***************************************************************************)
(* 4. The components' own copies of the shared operators are the shared    *)
(* operators.                                                              *)
(***************************************************************************)
LEMMA SameCpu ==
  /\ Cpu!Vertices = Vertices /\ Cpu!Inf = Inf
  /\ \A S : Cpu!Min(S) = Min(S)
  /\ \A s : Cpu!ToSet(s) = ToSet(s)
<1>1. \A S : Cpu!Min(S) = Min(S)
  BY Zenon DEF Cpu!Min, Min
<1>2. \A s : Cpu!ToSet(s) = ToSet(s)
  BY Zenon DEF Cpu!ToSet, ToSet
<1> QED BY <1>1, <1>2 DEF Cpu!Vertices, Vertices, Cpu!Inf, Inf

LEMMA SameGpu ==
  /\ Gpu!Vertices = Vertices /\ Gpu!Inf = Inf
  /\ \A S : Gpu!Min(S) = Min(S) /\ Gpu!Max(S) = Max(S)
  /\ \A S : Gpu!Cardinality(S) = Cardinality(S)
  /\ \A s : Gpu!ToSet(s) = ToSet(s)
<1>1. \A S : Gpu!Min(S) = Min(S)
  BY Zenon DEF Gpu!Min, Min
<1>2. \A S : Gpu!Max(S) = Max(S)
  BY Zenon DEF Gpu!Max, Max
<1>3. \A s : Gpu!ToSet(s) = ToSet(s)
  BY Zenon DEF Gpu!ToSet, ToSet
<1>4. \A S : Gpu!Cardinality(S) = Cardinality(S)
  BY Zenon DEF Gpu!Cardinality, Cardinality
<1> QED BY <1>1, <1>2, <1>3, <1>4 DEF Gpu!Vertices, Vertices, Gpu!Inf, Inf

LEMMA SameSort == \A S : Gpu!SortLabels(S) = SortLabels(S)
<1>1. \A a, b : Gpu!LabelLess(a, b) <=> LabelLess(a, b)
  BY Zenon DEF Gpu!LabelLess, LabelLess
<1> SUFFICES ASSUME NEW S PROVE Gpu!SortLabels(S) = SortLabels(S)
  OBVIOUS
<1> DEFINE e(i) == CHOOSE x \in S : Cardinality({y \in S : LabelLess(y, x)}) = i - 1
           g(i) == CHOOSE x \in S : Gpu!Cardinality({y \in S : Gpu!LabelLess(y, x)}) = i - 1
<1>2. SortLabels(S) = [i \in 1 .. Cardinality(S) |-> e(i)]
  BY DEF SortLabels, Ordered
<1>3. Gpu!SortLabels(S) = [i \in 1 .. Gpu!Cardinality(S) |-> g(i)]
  BY DEF Gpu!SortLabels, Gpu!Ordered
<1>4. \A x : {y \in S : Gpu!LabelLess(y, x)} = {y \in S : LabelLess(y, x)}
  BY <1>1
<1>5. \A i : g(i) = e(i)
  BY <1>4, SameGpu, Zenon
<1> HIDE DEF e, g
<1> QED BY <1>2, <1>3, <1>5, SameGpu

LEMMA SameWords ==
  /\ \A v, l : Gpu!Word(v, l) = WordOf(v, l)
  /\ \A y : Gpu!LabelOf(y) = LabelIn(y)
  /\ \A a, b : Gpu!WordLess(a, b) <=> Before(a, b)
<1>1. \A a, b : Gpu!LabelLess(a, b) <=> LabelLess(a, b)
  BY Zenon DEF Gpu!LabelLess, LabelLess
<1>2. \A a, b : Gpu!WordLess(a, b) <=> Before(a, b)
  BY <1>1, Zenon DEF Gpu!WordLess, Before
<1>3. \A v, l : Gpu!Word(v, l) = WordOf(v, l)
  BY Zenon DEF Gpu!Word, WordOf
<1>4. \A y : Gpu!LabelOf(y) = LabelIn(y)
  BY Zenon DEF Gpu!LabelOf, LabelIn
<1> QED BY <1>2, <1>3, <1>4

(* The words of the rows Init sorts are laid out as Row says.              *)
LEMMA LayoutIs ==
  ASSUME NEW x \in Indexes, \A v \in Vertices : ToSet(LHybrid[v]) = Given(x, v)
  PROVE  /\ Gpu!Layout \in [0 .. Count(x) -> AllWords(x) \cup {Gpu!Sentinel}]
         /\ Gpu!Layout[0] = Gpu!Sentinel
         /\ \A i \in 1 .. Count(x) : Gpu!Layout[i] = Row(x)[i]
<1>1. Gpu!Words = AllWords(x)
  <2>1. Gpu!Words = UNION {{WordOf(v, l) : l \in ToSet(LHybrid[v])} : v \in Vertices}
    BY SameGpu, SameWords DEF Gpu!Words
  <2> QED BY <2>1 DEF AllWords
<1>2. Gpu!Ordered(Gpu!Words, Gpu!WordLess) = Row(x)
  <2> DEFINE S == AllWords(x)
             e(i) == CHOOSE z \in S : Cardinality({y \in S : Before(y, z)}) = i - 1
             g(i) == CHOOSE z \in S : Gpu!Cardinality({y \in S : Gpu!WordLess(y, z)}) = i - 1
  <2>1. Row(x) = [i \in 1 .. Cardinality(S) |-> e(i)]
    BY DEF Row, Ordered
  <2>2. Gpu!Ordered(Gpu!Words, Gpu!WordLess) = [i \in 1 .. Gpu!Cardinality(S) |-> g(i)]
    BY <1>1 DEF Gpu!Ordered
  <2>3. \A z : {y \in S : Gpu!WordLess(y, z)} = {y \in S : Before(y, z)}
    BY SameWords
  <2>4. \A i : g(i) = e(i)
    BY <2>3, SameGpu, Zenon
  <2> HIDE DEF e, g, S
  <2> QED BY <2>1, <2>2, <2>4, SameGpu
<1>3. Gpu!Layout = [i \in 0 .. Count(x) |-> IF i = 0 THEN Gpu!Sentinel ELSE Row(x)[i]]
  BY <1>1, <1>2, SameGpu DEF Gpu!Layout, Count
<1>4. Count(x) \in Nat /\ \A i \in 1 .. Count(x) : Row(x)[i] \in AllWords(x)
  BY RowIs
<1> HIDE DEF Gpu!Layout
<1>5. \A i \in 0 .. Count(x) : i = 0 \/ i \in 1 .. Count(x)
  BY <1>4
<1>6. \A i \in 1 .. Count(x) : i \in 0 .. Count(x) /\ i # 0
  BY <1>4
<1>7. 0 \in 0 .. Count(x)
  BY <1>4
<1> QED BY <1>3, <1>4, <1>5, <1>6, <1>7
-----------------------------------------------------------------------------
(***************************************************************************)
(* 5. The invariant holds at the start.                                    *)
(***************************************************************************)
LEMMA RangeEnds ==
  ASSUME first \in Nat
  PROVE  /\ RangeEnd \in Nat /\ RangeEnd <= N /\ RangeEnd <= first + CleanSize
         /\ RangeEnd = N \/ RangeEnd = first + CleanSize
         /\ first < N => first < RangeEnd
<1>1. N \in Nat /\ CleanSize \in Nat \ {0} /\ first + CleanSize \in Nat
  BY Sizes, CleanAssumption
<1>2. RangeEnd \in {first + CleanSize, N} /\ \A k \in {first + CleanSize, N} : RangeEnd <= k
  <2> DEFINE S == {first + CleanSize, N}
  <2>1. S \subseteq Nat /\ S # {}
    BY <1>1
  <2> HIDE DEF S
  <2>2. RangeEnd = Min(S)
    BY DEF RangeEnd, S
  <2>3. Min(S) \in S /\ \A k \in S : Min(S) <= k
    BY <2>1, MinNatural
  <2> QED BY <2>2, <2>3 DEF S
<1> QED BY <1>1, <1>2

LEMMA InitCpu ==
  ASSUME Init, NEW x \in Indexes, w = x.w, given = x.labels
  PROVE  Control /\ Tasks /\ Scratch /\ Rows(x) /\ Tests(x) /\ Leaner
<1>1. /\ first = 0 /\ turn = "pick" /\ driver = "rest" /\ tasks = <<>> /\ finished = {}
      /\ pc = [t \in Workers |-> "idle"] /\ vertex = [t \in Workers |-> 0]
      /\ used = [t \in Workers |-> 0] /\ Lv = [t \in Workers |-> <<>>]
      /\ final = [t \in Workers |-> <<>>] /\ Qid = [i \in 1 .. NumSlots |-> i - 1]
      /\ T = [s \in Cpu!Slots |-> [m \in Vertices |-> {}]]
      /\ LHybrid = [v \in Vertices |-> SortLabels(given[v])]
  BY SameCpu DEF Init, Cpu!Init
<1>2. Busy = {} /\ Testing = {} /\ Held = {}
  BY <1>1 DEF Busy, Testing, Held
<1>3. Control
  BY <1>1, <1>2, Sizes DEF Control
<1>4. Tasks
  BY <1>1, <1>2, Sizes DEF Tasks
<1>5. Scratch
  <2>1. NumSlots \in Nat /\ Cpu!Slots = 0 .. NumSlots - 1
    BY CleanAssumption DEF Cpu!Slots
  <2>2. Qid \in Seq(Cpu!Slots) /\ \A i, j \in DOMAIN Qid : Qid[i] = Qid[j] => i = j
    <3>1. Qid \in [1 .. NumSlots -> Cpu!Slots] /\ DOMAIN Qid = 1 .. NumSlots
      BY <1>1, <2>1
    <3>2. \A i, j \in 1 .. NumSlots : Qid[i] = Qid[j] => i = j
      BY <1>1, <2>1
    <3> QED BY <2>1, <3>1, <3>2
  <2>3. used \in [Workers -> Nat]
    BY <1>1
  <2>4. T \in [Cpu!Slots -> [Vertices -> SUBSET [dist : Nat, hop : 0 .. K]]]
        /\ \A s \in Cpu!Slots : T[s] = [m \in Vertices |-> {}]
    BY <1>1
  <2> QED BY <1>2, <2>2, <2>3, <2>4 DEF Scratch
<1>6. ASSUME NEW v \in Vertices
      PROVE  /\ LHybrid[v] \in Seq(Label) /\ ToSet(LHybrid[v]) = Given(x, v)
             /\ Increasing(LHybrid[v]) /\ Needs(x, v) \subseteq Given(x, v)
             /\ Pending(v)
  <2>1. LHybrid[v] = SortLabels(Given(x, v))
    BY <1>1 DEF Given
  <2>2. Pending(v)
    BY <1>1, Sizes DEF Pending, Vertices
  <2> QED BY <2>1, <2>2, GivenIs, Sorting
<1>7. Rows(x)
  <2>1. LHybrid \in [Vertices -> Seq(Label)]
    BY <1>1, <1>6
  <2> QED BY <1>6, <2>1 DEF Rows
<1>8. Tests(x)
  BY <1>1, <1>2 DEF Tests
<1>9. Leaner
  BY <1>2, <1>6 DEF Leaner
<1> QED BY <1>3, <1>4, <1>5, <1>7, <1>8, <1>9

LEMMA InitGpu ==
  ASSUME Init, NEW x \in Indexes, w = x.w, given = x.labels
  PROVE  Array(x) /\ Settled(x) /\ OnGpu(x) /\ LeanCleaned(x)
<1>0. first = 0 /\ turn = "pick" /\ Rows(x) /\ \A v \in Vertices : ToSet(LHybrid[v]) = Given(x, v)
  <2>1. Rows(x) /\ Tasks /\ first = 0 /\ turn = "pick" /\ finished = {} /\ pc = [t \in Workers |-> "idle"]
    BY InitCpu DEF Init, Cpu!Init
  <2>2. \A v \in Vertices : Pending(v)
    BY <2>1, Sizes DEF Pending, Vertices
  <2> QED BY <2>1, <2>2 DEF Rows
<1>1. /\ LClean = Gpu!Layout /\ kernel = "rest" /\ ranges = <<>> /\ mark = DOMAIN LClean
      /\ start = [v \in Vertices |-> Min(Gpu!WordsOf(v))]
      /\ end = [v \in Vertices |-> Max(Gpu!WordsOf(v)) + 1]
  BY SameGpu DEF Init, Gpu!Init
<1>2. /\ LClean \in [0 .. Count(x) -> AllWords(x) \cup {Gpu!Sentinel}]
      /\ LClean[0] = Gpu!Sentinel
      /\ \A i \in 1 .. Count(x) : LClean[i] = Row(x)[i]
  BY <1>0, <1>1, LayoutIs
<1>3. Count(x) \in Nat /\ \A i \in 1 .. Count(x) : Row(x)[i] \in AllWords(x) /\ Row(x)[i].to \in Nat
  BY RowIs, RowTo
<1>4. Past(x) = {}
  BY <1>0, <1>3 DEF Past
<1>5. ASSUME NEW v \in Vertices
      PROVE  Gpu!WordsOf(v) = Places(x, v)
  <2>1. LClean[0].to # v
    BY <1>2, Sizes DEF Gpu!Sentinel, Vertices
  <2>2. DOMAIN LClean = 0 .. Count(x) /\ \A i \in 0 .. Count(x) : i = 0 \/ i \in 1 .. Count(x)
    BY <1>2, <1>3
  <2>3. \A i \in 1 .. Count(x) : i \in 0 .. Count(x)
    BY <1>3
  <2>4. Gpu!WordsOf(v) = {i \in 0 .. Count(x) : LClean[i].to = v}
    BY <2>2 DEF Gpu!WordsOf
  <2> QED BY <1>2, <2>1, <2>2, <2>3, <2>4 DEF Places
<1>6. \A v \in Vertices : start[v] = Begin(x, v) /\ end[v] = Stop(x, v)
  BY <1>1, <1>5 DEF Begin, Stop
<1>7. start \in [Vertices -> Nat] /\ end \in [Vertices -> Nat]
  <2>1. \A v \in Vertices : Begin(x, v) \in Nat /\ Stop(x, v) \in Nat
    BY <1>3, Blocks
  <2> QED BY <1>1, <1>6, <2>1
<1>8. Gpu!InRanges = {}
  BY <1>1 DEF Gpu!InRanges, Gpu!ToSet
<1>9. Array(x)
  <2>1. \A i \in 1 .. Count(x) : LClean[i] \in AllWords(x)
    BY <1>2, <1>3
  <2>2. mark = 0 .. Count(x) /\ \A i \in 1 .. Count(x) : i \in mark
    BY <1>1, <1>2, <1>3
  <2>3. ranges \in Seq(Nat \X Nat)
    BY <1>1
  <2> QED BY <1>2, <1>4, <1>6, <1>7, <1>8, <2>1, <2>2, <2>3 DEF Array
<1>10. \A v \in Vertices : ~(v < first)
  BY <1>0, Sizes DEF Vertices
<1>11. Settled(x) /\ LeanCleaned(x)
  BY <1>10 DEF Settled, LeanCleaned
<1>12. OnGpu(x)
  BY <1>0, <1>1 DEF OnGpu
<1> QED BY <1>9, <1>11, <1>12

LEMMA CleanInit == Init => CleanInv
<1> SUFFICES ASSUME Init PROVE CleanInv
  OBVIOUS
<1>1. PICK x \in Indexes : w = x.w /\ given = x.labels
  BY DEF Init
<1> QED BY <1>1, InitCpu, InitGpu DEF CleanInv, Right, Working
-----------------------------------------------------------------------------
(***************************************************************************)
(* 6. Steps of the CPU.  First the queues' sequences.                      *)
(***************************************************************************)
LEMMA HeadTail ==
  ASSUME NEW S, NEW q \in Seq(S), q # <<>>
  PROVE  /\ Head(q) \in S /\ 1 \in DOMAIN q /\ Head(q) = q[1] /\ Tail(q) \in Seq(S)
         /\ \A i \in DOMAIN Tail(q) : i \in Nat /\ i > 0 /\ i + 1 \in DOMAIN q
                                      /\ Tail(q)[i] = q[i + 1]
         /\ ToSet(q) = {Head(q)} \cup ToSet(Tail(q))
<1>1. /\ Len(q) \in Nat /\ Len(q) > 0 /\ DOMAIN q = 1 .. Len(q)
      /\ \A i \in 1 .. Len(q) : q[i] \in S
  OBVIOUS
<1>2. /\ Tail(q) \in Seq(S) /\ DOMAIN Tail(q) = 1 .. Len(q) - 1
      /\ \A i \in 1 .. Len(q) - 1 : Tail(q)[i] = q[i + 1]
  BY <1>1
<1>3. Head(q) = q[1]
  OBVIOUS
<1>4. \A i \in DOMAIN Tail(q) : i \in Nat /\ i > 0 /\ i + 1 \in DOMAIN q /\ Tail(q)[i] = q[i + 1]
  BY <1>1, <1>2
<1>5. ToSet(q) = {Head(q)} \cup ToSet(Tail(q))
  <2>1. ASSUME NEW i \in 1 .. Len(q) PROVE q[i] = Head(q) \/ \E j \in DOMAIN Tail(q) : q[i] = Tail(q)[j]
    <3>1. CASE i = 1
      BY <1>3, <3>1
    <3>2. CASE i # 1
      <4>1. i - 1 \in 1 .. Len(q) - 1 /\ (i - 1) + 1 = i
        BY <1>1, <3>2
      <4>2. Tail(q)[i - 1] = q[i]
        BY <1>2, <4>1
      <4> QED BY <1>2, <4>1, <4>2
    <3> QED BY <3>1, <3>2
  <2>2. 1 \in DOMAIN q
    BY <1>1
  <2>3. \A y \in ToSet(q) : y = Head(q) \/ y \in ToSet(Tail(q))
    BY <1>1, <2>1 DEF ToSet
  <2>4. Head(q) \in ToSet(q)
    BY <1>3, <2>2 DEF ToSet
  <2>5. \A y \in ToSet(Tail(q)) : y \in ToSet(q)
    BY <1>4 DEF ToSet
  <2> QED BY <2>3, <2>4, <2>5
<1>6. 1 \in DOMAIN q /\ q[1] \in S
  BY <1>1
<1> QED BY <1>2, <1>3, <1>4, <1>5, <1>6

LEMMA Appended ==
  ASSUME NEW S, NEW q \in Seq(S), NEW e \in S
  PROVE  /\ Append(q, e) \in Seq(S) /\ ToSet(Append(q, e)) = ToSet(q) \cup {e}
         /\ \A i \in DOMAIN q : i \in DOMAIN Append(q, e) /\ Append(q, e)[i] = q[i] /\ i <= Len(q)
         /\ \A i \in DOMAIN Append(q, e) :
              i \in DOMAIN q \/ (i = Len(q) + 1 /\ Append(q, e)[i] = e)
<1>1. /\ Len(q) \in Nat /\ DOMAIN q = 1 .. Len(q)
      /\ Append(q, e) \in Seq(S) /\ DOMAIN Append(q, e) = 1 .. Len(q) + 1
      /\ Append(q, e)[Len(q) + 1] = e
      /\ \A i \in 1 .. Len(q) : Append(q, e)[i] = q[i]
  OBVIOUS
<1>2. \A i \in DOMAIN Append(q, e) : i \in DOMAIN q \/ (i = Len(q) + 1 /\ Append(q, e)[i] = e)
  BY <1>1
<1>3. \A i \in DOMAIN q : i \in DOMAIN Append(q, e) /\ Append(q, e)[i] = q[i] /\ i <= Len(q)
  BY <1>1
<1>4. Len(q) + 1 \in DOMAIN Append(q, e)
  BY <1>1
<1>5. ToSet(Append(q, e)) = ToSet(q) \cup {e}
  <2>1. \A y \in ToSet(Append(q, e)) : y \in ToSet(q) \/ y = e
    BY <1>1, <1>2, <1>3 DEF ToSet
  <2>2. \A y \in ToSet(q) : y \in ToSet(Append(q, e))
    BY <1>1, <1>3 DEF ToSet
  <2>3. e \in ToSet(Append(q, e))
    BY <1>1, <1>4 DEF ToSet
  <2> QED BY <2>1, <2>2, <2>3
<1> QED BY <1>1, <1>2, <1>3, <1>5

LEMMA TaskSteps ==
  ASSUME Control, Tasks, NEW t \in Workers, CpuCleans(t)
  PROVE  Control' /\ Tasks'
<1>0. /\ turn = "cpu" /\ Cpu!Step(t) /\ first' = first /\ turn' = turn /\ RangeEnd' = RangeEnd
  BY DEF CpuCleans, loop, RangeEnd
<1>1. /\ driver' = driver
  BY <1>0 DEF Cpu!Step, Cpu!TakeTask, Cpu!TakeSlot, Cpu!Copy, Cpu!Test, Cpu!Write, Cpu!ReturnSlot
<1>2. Control'
  BY <1>0, <1>1 DEF Control
<1>3. CASE Cpu!TakeTask(t)
  <2>1. /\ pc[t] = "idle" /\ tasks # <<>> /\ vertex' = [vertex EXCEPT ![t] = Head(tasks)]
        /\ tasks' = Tail(tasks) /\ pc' = [pc EXCEPT ![t] = "slot"] /\ finished' = finished
    BY <1>3 DEF Cpu!TakeTask
  <2>2. /\ Head(tasks) \in Vertices /\ 1 \in DOMAIN tasks /\ Head(tasks) = tasks[1]
        /\ Tail(tasks) \in Seq(Vertices)
        /\ \A i \in DOMAIN Tail(tasks) : i \in Nat /\ i > 0 /\ i + 1 \in DOMAIN tasks
                                         /\ Tail(tasks)[i] = tasks[i + 1]
    BY <2>1, HeadTail DEF Tasks
  <2>3. Busy' = Busy \cup {t} /\ t \notin Busy
    BY <2>1 DEF Busy, Tasks
  <2>4. /\ pc' \in [Workers -> {"idle", "slot", "copy", "test", "return"}]
        /\ vertex' \in [Workers -> Vertices] /\ vertex'[t] = tasks[1]
        /\ \A u \in Workers : u # t => vertex'[u] = vertex[u]
    BY <2>1, <2>2 DEF Tasks
  <2>5. \A i \in DOMAIN tasks' :
          /\ first <= tasks'[i] /\ tasks'[i] < RangeEnd /\ tasks'[i] \notin finished
          /\ tasks'[i] # tasks[1] /\ \A u \in Busy : tasks'[i] # vertex[u]
    <3> SUFFICES ASSUME NEW i \in DOMAIN tasks'
                 PROVE  /\ first <= tasks'[i] /\ tasks'[i] < RangeEnd /\ tasks'[i] \notin finished
                        /\ tasks'[i] # tasks[1] /\ \A u \in Busy : tasks'[i] # vertex[u]
      OBVIOUS
    <3>1. i + 1 \in DOMAIN tasks /\ i + 1 # 1 /\ tasks'[i] = tasks[i + 1]
      BY <2>1, <2>2
    <3> QED BY <2>2, <3>1 DEF Tasks
  <2>6. \A i, j \in DOMAIN tasks' : tasks'[i] = tasks'[j] => i = j
    <3> SUFFICES ASSUME NEW i \in DOMAIN tasks', NEW j \in DOMAIN tasks', tasks'[i] = tasks'[j]
                 PROVE  i = j
      OBVIOUS
    <3>1. i + 1 \in DOMAIN tasks /\ j + 1 \in DOMAIN tasks /\ tasks[i + 1] = tasks[j + 1]
          /\ i \in Nat /\ j \in Nat
      BY <2>1, <2>2
    <3>2. i + 1 = j + 1
      BY <3>1 DEF Tasks
    <3> QED BY <3>1, <3>2
  <2>7. \A u \in Busy' : /\ first <= vertex'[u] /\ vertex'[u] < RangeEnd /\ vertex'[u] \notin finished'
                         /\ \A i \in DOMAIN tasks' : tasks'[i] # vertex'[u]
    <3> SUFFICES ASSUME NEW u \in Busy'
                 PROVE  /\ first <= vertex'[u] /\ vertex'[u] < RangeEnd /\ vertex'[u] \notin finished'
                        /\ \A i \in DOMAIN tasks' : tasks'[i] # vertex'[u]
      OBVIOUS
    <3>1. CASE u = t
      BY <2>1, <2>2, <2>4, <2>5, <3>1 DEF Tasks
    <3>2. CASE u # t
      <4>1. u \in Busy /\ vertex'[u] = vertex[u]
        BY <2>3, <2>4, <3>2 DEF Busy
      <4> QED BY <2>1, <2>5, <4>1 DEF Tasks
    <3> QED BY <3>1, <3>2
  <2>8. \A u, v \in Busy' : vertex'[u] = vertex'[v] => u = v
    <3>1. \A u \in Busy : vertex[u] # tasks[1] /\ u \in Workers /\ u # t
      BY <2>2, <2>3 DEF Tasks, Busy
    <3> QED BY <2>3, <2>4, <3>1 DEF Tasks
  <2> QED BY <1>0, <1>2, <2>1, <2>2, <2>4, <2>5, <2>6, <2>7, <2>8 DEF Tasks
<1>4. CASE Cpu!ReturnSlot(t)
  <2>1. /\ pc[t] = "return" /\ finished' = finished \cup {vertex[t]}
        /\ pc' = [pc EXCEPT ![t] = "idle"] /\ tasks' = tasks /\ vertex' = vertex
    BY <1>4 DEF Cpu!ReturnSlot
  <2>2. Busy' = Busy \ {t} /\ t \in Busy
    BY <2>1 DEF Busy, Tasks
  <2>3. /\ pc' \in [Workers -> {"idle", "slot", "copy", "test", "return"}]
        /\ vertex[t] \in Vertices
    BY <2>1 DEF Tasks
  <2>4. \A u \in Busy' : vertex[u] # vertex[t]
    BY <2>2 DEF Tasks
  <2> QED BY <1>0, <1>2, <2>1, <2>2, <2>3, <2>4 DEF Tasks
<1>5. CASE Cpu!TakeSlot(t) \/ Cpu!Copy(t) \/ Cpu!Test(t) \/ Cpu!Write(t)
  <2>1. /\ tasks' = tasks /\ vertex' = vertex /\ finished' = finished
        /\ pc[t] # "idle"
        /\ \E p \in {"copy", "test", "return"} : pc' = [pc EXCEPT ![t] = p]
    <3>1. \E p \in {"copy", "test", "return"} : pc' = [pc EXCEPT ![t] = p]
      <4>1. CASE Cpu!TakeSlot(t)
        BY <4>1 DEF Cpu!TakeSlot
      <4>2. CASE Cpu!Copy(t)
        BY <4>2 DEF Cpu!Copy
      <4>3. CASE Cpu!Test(t)
        <5>1. pc[t] = "test" /\ pc' = pc
          BY <4>3 DEF Cpu!Test
        <5>2. pc' = [pc EXCEPT ![t] = "test"]
          BY <5>1 DEF Tasks
        <5> QED BY <5>2
      <4>4. CASE Cpu!Write(t)
        BY <4>4 DEF Cpu!Write
      <4> QED BY <1>5, <4>1, <4>2, <4>3, <4>4
    <3> QED BY <1>5, <3>1 DEF Cpu!TakeSlot, Cpu!Copy, Cpu!Test, Cpu!Write
  <2>2. PICK p \in {"copy", "test", "return"} : pc' = [pc EXCEPT ![t] = p]
    BY <2>1
  <2>3. Busy' = Busy
    BY <2>1, <2>2 DEF Busy, Tasks
  <2>4. pc' \in [Workers -> {"idle", "slot", "copy", "test", "return"}]
    BY <2>2 DEF Tasks
  <2> QED BY <1>0, <1>2, <2>1, <2>3, <2>4 DEF Tasks
<1> QED BY <1>0, <1>3, <1>4, <1>5 DEF Cpu!Step

(* Who holds a scratch set and who tests, after a worker has moved on.     *)
LEMMA Moved ==
  ASSUME Tasks, NEW t \in Workers, NEW p, pc' = [pc EXCEPT ![t] = p]
  PROVE  /\ \A u \in Workers : u # t => pc'[u] = pc[u]
         /\ pc'[t] = p
         /\ Held' = IF p \in {"copy", "test", "return"} THEN Held \cup {t} ELSE Held \ {t}
         /\ Testing' = IF p = "test" THEN Testing \cup {t} ELSE Testing \ {t}
         /\ Testing \subseteq Held /\ Held \subseteq Workers
<1>1. (\A u \in Workers : u # t => pc'[u] = pc[u]) /\ pc'[t] = p
  BY DEF Tasks
<1> QED BY <1>1 DEF Held, Testing

NoNotes == [m \in Vertices |-> {}]
LEMMA ScratchSteps ==
  ASSUME Tasks, Scratch, final \in [Workers -> Seq(Label)], Lv \in [Workers -> Seq(Label)],
         NEW t \in Workers, CpuCleans(t)
  PROVE  Scratch'
<1> DEFINE Slots == Cpu!Slots
<1>0. /\ used \in [Workers -> Nat] /\ Qid \in Seq(Slots)
      /\ \A u \in Held : used[u] \in Slots
      /\ \A i, j \in DOMAIN Qid : Qid[i] = Qid[j] => i = j
      /\ \A u \in Held : \A i \in DOMAIN Qid : Qid[i] # used[u]
      /\ \A u, v \in Held : used[u] = used[v] => u = v
      /\ T \in [Slots -> [Vertices -> SUBSET [dist : Nat, hop : 0 .. K]]]
      /\ \A s \in Slots : (\A u \in Testing : used[u] # s) => T[s] = NoNotes
      /\ \A u \in Testing : \A m \in Vertices : T[used[u]][m] = Noted(u, m)
  BY DEF Scratch, NoNotes
<1>s. Slots \subseteq Nat
  BY CleanAssumption DEF Cpu!Slots
<1>a. Slots' = Slots /\ NoNotes' = NoNotes
  BY DEF Cpu!Slots, NoNotes
<1> SUFFICES
      /\ used' \in [Workers -> Nat] /\ Qid' \in Seq(Slots)
      /\ \A u \in Held' : used'[u] \in Slots
      /\ \A i, j \in DOMAIN Qid' : Qid'[i] = Qid'[j] => i = j
      /\ \A u \in Held' : \A i \in DOMAIN Qid' : Qid'[i] # used'[u]
      /\ \A u, v \in Held' : used'[u] = used'[v] => u = v
      /\ T' \in [Slots -> [Vertices -> SUBSET [dist : Nat, hop : 0 .. K]]]
      /\ \A s \in Slots : (\A u \in Testing' : used'[u] # s) => T'[s] = NoNotes
      /\ \A u \in Testing' : \A m \in Vertices : T'[used'[u]][m] = Noted(u, m)'
  BY <1>a DEF Scratch, NoNotes
<1> HIDE DEF Slots
<1>n. ASSUME NEW u \in Workers, final'[u] = final[u]
      PROVE  \A m \in Vertices : Noted(u, m)' = Noted(u, m)
  BY <1>n DEF Noted
<1>1. CASE Cpu!TakeTask(t)
  <2>1. /\ pc[t] = "idle" /\ pc' = [pc EXCEPT ![t] = "slot"]
        /\ used' = used /\ final' = final /\ Qid' = Qid /\ T' = T
    BY <1>1 DEF Cpu!TakeTask
  <2>2. Held' = Held /\ Testing' = Testing /\ Testing \subseteq Workers
    BY <2>1, Moved DEF Held, Testing
  <2> QED BY <1>0, <1>n, <2>1, <2>2
<1>2. CASE Cpu!TakeSlot(t)
  <2>1. /\ pc[t] = "slot" /\ pc' = [pc EXCEPT ![t] = "copy"] /\ Qid # <<>>
        /\ used' = [used EXCEPT ![t] = Head(Qid)] /\ final' = final /\ Qid' = Tail(Qid) /\ T' = T
    BY <1>2 DEF Cpu!TakeSlot
  <2>2. /\ Held' = Held \cup {t} /\ Testing' = Testing /\ t \notin Held /\ t \notin Testing
        /\ Testing \subseteq Held /\ Held \subseteq Workers
    BY <2>1, Moved DEF Held, Testing
  <2>3. /\ Head(Qid) \in Slots /\ 1 \in DOMAIN Qid /\ Head(Qid) = Qid[1] /\ Tail(Qid) \in Seq(Slots)
        /\ \A i \in DOMAIN Tail(Qid) : i \in Nat /\ i > 0 /\ i + 1 \in DOMAIN Qid
                                       /\ Tail(Qid)[i] = Qid[i + 1]
    BY <1>0, <2>1, HeadTail
  <2>4. used' \in [Workers -> Nat] /\ used'[t] = Qid[1] /\ \A u \in Workers : u # t => used'[u] = used[u]
    BY <1>0, <1>s, <2>1, <2>3
  <2>5. \A u \in Held' : used'[u] \in Slots
    BY <1>0, <2>2, <2>3, <2>4
  <2>6. \A i, j \in DOMAIN Qid' : Qid'[i] = Qid'[j] => i = j
    <3> SUFFICES ASSUME NEW i \in DOMAIN Qid', NEW j \in DOMAIN Qid', Qid'[i] = Qid'[j] PROVE i = j
      OBVIOUS
    <3>1. i + 1 \in DOMAIN Qid /\ j + 1 \in DOMAIN Qid /\ Qid[i + 1] = Qid[j + 1]
          /\ i \in Nat /\ j \in Nat
      BY <2>1, <2>3
    <3>2. i + 1 = j + 1
      BY <1>0, <3>1
    <3> QED BY <3>1, <3>2
  <2>7. \A u \in Held' : \A i \in DOMAIN Qid' : Qid'[i] # used'[u]
    <3> SUFFICES ASSUME NEW u \in Held', NEW i \in DOMAIN Qid' PROVE Qid'[i] # used'[u]
      OBVIOUS
    <3>1. i + 1 \in DOMAIN Qid /\ Qid'[i] = Qid[i + 1] /\ i + 1 # 1
      BY <2>1, <2>3
    <3> QED BY <1>0, <2>2, <2>3, <2>4, <3>1
  <2>8. \A u, v \in Held' : used'[u] = used'[v] => u = v
    BY <1>0, <2>2, <2>3, <2>4
  <2>9. \A s \in Slots : (\A u \in Testing' : used'[u] # s) => T'[s] = NoNotes
    BY <1>0, <2>1, <2>2, <2>4
  <2>10. \A u \in Testing' : \A m \in Vertices : T'[used'[u]][m] = Noted(u, m)'
    BY <1>0, <1>n, <2>1, <2>2, <2>4
  <2> QED BY <1>0, <2>1, <2>3, <2>4, <2>5, <2>6, <2>7, <2>8, <2>9, <2>10
<1>3. CASE Cpu!Copy(t)
  <2>1. /\ pc[t] = "copy" /\ pc' = [pc EXCEPT ![t] = "test"]
        /\ used' = used /\ final' = [final EXCEPT ![t] = <<>>] /\ Qid' = Qid /\ T' = T
    BY <1>3 DEF Cpu!Copy
  <2>2. /\ Held' = Held /\ Testing' = Testing \cup {t} /\ t \in Held /\ t \notin Testing
        /\ Testing \subseteq Held /\ Held \subseteq Workers
    BY <2>1, Moved DEF Held, Testing
  <2>3. T[used[t]] = NoNotes
    <3>1. \A u \in Testing : used[u] # used[t]
      BY <1>0, <2>2
    <3> QED BY <1>0, <2>2, <3>1
  <2>4. ASSUME NEW m \in Vertices PROVE T'[used'[t]][m] = Noted(t, m)'
    <3>1. final'[t] = <<>>
      BY <2>1
    <3>2. Noted(t, m)' = {}
      BY <3>1 DEF Noted, ToSet
    <3> QED BY <2>1, <2>3, <3>2 DEF NoNotes
  <2>5. \A u \in Testing : \A m \in Vertices : T'[used'[u]][m] = Noted(u, m)'
    <3>1. \A u \in Testing : final'[u] = final[u] /\ u \in Workers
      BY <2>1, <2>2
    <3> QED BY <1>0, <1>n, <2>1, <3>1
  <2>6. \A s \in Slots : (\A u \in Testing' : used'[u] # s) => T'[s] = NoNotes
    BY <1>0, <2>1, <2>2
  <2> QED BY <1>0, <2>1, <2>2, <2>4, <2>5, <2>6
<1>4. CASE Cpu!Test(t)
  <2> DEFINE s == used[t]
             l == Head(Lv[t])
             note == [dist |-> l.dist, hop |-> l.hop]
  <2>1. /\ pc[t] = "test" /\ pc' = pc /\ Lv[t] # <<>> /\ used' = used /\ Qid' = Qid
        /\ \/ /\ final' = [final EXCEPT ![t] = Append(@, l)]
              /\ T' = [T EXCEPT ![s][l.hub] = @ \cup {note}]
           \/ final' = final /\ T' = T
    BY <1>4, Zenon DEF Cpu!Test
  <2>2. Held' = Held /\ Testing' = Testing /\ t \in Testing /\ Testing \subseteq Held /\ Held \subseteq Workers
    BY <2>1 DEF Held, Testing
  <2>3. l \in Label /\ s \in Slots
    <3>1. Lv[t] \in Seq(Label)
      OBVIOUS
    <3> QED BY <1>0, <2>1, <2>2, <3>1, HeadTail
  <2>4. l.hub \in Vertices /\ note \in [dist : Nat, hop : 0 .. K]
    BY <2>3 DEF Label
  <2>5. CASE final' = final /\ T' = T
    BY <1>0, <1>n, <2>1, <2>2, <2>5
  <2>6. CASE /\ final' = [final EXCEPT ![t] = Append(@, l)]
             /\ T' = [T EXCEPT ![s][l.hub] = @ \cup {note}]
    <3> HIDE DEF note, l, s
    <3>1. /\ final'[t] = Append(final[t], l) /\ final[t] \in Seq(Label)
          /\ \A u \in Workers : u # t => final'[u] = final[u]
      BY <2>6
    <3>2. ToSet(final'[t]) = ToSet(final[t]) \cup {l}
      BY <2>3, <3>1, Appended
    <3>3. /\ T' \in [Slots -> [Vertices -> SUBSET [dist : Nat, hop : 0 .. K]]]
          /\ \A q \in Slots : q # s => T'[q] = T[q]
          /\ T'[s] = [T[s] EXCEPT ![l.hub] = @ \cup {note}]
      BY <1>0, <2>3, <2>4, <2>6
    <3>4. ASSUME NEW m \in Vertices PROVE T'[s][m] = Noted(t, m)'
      <4>1. T[s] \in [Vertices -> SUBSET [dist : Nat, hop : 0 .. K]] /\ T[s][m] = Noted(t, m)
        BY <1>0, <2>2, <2>3 DEF s
      <4>2. T'[s][m] = IF m = l.hub THEN T[s][m] \cup {note} ELSE T[s][m]
        BY <3>3, <4>1
      <4>3. Noted(t, m)' = IF m = l.hub THEN Noted(t, m) \cup {note} ELSE Noted(t, m)
        BY <3>2 DEF Noted, note
      <4> QED BY <4>1, <4>2, <4>3
    <3>5. \A u \in Testing : \A m \in Vertices : T'[used'[u]][m] = Noted(u, m)'
      <4> SUFFICES ASSUME NEW u \in Testing, NEW m \in Vertices PROVE T'[used'[u]][m] = Noted(u, m)'
        OBVIOUS
      <4>1. CASE u = t
        BY <2>1, <3>4, <4>1 DEF s
      <4>2. CASE u # t
        <5>1. used[u] # s /\ used[u] \in Slots /\ u \in Workers
          BY <1>0, <2>2, <4>2 DEF s
        <5> QED BY <1>0, <1>n, <2>1, <3>1, <3>3, <4>2, <5>1
      <4> QED BY <4>1, <4>2
    <3>6. \A q \in Slots : (\A u \in Testing' : used'[u] # q) => T'[q] = NoNotes
      BY <1>0, <2>1, <2>2, <3>3 DEF s
    <3> QED BY <1>0, <2>1, <2>2, <3>3, <3>5, <3>6
  <2> QED BY <2>1, <2>5, <2>6
<1>5. CASE Cpu!Write(t)
  <2> DEFINE s == used[t]
             hubs == {l.hub : l \in ToSet(final[t])}
  <2>1. /\ pc[t] = "test" /\ pc' = [pc EXCEPT ![t] = "return"]
        /\ used' = used /\ final' = final /\ Qid' = Qid
        /\ T' = [T EXCEPT ![s] = [m \in Vertices |-> IF m \in hubs THEN {} ELSE @[m]]]
    BY <1>5, SameCpu DEF Cpu!Write
  <2>2. /\ Held' = Held /\ Testing' = Testing \ {t} /\ t \in Testing
        /\ Testing \subseteq Held /\ Held \subseteq Workers
    BY <2>1, Moved DEF Held, Testing
  <2>3. s \in Slots
    BY <1>0, <2>2
  <2>4. T'[s] = NoNotes /\ \A q \in Slots : q # s => T'[q] = T[q]
    <3>1. \A m \in Vertices : m \notin hubs => T[s][m] = {}
      <4>1. \A m \in Vertices : T[s][m] = Noted(t, m)
        BY <1>0, <2>2
      <4> QED BY <4>1 DEF Noted
    <3>2. T'[s] = [m \in Vertices |-> IF m \in hubs THEN {} ELSE T[s][m]]
      BY <1>0, <2>1, <2>3
    <3>3. \A q \in Slots : q # s => T'[q] = T[q]
      BY <1>0, <2>1, <2>3
    <3> HIDE DEF hubs, s
    <3> QED BY <3>1, <3>2, <3>3 DEF NoNotes
  <2>5. T' \in [Slots -> [Vertices -> SUBSET [dist : Nat, hop : 0 .. K]]]
    <3>1. NoNotes \in [Vertices -> SUBSET [dist : Nat, hop : 0 .. K]]
      BY DEF NoNotes
    <3>2. DOMAIN T' = Slots /\ T' = [q \in Slots |-> T'[q]]
      BY <1>0, <2>1
    <3>3. \A q \in Slots : T'[q] \in [Vertices -> SUBSET [dist : Nat, hop : 0 .. K]]
      BY <1>0, <2>4, <3>1
    <3> QED BY <3>2, <3>3
  <2> HIDE DEF hubs, s
  <2>6. \A u \in Testing' : \A m \in Vertices : T'[used'[u]][m] = Noted(u, m)'
    <3> SUFFICES ASSUME NEW u \in Testing', NEW m \in Vertices PROVE T'[used'[u]][m] = Noted(u, m)'
      OBVIOUS
    <3>1. u \in Testing /\ u # t /\ u \in Workers /\ used[u] # s /\ used[u] \in Slots
      BY <1>0, <2>2 DEF s
    <3> QED BY <1>0, <1>n, <2>1, <2>4, <3>1
  <2>7. \A q \in Slots : (\A u \in Testing' : used'[u] # q) => T'[q] = NoNotes
    <3> SUFFICES ASSUME NEW q \in Slots, \A u \in Testing' : used'[u] # q PROVE T'[q] = NoNotes
      OBVIOUS
    <3>1. CASE q = s
      BY <2>4, <3>1
    <3>2. CASE q # s
      <4>1. \A u \in Testing : used[u] # q
        BY <2>1, <2>2, <3>2 DEF s
      <4> QED BY <1>0, <2>4, <3>2, <4>1
    <3> QED BY <3>1, <3>2
  <2> QED BY <1>0, <2>1, <2>2, <2>5, <2>6, <2>7
<1>6. CASE Cpu!ReturnSlot(t)
  <2>1. /\ pc[t] = "return" /\ pc' = [pc EXCEPT ![t] = "idle"]
        /\ used' = used /\ final' = final /\ Qid' = Append(Qid, used[t]) /\ T' = T
    BY <1>6 DEF Cpu!ReturnSlot
  <2>2. /\ Held' = Held \ {t} /\ Testing' = Testing /\ t \in Held /\ t \notin Testing
        /\ Testing \subseteq Held /\ Held \subseteq Workers
    BY <2>1, Moved DEF Held, Testing
  <2>3. used[t] \in Slots
    BY <1>0, <2>2
  <2>4. /\ Append(Qid, used[t]) \in Seq(Slots)
        /\ \A i \in DOMAIN Qid : i \in DOMAIN Append(Qid, used[t])
                                 /\ Append(Qid, used[t])[i] = Qid[i] /\ i <= Len(Qid)
        /\ \A i \in DOMAIN Append(Qid, used[t]) :
             i \in DOMAIN Qid \/ (i = Len(Qid) + 1 /\ Append(Qid, used[t])[i] = used[t])
    BY <1>0, <2>3, Appended
  <2>5. \A i, j \in DOMAIN Qid' : Qid'[i] = Qid'[j] => i = j
    <3> SUFFICES ASSUME NEW i \in DOMAIN Qid', NEW j \in DOMAIN Qid', Qid'[i] = Qid'[j] PROVE i = j
      OBVIOUS
    <3>1. i \in DOMAIN Qid \/ (i = Len(Qid) + 1 /\ Qid'[i] = used[t])
      BY <2>1, <2>4
    <3>2. j \in DOMAIN Qid \/ (j = Len(Qid) + 1 /\ Qid'[j] = used[t])
      BY <2>1, <2>4
    <3>3. \A k \in DOMAIN Qid : Qid'[k] = Qid[k] /\ Qid[k] # used[t]
      BY <1>0, <2>1, <2>2, <2>4
    <3> QED BY <1>0, <3>1, <3>2, <3>3
  <2>6. \A u \in Held' : \A i \in DOMAIN Qid' : Qid'[i] # used'[u]
    <3> SUFFICES ASSUME NEW u \in Held', NEW i \in DOMAIN Qid' PROVE Qid'[i] # used'[u]
      OBVIOUS
    <3>1. (i \in DOMAIN Qid /\ Qid'[i] = Qid[i]) \/ Qid'[i] = used[t]
      BY <2>1, <2>4
    <3>2. u \in Held /\ u # t /\ used[u] # used[t]
      BY <1>0, <2>2
    <3> QED BY <1>0, <2>1, <3>1, <3>2
  <2>7. \A u \in Testing' : \A m \in Vertices : T'[used'[u]][m] = Noted(u, m)'
    BY <1>0, <1>n, <2>1, <2>2
  <2> QED BY <1>0, <2>1, <2>2, <2>4, <2>5, <2>6, <2>7
<1> QED BY <1>1, <1>2, <1>3, <1>4, <1>5, <1>6 DEF CpuCleans, Cpu!Step

(* The best meeting is no better than l just if no label of the hub meets  *)
(* one of those kept.                                                      *)
LEMMA Best ==
  ASSUME Scratch, LHybrid \in [Vertices -> Seq(Label)], final \in [Workers -> Seq(Label)],
         NEW t \in Testing, NEW l \in Label
  PROVE  /\ Cpu!BestMeeting(used[t], l) > l.dist =>
              \A a \in ToSet(LHybrid[l.hub]), b \in ToSet(final[t]) : ~Meet(a, b, l)
         /\ ~(Cpu!BestMeeting(used[t], l) > l.dist) /\ l.dist < Inf =>
              \E a \in ToSet(LHybrid[l.hub]), b \in ToSet(final[t]) : Meet(a, b, l)
<1> DEFINE s == used[t]
           As == ToSet(LHybrid[l.hub])
           Fs == ToSet(final[t])
           Sums1(a) == {a.dist + b.dist : b \in {y \in T[s][a.hub] : a.hop + y.hop <= l.hop}}
           S == {Inf} \cup UNION {Sums1(a) : a \in As}
<1>1. Cpu!BestMeeting(s, l) = Min(S)
  BY SameCpu DEF Cpu!BestMeeting
<1>2. As \subseteq Label /\ Fs \subseteq Label /\ l.hub \in Vertices /\ l.dist \in Nat
  <2>1. l.hub \in Vertices /\ l.dist \in Nat
    BY DEF Label
  <2>2. LHybrid[l.hub] \in Seq(Label) /\ final[t] \in Seq(Label)
    BY <2>1 DEF Testing
  <2>3. \A q \in Seq(Label) : ToSet(q) \subseteq Label
    BY DEF ToSet
  <2> QED BY <2>1, <2>2, <2>3
<1>3. \A m \in Vertices : T[s][m] = Noted(t, m)
  BY DEF Scratch
<1>t. \A a \in Label : a.hub \in Vertices /\ a.hop \in Nat /\ a.dist \in Nat
  BY Sizes DEF Label
<1> HIDE DEF As, Fs
<1>4. \A m \in Vertices : Noted(t, m) = {[dist |-> y.dist, hop |-> y.hop] : y \in {z \in Fs : z.hub = m}}
  BY DEF Noted, Fs
<1>5. ASSUME NEW a \in As, NEW b \in Fs, Meet(a, b, l) PROVE a.dist + b.dist \in S
  <2> DEFINE n == [dist |-> b.dist, hop |-> b.hop]
  <2>1. n \in T[s][a.hub]
    BY <1>2, <1>3, <1>4, <1>5, <1>t DEF Meet
  <2>2. n.dist = b.dist /\ n.hop = b.hop
    OBVIOUS
  <2> HIDE DEF n
  <2>3. a.dist + n.dist \in Sums1(a)
    BY <1>5, <2>1, <2>2 DEF Meet
  <2> QED BY <2>2, <2>3
<1>6. ASSUME NEW d \in S
      PROVE  d \in Nat /\ (d = Inf \/ \E a \in As, b \in Fs :
                             a.hub = b.hub /\ a.hop + b.hop <= l.hop /\ d = a.dist + b.dist)
  <2>1. CASE d = Inf
    BY <2>1, Sizes
  <2>2. CASE d # Inf
    <3>1. PICK a \in As : d \in Sums1(a)
      BY <2>2
    <3>2. PICK y \in T[s][a.hub] : a.hop + y.hop <= l.hop /\ d = a.dist + y.dist
      BY <3>1
    <3>3. a \in Label /\ a.hub \in Vertices
      BY <1>2, <1>t
    <3>4. PICK b \in Fs : b.hub = a.hub /\ y = [dist |-> b.dist, hop |-> b.hop]
      BY <1>3, <1>4, <3>2, <3>3
    <3>5. y.dist = b.dist /\ y.hop = b.hop /\ b \in Label
      BY <1>2, <3>4
    <3>6. d \in Nat
      BY <1>t, <3>2, <3>3, <3>5
    <3> QED BY <3>2, <3>4, <3>5, <3>6
  <2> QED BY <2>1, <2>2
<1> HIDE DEF S
<1>7. Min(S) \in S /\ \A d \in S : Min(S) <= d
  <2>1. S \subseteq Nat /\ S # {}
    BY <1>6 DEF S
  <2> QED BY <2>1, MinNatural
<1> DEFINE best == Min(S)
<1>8. best \in Nat
  BY <1>6, <1>7
<1> HIDE DEF best
<1>9. ASSUME best > l.dist, NEW a \in As, NEW b \in Fs, Meet(a, b, l) PROVE FALSE
  <2>1. a.dist + b.dist \in S /\ a.dist + b.dist <= l.dist /\ a \in Label /\ b \in Label
    BY <1>2, <1>5, <1>9 DEF Meet
  <2>2. best <= a.dist + b.dist /\ a.dist + b.dist \in Nat
    BY <1>7, <1>t, <2>1 DEF best
  <2> QED BY <1>2, <1>8, <1>9, <2>1, <2>2
<1>10. ASSUME ~(best > l.dist), l.dist < Inf
       PROVE  \E a \in As, b \in Fs : Meet(a, b, l)
  <2>1. best <= l.dist /\ best # Inf
    BY <1>2, <1>8, <1>10, Sizes
  <2>2. PICK a \in As, b \in Fs : a.hub = b.hub /\ a.hop + b.hop <= l.hop /\ best = a.dist + b.dist
    BY <1>6, <1>7, <2>1 DEF best
  <2> QED BY <2>1, <2>2 DEF Meet
<1> QED BY <1>1, <1>9, <1>10 DEF As, Fs, best

LEMMA MeetLabels ==
  /\ \A a, b, l \in Label : Meet(a, b, l) <=> Meet(b, a, l)
  /\ \A q \in Seq(Label) : ToSet(q) \subseteq Label
<1>1. ASSUME NEW a \in Label, NEW b \in Label, NEW l \in Label
      PROVE  Meet(a, b, l) <=> Meet(b, a, l)
  <2>1. a.hop \in Nat /\ b.hop \in Nat /\ a.dist \in Nat /\ b.dist \in Nat
    BY Sizes DEF Label
  <2>2. a.hop + b.hop = b.hop + a.hop /\ a.dist + b.dist = b.dist + a.dist
    BY <2>1
  <2> QED BY <2>2, Zenon DEF Meet
<1> QED BY <1>1 DEF ToSet

(* A needed label passes its test: what was kept of its vertex, and the    *)
(* hub's row, are labels generation left.                                  *)
LEMMA NeededPasses ==
  ASSUME NEW x \in Indexes, Scratch, Tasks, Rows(x), Tests(x), NEW t \in Testing,
         Lv[t] # <<>>, Head(Lv[t]) \in Needs(x, vertex[t])
  PROVE  Cpu!BestMeeting(used[t], Head(Lv[t])) > Head(Lv[t]).dist
<1> DEFINE v == vertex[t]
           l == Head(Lv[t])
<1>1. v \in Vertices /\ l \in Given(x, v) /\ l \in Label /\ l.hub \in Vertices
      /\ l \in ToSet(Lv[t])
  <2>1. v \in Vertices
    BY DEF Tasks, Testing
  <2>2. l \in Given(x, v)
    BY <2>1, GivenIs
  <2>3. l \in Label
    BY <2>1, <2>2, GivenIs
  <2>4. Lv[t] \in Seq(Label)
    BY DEF Tests, Testing
  <2>5. l \in ToSet(Lv[t])
    BY <2>4, HeadTail
  <2> QED BY <2>1, <2>2, <2>3, <2>5 DEF Label
<1>2. l.dist < Inf
  <2> DEFINE D == HopDist(x.w)
  <2>1. l.dist = D[l.hop][<<l.hub, v>>] /\ Canonical(D, l.hub, v, l.hop)
    BY <1>1, NeedsAre
  <2> QED BY <2>1 DEF Canonical
<1> SUFFICES ASSUME ~(Cpu!BestMeeting(used[t], l) > l.dist) PROVE FALSE
  OBVIOUS
<1>3. LHybrid \in [Vertices -> Seq(Label)] /\ final \in [Workers -> Seq(Label)]
  BY DEF Rows, Tests
<1> HIDE DEF l, v
<1>4. PICK a \in ToSet(LHybrid[l.hub]), b \in ToSet(final[t]) : Meet(a, b, l)
  BY <1>1, <1>2, <1>3, Best
<1>5. a \in Given(x, l.hub) /\ b \in Given(x, v)
  BY <1>1 DEF Rows, Tests, v
<1>6. b = l
  <2>1. /\ v \in Vertices /\ l \in Needs(x, v)
        /\ a \in Given(x, l.hub) /\ b \in Given(x, v) /\ Meet(a, b, l)
    BY <1>1, <1>4, <1>5 DEF l, v
  <2>2. b = l /\ a.hop = 0
    BY <2>1, NeverAnswered, ZenonT(30)
  <2> QED BY <2>2
<1>7. LabelLess(b, l)
  BY <1>1 DEF Tests
<1> QED BY <1>1, <1>6, <1>7, LabelOrder

LEMMA IncreasingTail ==
  ASSUME NEW q \in Seq(Label), q # <<>>, Increasing(q)
  PROVE  Increasing(Tail(q)) /\ \A b \in ToSet(Tail(q)) : LabelLess(Head(q), b)
<1>1. /\ 1 \in DOMAIN q /\ Head(q) = q[1]
      /\ \A i \in DOMAIN Tail(q) : i \in Nat /\ i > 0 /\ i + 1 \in DOMAIN q
                                   /\ Tail(q)[i] = q[i + 1]
  BY HeadTail
<1>2. Increasing(Tail(q))
  <2> SUFFICES ASSUME NEW i \in DOMAIN Tail(q), NEW j \in DOMAIN Tail(q), i < j
               PROVE  LabelLess(Tail(q)[i], Tail(q)[j])
    BY DEF Increasing
  <2>1. i + 1 < j + 1 /\ i + 1 \in DOMAIN q /\ j + 1 \in DOMAIN q
    BY <1>1
  <2>2. LabelLess(q[i + 1], q[j + 1])
    BY <2>1 DEF Increasing
  <2> QED BY <1>1, <2>2
<1>3. ASSUME NEW b \in ToSet(Tail(q)) PROVE LabelLess(Head(q), b)
  <2>1. PICK i \in DOMAIN Tail(q) : b = Tail(q)[i]
    BY DEF ToSet
  <2>2. 1 < i + 1 /\ i + 1 \in DOMAIN q
    BY <1>1
  <2>3. LabelLess(q[1], q[i + 1])
    BY <1>1, <2>2 DEF Increasing
  <2> QED BY <1>1, <2>1, <2>3
<1> QED BY <1>2, <1>3

LEMMA IncreasingAppend ==
  ASSUME NEW q \in Seq(Label), NEW l \in Label, Increasing(q),
         \A a \in ToSet(q) : LabelLess(a, l)
  PROVE  Increasing(Append(q, l))
<1>1. /\ Append(q, l) \in Seq(Label)
      /\ \A i \in DOMAIN q : i \in DOMAIN Append(q, l) /\ Append(q, l)[i] = q[i] /\ i <= Len(q)
      /\ \A i \in DOMAIN Append(q, l) :
           i \in DOMAIN q \/ (i = Len(q) + 1 /\ Append(q, l)[i] = l)
  BY Appended
<1>2. Len(q) \in Nat /\ \A i \in DOMAIN q : q[i] \in ToSet(q)
  BY DEF ToSet
<1> SUFFICES ASSUME NEW i \in DOMAIN Append(q, l), NEW j \in DOMAIN Append(q, l), i < j
             PROVE  LabelLess(Append(q, l)[i], Append(q, l)[j])
  BY DEF Increasing
<1>3. i \in DOMAIN q
  <2> SUFFICES ASSUME i = Len(q) + 1 PROVE FALSE
    BY <1>1
  <2>1. j <= Len(q) + 1 /\ j \in Nat
    BY <1>1, <1>2
  <2> QED BY <1>2, <2>1
<1>4. CASE j \in DOMAIN q
  BY <1>1, <1>3, <1>4 DEF Increasing
<1>5. CASE j = Len(q) + 1 /\ Append(q, l)[j] = l
  BY <1>1, <1>2, <1>3, <1>5
<1> QED BY <1>1, <1>4, <1>5

LEMMA LeanAppend ==
  ASSUME NEW rows, NEW q \in Seq(Label), NEW l \in Label, Lean(rows, q),
         \A a \in ToSet(q) : LabelLess(a, l) /\ \A b \in ToSet(rows[l.hub]) : ~Meet(a, b, l)
  PROVE  Lean(rows, Append(q, l))
<1>1. ToSet(Append(q, l)) = ToSet(q) \cup {l} /\ ToSet(q) \subseteq Label
  BY Appended, MeetLabels
<1>2. ~LabelLess(l, l) /\ \A a \in ToSet(q) : ~LabelLess(l, a)
  BY <1>1, LabelOrder
<1> QED BY <1>1, <1>2 DEF Lean

LEMMA PendingSteps ==
  ASSUME Control, Tasks, NEW t \in Workers, CpuCleans(t), NEW v \in Vertices
  PROVE  /\ Cpu!Write(t) => (Pending(v)' <=> Pending(v) /\ v # vertex[t])
         /\ ~Cpu!Write(t) => (Pending(v)' <=> Pending(v))
         /\ pc[t] \in {"copy", "test"} => Pending(vertex[t])
<1>0. Cpu!Step(t) /\ first' = first
  BY DEF CpuCleans, loop
<1>1. /\ \A u \in Workers : u # t => pc'[u] = pc[u] /\ vertex'[u] = vertex[u]
  BY <1>0 DEF Tasks, Cpu!Step, Cpu!TakeTask, Cpu!TakeSlot, Cpu!Copy, Cpu!Test, Cpu!Write, Cpu!ReturnSlot
<1>2. CASE Cpu!Write(t)
  <2>1. pc[t] = "test" /\ pc'[t] = "return" /\ vertex'[t] = vertex[t] /\ finished' = finished
    BY <1>2 DEF Cpu!Write, Tasks
  <2>2. ~ (Cpu!Write(t)) => (Pending(v)' <=> Pending(v))
    BY <1>2
  <2> QED BY <1>0, <1>1, <2>1, <2>2 DEF Pending, Tasks, Busy
<1>3. CASE Cpu!ReturnSlot(t)
  <2>1. pc[t] = "return" /\ pc'[t] = "idle" /\ vertex' = vertex /\ finished' = finished \cup {vertex[t]}
    BY <1>3 DEF Cpu!ReturnSlot, Tasks
  <2>2. ~Cpu!Write(t)
    BY <2>1 DEF Cpu!Write
  <2> QED BY <1>0, <1>1, <2>1, <2>2 DEF Pending
<1>4. CASE Cpu!TakeTask(t) \/ Cpu!TakeSlot(t) \/ Cpu!Copy(t) \/ Cpu!Test(t)
  <2>1. pc[t] # "return" /\ pc'[t] # "return" /\ finished' = finished
    BY <1>4 DEF Cpu!TakeTask, Cpu!TakeSlot, Cpu!Copy, Cpu!Test, Tasks
  <2>2. ~Cpu!Write(t)
    <3>1. pc'[t] # "return"
      BY <2>1
    <3> QED BY <3>1 DEF Cpu!Write, Tasks
  <2>3. pc[t] \in {"copy", "test"} => Pending(vertex[t])
    BY <2>1 DEF Pending, Tasks, Busy
  <2> QED BY <1>0, <1>1, <2>1, <2>2, <2>3 DEF Pending
<1> QED BY <1>0, <1>2, <1>3, <1>4 DEF Cpu!Step

LEMMA RowSteps ==
  ASSUME NEW x \in Indexes, Control, Tasks, Scratch, Rows(x), Tests(x), Leaner,
         NEW t \in Workers, CpuCleans(t)
  PROVE  Rows(x)' /\ Tests(x)' /\ Leaner'
<1> DEFINE v == vertex[t]
<1>0. /\ Cpu!Step(t) /\ first' = first /\ ranges' = ranges
  BY DEF CpuCleans, loop, gpuVars
<1>1. /\ LHybrid \in [Vertices -> Seq(Label)] /\ v \in Vertices
      /\ \A u \in Vertices :
           /\ ToSet(LHybrid[u]) \subseteq Given(x, u) /\ Increasing(LHybrid[u])
           /\ Pending(u) => ToSet(LHybrid[u]) = Given(x, u)
           /\ first <= u => Needs(x, u) \subseteq ToSet(LHybrid[u])
  BY DEF Rows, Tasks
<1>2. Lv \in [Workers -> Seq(Label)] /\ final \in [Workers -> Seq(Label)]
  BY DEF Tests
<1>3. ASSUME NEW u \in Testing
      PROVE  /\ u \in Workers /\ vertex[u] \in Vertices
             /\ ToSet(final[u]) \cup ToSet(Lv[u]) \subseteq ToSet(LHybrid[vertex[u]])
             /\ Needs(x, vertex[u]) \subseteq ToSet(final[u]) \cup ToSet(Lv[u])
             /\ Increasing(final[u]) /\ Increasing(Lv[u])
             /\ \A a \in ToSet(final[u]), b \in ToSet(Lv[u]) : LabelLess(a, b)
  BY DEF Tests, Testing, Tasks
<1>4. \A u \in Workers : pc[u] = "return" => LHybrid[vertex[u]] = final[u]
  BY DEF Tests
<1>5. ranges = <<>> =>
        /\ \A u \in Vertices : ~Pending(u) => Lean(LHybrid, LHybrid[u])
        /\ \A u \in Testing : Lean(LHybrid, final[u])
  BY DEF Leaner
<1>6. /\ Cpu!Write(t) => \A u \in Vertices : (Pending(u)' <=> Pending(u) /\ u # v)
      /\ ~Cpu!Write(t) => \A u \in Vertices : (Pending(u)' <=> Pending(u))
      /\ pc[t] \in {"copy", "test"} => Pending(v)
  BY <1>1, PendingSteps
<1>7. pc[t] # "idle" => first <= v
  BY DEF Tasks, Busy
<1>8. CASE Cpu!TakeTask(t) \/ Cpu!TakeSlot(t)
  <2>1. /\ LHybrid' = LHybrid /\ Lv' = Lv /\ final' = final /\ ~Cpu!Write(t)
        /\ pc[t] \in {"idle", "slot"}
        /\ \E p \in {"slot", "copy"} : pc' = [pc EXCEPT ![t] = p]
        /\ \A u \in Workers : u # t => vertex'[u] = vertex[u]
    BY <1>8 DEF Cpu!TakeTask, Cpu!TakeSlot, Cpu!Write, Tasks
  <2>2. Testing' = Testing /\ t \notin Testing
    BY <2>1, Moved DEF Testing
  <2>3. \A u \in Testing : vertex'[u] = vertex[u]
    BY <2>1, <2>2 DEF Testing
  <2>4. \A u \in Workers : pc'[u] = "return" => pc[u] = "return" /\ vertex'[u] = vertex[u]
    BY <2>1 DEF Tasks
  <2>5. Rows(x)'
    BY <1>0, <1>1, <1>6, <2>1 DEF Rows
  <2>6. Tests(x)'
    BY <1>2, <1>3, <1>4, <2>1, <2>2, <2>3, <2>4 DEF Tests
  <2>7. Leaner'
    BY <1>0, <1>5, <1>6, <2>1, <2>2 DEF Leaner
  <2> QED BY <2>5, <2>6, <2>7
<1>9. CASE Cpu!Copy(t)
  <2>1. /\ pc[t] = "copy" /\ pc' = [pc EXCEPT ![t] = "test"] /\ LHybrid' = LHybrid
        /\ Lv' = [Lv EXCEPT ![t] = LHybrid[v]] /\ final' = [final EXCEPT ![t] = <<>>]
        /\ vertex' = vertex
    BY <1>9 DEF Cpu!Copy
  <2>2. Testing' = Testing \cup {t} /\ t \notin Testing /\ ~Cpu!Write(t)
    BY <2>1, Moved DEF Testing, Cpu!Write
  <2>3. /\ Lv'[t] = LHybrid[v] /\ final'[t] = <<>>
        /\ \A u \in Workers : u # t => Lv'[u] = Lv[u] /\ final'[u] = final[u] /\ pc'[u] = pc[u]
        /\ pc'[t] = "test"
    BY <1>2, <2>1, Moved
  <2>4. Lv' \in [Workers -> Seq(Label)] /\ final' \in [Workers -> Seq(Label)]
    <3>1. LHybrid[v] \in Seq(Label) /\ <<>> \in Seq(Label)
      BY <1>1
    <3> QED BY <1>2, <2>1, <3>1
  <2>5. Rows(x)'
    BY <1>0, <1>1, <1>6, <2>1, <2>2 DEF Rows
  <2>6. ToSet(final'[t]) = {} /\ Increasing(final'[t])
    BY <2>3 DEF ToSet, Increasing
  <2>7. ASSUME NEW u \in Testing'
        PROVE  /\ ToSet(final'[u]) \cup ToSet(Lv'[u]) \subseteq ToSet(LHybrid'[vertex'[u]])
               /\ Needs(x, vertex'[u]) \subseteq ToSet(final'[u]) \cup ToSet(Lv'[u])
               /\ Increasing(final'[u]) /\ Increasing(Lv'[u])
               /\ \A a \in ToSet(final'[u]), b \in ToSet(Lv'[u]) : LabelLess(a, b)
    <3>1. CASE u = t
      BY <1>1, <1>7, <2>1, <2>3, <2>6, <3>1
    <3>2. CASE u # t
      BY <1>3, <2>1, <2>2, <2>3, <3>2
    <3> QED BY <3>1, <3>2
  <2>8. \A u \in Workers : pc'[u] = "return" => LHybrid'[vertex'[u]] = final'[u]
    BY <1>4, <2>1, <2>3
  <2>9. Tests(x)'
    BY <2>4, <2>7, <2>8 DEF Tests
  <2>10. Leaner'
    <3>1. Lean(LHybrid', final'[t])
      BY <2>6 DEF Lean
    <3> QED BY <1>0, <1>3, <1>5, <1>6, <2>1, <2>2, <2>3, <3>1 DEF Leaner
  <2> QED BY <2>5, <2>9, <2>10
<1>10. CASE Cpu!Test(t)
  <2> DEFINE l == Head(Lv[t])
  <2>1. /\ pc[t] = "test" /\ pc' = pc /\ LHybrid' = LHybrid /\ vertex' = vertex /\ Lv[t] # <<>>
        /\ Lv' = [Lv EXCEPT ![t] = Tail(Lv[t])]
    BY <1>10, Zenon DEF Cpu!Test
  <2>2. IF Cpu!BestMeeting(used[t], l) > l.dist
        THEN final' = [final EXCEPT ![t] = Append(@, l)]
        ELSE final' = final
    BY <1>10, Zenon DEF Cpu!Test
  <2>3. Testing' = Testing /\ t \in Testing /\ ~Cpu!Write(t)
    <3>1. Testing' = Testing /\ t \in Testing
      BY <2>1 DEF Testing
    <3>2. ~Cpu!Write(t)
      BY <2>1 DEF Cpu!Write
    <3> QED BY <3>1, <3>2
  <2>4. /\ Lv[t] \in Seq(Label) /\ final[t] \in Seq(Label) /\ l \in Label /\ Tail(Lv[t]) \in Seq(Label)
        /\ ToSet(Lv[t]) = {l} \cup ToSet(Tail(Lv[t]))
        /\ Increasing(Tail(Lv[t])) /\ \A b \in ToSet(Tail(Lv[t])) : LabelLess(l, b)
    <3>1. Lv[t] \in Seq(Label) /\ final[t] \in Seq(Label) /\ Increasing(Lv[t])
      BY <1>2, <1>3, <2>3
    <3> QED BY <2>1, <3>1, HeadTail, IncreasingTail
  <2>5. /\ \A a \in ToSet(final[t]) : LabelLess(a, l)
        /\ ToSet(final[t]) \subseteq Label
    BY <1>3, <2>3, <2>4, MeetLabels
  <2>6. l \in Needs(x, v) => Cpu!BestMeeting(used[t], l) > l.dist
    BY <2>1, <2>3, NeededPasses
  <2> HIDE DEF l, v
  <2>7. Lv' \in [Workers -> Seq(Label)] /\ Lv'[t] = Tail(Lv[t])
        /\ \A u \in Workers : u # t => Lv'[u] = Lv[u]
    BY <1>2, <2>1, <2>4
  <2>8. Rows(x)'
    BY <1>0, <1>1, <1>6, <2>1, <2>3 DEF Rows
  <2>9. CASE Cpu!BestMeeting(used[t], l) > l.dist
    <3>1. /\ final' \in [Workers -> Seq(Label)] /\ final'[t] = Append(final[t], l)
          /\ \A u \in Workers : u # t => final'[u] = final[u]
      <4>1. Append(final[t], l) \in Seq(Label)
        BY <2>4
      <4> QED BY <1>2, <2>2, <2>9, <4>1
    <3>2. ToSet(final'[t]) = ToSet(final[t]) \cup {l} /\ Increasing(final'[t])
      BY <1>3, <2>3, <2>4, <2>5, <3>1, Appended, IncreasingAppend
    <3>3. ASSUME NEW u \in Testing'
          PROVE  /\ ToSet(final'[u]) \cup ToSet(Lv'[u]) \subseteq ToSet(LHybrid'[vertex'[u]])
                 /\ Needs(x, vertex'[u]) \subseteq ToSet(final'[u]) \cup ToSet(Lv'[u])
                 /\ Increasing(final'[u]) /\ Increasing(Lv'[u])
                 /\ \A a \in ToSet(final'[u]), b \in ToSet(Lv'[u]) : LabelLess(a, b)
      <4>1. CASE u = t
        <5>1. \A a \in ToSet(final'[t]), b \in ToSet(Lv'[t]) : LabelLess(a, b)
          BY <1>3, <2>3, <2>4, <2>7, <3>2
        <5> QED BY <1>3, <2>1, <2>3, <2>4, <2>7, <3>2, <4>1, <5>1
      <4>2. CASE u # t
        BY <1>3, <2>1, <2>3, <2>7, <3>1, <4>2
      <4> QED BY <4>1, <4>2
    <3>4. \A u \in Workers : pc'[u] = "return" => LHybrid'[vertex'[u]] = final'[u]
      BY <1>4, <2>1, <3>1
    <3>5. Tests(x)'
      BY <2>7, <3>1, <3>3, <3>4 DEF Tests
    <3>6. ranges = <<>> => Lean(LHybrid, final'[t])
      <4>1. ASSUME NEW a \in ToSet(final[t]), NEW b \in ToSet(LHybrid[l.hub]) PROVE ~Meet(a, b, l)
        <5>1. ~Meet(b, a, l)
          BY <1>1, <1>2, <2>3, <2>4, <2>9, Best
        <5>2. l.hub \in Vertices
          BY <2>4 DEF Label
        <5>3. b \in Label /\ a \in Label
          BY <1>1, <2>5, <5>2, MeetLabels
        <5> QED BY <2>4, <5>1, <5>3, MeetLabels
      <4> QED BY <1>5, <2>3, <2>4, <2>5, <3>1, <4>1, LeanAppend
    <3>7. Leaner'
      BY <1>0, <1>3, <1>5, <1>6, <2>1, <2>3, <3>1, <3>6 DEF Leaner
    <3> QED BY <2>8, <3>5, <3>7
  <2>10. CASE ~(Cpu!BestMeeting(used[t], l) > l.dist)
    <3>1. final' = final /\ l \notin Needs(x, v)
      BY <2>2, <2>6, <2>10
    <3>2. ASSUME NEW u \in Testing'
          PROVE  /\ ToSet(final'[u]) \cup ToSet(Lv'[u]) \subseteq ToSet(LHybrid'[vertex'[u]])
                 /\ Needs(x, vertex'[u]) \subseteq ToSet(final'[u]) \cup ToSet(Lv'[u])
                 /\ Increasing(final'[u]) /\ Increasing(Lv'[u])
                 /\ \A a \in ToSet(final'[u]), b \in ToSet(Lv'[u]) : LabelLess(a, b)
      <4>1. CASE u = t
        BY <1>3, <2>1, <2>3, <2>4, <2>7, <3>1, <4>1 DEF v
      <4>2. CASE u # t
        BY <1>3, <2>1, <2>3, <2>7, <3>1, <4>2
      <4> QED BY <4>1, <4>2
    <3>3. Tests(x)'
      BY <1>2, <1>4, <2>1, <2>7, <3>1, <3>2 DEF Tests
    <3>4. Leaner'
      BY <1>0, <1>5, <1>6, <2>1, <2>3, <3>1 DEF Leaner
    <3> QED BY <2>8, <3>3, <3>4
  <2> QED BY <2>9, <2>10
<1>11. CASE Cpu!Write(t)
  <2>1. /\ pc[t] = "test" /\ pc' = [pc EXCEPT ![t] = "return"] /\ Lv[t] = <<>>
        /\ LHybrid' = [LHybrid EXCEPT ![v] = final[t]]
        /\ Lv' = Lv /\ final' = final /\ vertex' = vertex
    BY <1>11 DEF Cpu!Write
  <2>2. Testing' = Testing \ {t} /\ t \in Testing
    BY <2>1, Moved DEF Testing
  <2>3. /\ final[t] \in Seq(Label) /\ ToSet(Lv[t]) = {}
        /\ ToSet(final[t]) \subseteq ToSet(LHybrid[v]) /\ Needs(x, v) \subseteq ToSet(final[t])
        /\ Increasing(final[t])
    <3>1. ToSet(Lv[t]) = {}
      BY <2>1 DEF ToSet
    <3> QED BY <1>2, <1>3, <2>2, <3>1
  <2>4. /\ LHybrid' \in [Vertices -> Seq(Label)] /\ LHybrid'[v] = final[t]
        /\ \A u \in Vertices : u # v => LHybrid'[u] = LHybrid[u]
    BY <1>1, <2>1, <2>3
  <2>5. \A u \in Testing' : u \in Testing /\ vertex[u] # v
    BY <2>2 DEF Tasks, Busy, Testing
  <2>6. \A u \in Workers : pc[u] = "return" => vertex[u] # v
    BY <1>6, <2>1 DEF Pending
  <2>7. Rows(x)'
    <3>1. ASSUME NEW u \in Vertices
          PROVE  /\ ToSet(LHybrid'[u]) \subseteq Given(x, u) /\ Increasing(LHybrid'[u])
                 /\ Pending(u)' => ToSet(LHybrid'[u]) = Given(x, u)
                 /\ first <= u => Needs(x, u) \subseteq ToSet(LHybrid'[u])
      <4>1. CASE u = v
        <5>1. ~Pending(u)'
          BY <1>6, <1>11, <4>1
        <5> QED BY <1>1, <2>3, <2>4, <4>1, <5>1
      <4>2. CASE u # v
        BY <1>1, <1>6, <1>11, <2>4, <4>2
      <4> QED BY <4>1, <4>2
    <3> QED BY <1>0, <2>4, <3>1 DEF Rows
  <2>8. Tests(x)'
    <3>1. \A u \in Workers : pc'[u] = "return" => LHybrid'[vertex'[u]] = final'[u]
      <4> SUFFICES ASSUME NEW u \in Workers, pc'[u] = "return"
                   PROVE  LHybrid'[vertex'[u]] = final'[u]
        OBVIOUS
      <4>1. CASE u = t
        BY <2>1, <2>4, <4>1
      <4>2. CASE u # t
        <5>1. pc[u] = "return" /\ vertex[u] \in Vertices
          BY <2>1, <4>2 DEF Tasks
        <5> QED BY <1>4, <2>1, <2>4, <2>6, <5>1
      <4> QED BY <4>1, <4>2
    <3>2. \A u \in Testing' : LHybrid'[vertex'[u]] = LHybrid[vertex[u]]
      BY <1>3, <2>1, <2>4, <2>5
    <3> QED BY <1>2, <1>3, <2>1, <2>5, <3>1, <3>2 DEF Tests
  <2>9. \A u \in Vertices : ToSet(LHybrid'[u]) \subseteq ToSet(LHybrid[u])
    BY <2>3, <2>4
  <2>10. \A q \in Seq(Label) : Lean(LHybrid, q) => Lean(LHybrid', q)
    <3>1. \A q \in Seq(Label) : \A l \in ToSet(q) : l.hub \in Vertices
      BY MeetLabels DEF Label
    <3> QED BY <2>9, <3>1 DEF Lean
  <2>11. Leaner'
    <3> SUFFICES ASSUME ranges = <<>>
                 PROVE  /\ \A u \in Vertices : ~Pending(u)' => Lean(LHybrid', LHybrid'[u])
                        /\ \A u \in Testing' : Lean(LHybrid', final'[u])
      BY <1>0 DEF Leaner
    <3>1. \A u \in Testing : Lean(LHybrid', final[u])
      BY <1>2, <1>3, <1>5, <2>10
    <3>2. ASSUME NEW u \in Vertices, ~Pending(u)' PROVE Lean(LHybrid', LHybrid'[u])
      <4>1. CASE u = v
        BY <2>2, <2>4, <3>1, <4>1
      <4>2. CASE u # v
        BY <1>1, <1>5, <1>6, <1>11, <2>4, <2>10, <3>2, <4>2
      <4> QED BY <4>1, <4>2
    <3> QED BY <2>1, <2>5, <3>1, <3>2
  <2> QED BY <2>7, <2>8, <2>11
<1>12. CASE Cpu!ReturnSlot(t)
  <2>1. /\ pc[t] = "return" /\ pc' = [pc EXCEPT ![t] = "idle"] /\ LHybrid' = LHybrid
        /\ Lv' = Lv /\ final' = final /\ vertex' = vertex /\ ~Cpu!Write(t)
    BY <1>12 DEF Cpu!ReturnSlot, Cpu!Write
  <2>2. Testing' = Testing /\ \A u \in Workers : pc'[u] = "return" => pc[u] = "return"
    BY <2>1, Moved DEF Testing, Tasks
  <2>3. Rows(x)'
    BY <1>0, <1>1, <1>6, <2>1 DEF Rows
  <2>4. Tests(x)'
    BY <1>2, <1>3, <1>4, <2>1, <2>2 DEF Tests
  <2>5. Leaner'
    BY <1>0, <1>5, <1>6, <2>1, <2>2 DEF Leaner
  <2> QED BY <2>3, <2>4, <2>5
<1> QED BY <1>0, <1>8, <1>9, <1>10, <1>11, <1>12 DEF Cpu!Step

(* What the GPU's array says of the vertices no range has reached.         *)
LEMMA Untouched ==
  ASSUME NEW x \in Indexes, Array(x), first \in Nat, NEW v \in Vertices, first <= v
  PROVE  /\ Gpu!Cleaned(v) = {}
         /\ FoundAt(v) \subseteq 1 .. Count(x) /\ \A i \in FoundAt(v) : Row(x)[i].to = v
         /\ kernel # "update" =>
              /\ \A i \in FoundAt(v) : LClean[i].to = v /\ LClean[i] = Row(x)[i]
              /\ Found(v) = Given(x, v)
<1>0. Count(x) \in Nat /\ v \in Nat
  BY RowIs, Sizes DEF Vertices
<1>1. Gpu!Cleaned(v) = {}
  <2>1. \A i \in Past(x) : LClean[i].to # v
    <3>1. ASSUME NEW i \in Past(x)
          PROVE  LClean[i].to < first /\ LClean[i].to \in Nat
      <4>1. LClean[i] \in AllWords(x) /\ LClean[i].to < first
        BY DEF Array, Past
      <4>2. LClean[i].to \in Vertices
        BY <4>1, WordsAre DEF Word
      <4> QED BY <4>1, <4>2 DEF Vertices
    <3> QED BY <1>0, <3>1
  <2>2. Gpu!InRanges \subseteq Past(x)
    BY DEF Array
  <2> QED BY <2>1, <2>2 DEF Gpu!Cleaned
<1>2. start[v] = Begin(x, v) /\ end[v] = Stop(x, v)
  BY DEF Array
<1>3. /\ Begin(x, v) \in 1 .. Count(x) /\ Stop(x, v) \in 1 .. Count(x) + 1
      /\ \A i \in 1 .. Count(x) : Row(x)[i].to = v <=> Begin(x, v) <= i /\ i < Stop(x, v)
  BY Blocks
<1>4. FoundAt(v) \subseteq 1 .. Count(x)
      /\ \A i \in 1 .. Count(x) : i \in FoundAt(v) <=> Row(x)[i].to = v
  BY <1>0, <1>2, <1>3 DEF FoundAt
<1>5. ASSUME kernel # "update"
      PROVE  /\ \A i \in FoundAt(v) : LClean[i].to = v /\ LClean[i] = Row(x)[i]
             /\ Found(v) = Given(x, v)
  <2>1. \A i \in FoundAt(v) : LClean[i] = Row(x)[i] /\ Row(x)[i] \in AllWords(x)
    <3>1. \A i \in FoundAt(v) : i \notin Past(x)
      BY <1>0, <1>4 DEF Past
    <3> QED BY <1>4, <1>5, <3>1, RowTo DEF Array
  <2>2. ASSUME NEW i \in FoundAt(v) PROVE Gpu!LabelOf(LClean[i]) \in Given(x, v)
    BY <1>4, <2>1, WordsAre, SameWords
  <2>3. ASSUME NEW l \in Given(x, v) PROVE \E i \in FoundAt(v) : l = Gpu!LabelOf(LClean[i])
    <3>1. /\ WordOf(v, l) \in AllWords(x) /\ WordOf(v, l).to = v /\ LabelIn(WordOf(v, l)) = l
      BY WordsAre
    <3>2. PICK i \in 1 .. Count(x) : Row(x)[i] = WordOf(v, l)
      BY <3>1, RowIs
    <3> QED BY <1>4, <2>1, <3>1, <3>2, SameWords
  <2> QED BY <1>4, <2>1, <2>2, <2>3 DEF Found
<1> QED BY <1>1, <1>4, <1>5

LEMMA GpuStays ==
  ASSUME NEW x \in Indexes, Array(x), Settled(x), OnGpu(x), LeanCleaned(x),
         UNCHANGED gpuVars, first' = first, turn # "gpu", turn' # "gpu",
         \A v \in Vertices : v < first => LHybrid'[v] = LHybrid[v]
  PROVE  Array(x)' /\ Settled(x)' /\ OnGpu(x)' /\ LeanCleaned(x)'
<1>1. /\ kernel' = kernel /\ LClean' = LClean /\ start' = start /\ end' = end /\ lo' = lo /\ hi' = hi
      /\ mark' = mark /\ has' = has /\ ranges' = ranges
  BY DEF gpuVars
<1>2. /\ Past(x)' = Past(x) /\ Current(x)' = Current(x) /\ Gpu!InRanges' = Gpu!InRanges
      /\ \A v \in Vertices : /\ FoundAt(v)' = FoundAt(v) /\ Found(v)' = Found(v)
                             /\ Gpu!Cleaned(v)' = Gpu!Cleaned(v)
  BY <1>1 DEF Past, Current, Gpu!InRanges, FoundAt, Found, Gpu!Cleaned
<1>3. \A v \in Vertices : v < first => Kept(v)' = Kept(v)
  BY <1>2 DEF Kept
<1>4. Array(x)'
  BY <1>1, <1>2 DEF Array
<1>5. Settled(x)'
  <2> SUFFICES ASSUME NEW v \in Vertices, v < first
               PROVE  /\ FoundAt(v)' \subseteq Past(x)' /\ \A i \in FoundAt(v)' : LClean'[i].to = v
                      /\ Needs(x, v) \subseteq Kept(v)' /\ Kept(v)' \subseteq Found(v)'
                      /\ Gpu!Cleaned(v)' # {} => LHybrid'[v] = <<>>
    BY DEF Settled
  <2> QED BY <1>1, <1>2, <1>3 DEF Settled
<1>6. OnGpu(x)'
  BY <1>1 DEF OnGpu
<1>7. LeanCleaned(x)'
  <2> SUFFICES ASSUME NEW v \in Vertices, v < first, NEW l \in Gpu!Cleaned(v),
                      NEW b \in Found(l.hub)', NEW a \in Given(x, v), Meet(a, b, l)
               PROVE  a = l
    BY <1>2 DEF LeanCleaned
  <2>1. Found(l.hub)' = Found(l.hub)
    BY <1>1 DEF Found, FoundAt
  <2> QED BY <2>1 DEF LeanCleaned
<1> QED BY <1>4, <1>5, <1>6, <1>7

LEMMA CpuStep ==
  ASSUME NEW x \in Indexes, Working(x), NEW t \in Workers, CpuCleans(t)
  PROVE  Working(x)'
<1>1. Control' /\ Tasks'
  BY TaskSteps DEF Working
<1>2. Scratch'
  BY ScratchSteps DEF Working, Tests
<1>3. Rows(x)' /\ Tests(x)' /\ Leaner'
  BY RowSteps DEF Working
<1>4. /\ UNCHANGED gpuVars /\ first' = first /\ turn = "cpu" /\ turn' = "cpu"
  BY DEF CpuCleans, loop
<1>5. \A v \in Vertices : v < first => LHybrid'[v] = LHybrid[v]
  <2> SUFFICES ASSUME NEW v \in Vertices, v < first PROVE LHybrid'[v] = LHybrid[v]
    OBVIOUS
  <2>1. CASE Cpu!Write(t)
    <3>1. first <= vertex[t] /\ vertex[t] \in Nat /\ v \in Nat /\ first \in Nat
      BY <2>1, Sizes DEF Cpu!Write, Working, Tasks, Busy, Vertices, Control
    <3>2. v # vertex[t]
      BY <3>1
    <3> QED BY <2>1, <3>2 DEF Cpu!Write, Working, Rows
  <2>2. CASE ~Cpu!Write(t)
    <3>1. LHybrid' = LHybrid
      BY <2>2 DEF CpuCleans, Cpu!Step, Cpu!TakeTask, Cpu!TakeSlot, Cpu!Copy, Cpu!Test, Cpu!ReturnSlot
    <3> QED BY <3>1
  <2> QED BY <2>1, <2>2
<1>6. Array(x)' /\ Settled(x)' /\ OnGpu(x)' /\ LeanCleaned(x)'
  BY <1>4, <1>5, GpuStays DEF Working
<1> QED BY <1>1, <1>2, <1>3, <1>6 DEF Working

LEMMA PickCpuStep ==
  ASSUME NEW x \in Indexes, Working(x), PickCpu
  PROVE  Working(x)'
<1>1. /\ turn = "pick" /\ first < N /\ turn' = "cpu" /\ first' = first /\ UNCHANGED gpuVars
      /\ driver' = "wait" /\ tasks' = [i \in 1 .. RangeEnd - first |-> first + i - 1]
      /\ finished' = finished /\ pc' = pc /\ vertex' = vertex /\ used' = used /\ Lv' = Lv
      /\ final' = final /\ Qid' = Qid /\ T' = T /\ LHybrid' = LHybrid
  BY DEF PickCpu, Cpu!StartRange
<1>2. first \in Nat /\ tasks = <<>> /\ finished = {} /\ Busy = {}
  BY <1>1 DEF Working, Control
<1>3. /\ RangeEnd \in Nat /\ RangeEnd <= N /\ first < RangeEnd /\ RangeEnd' = RangeEnd /\ N \in Nat
  BY <1>1, <1>2, RangeEnds, Sizes DEF RangeEnd
<1>4. Busy' = {} /\ Held' = Held /\ Testing' = Testing
  BY <1>1, <1>2 DEF Busy, Held, Testing
<1>5. Control'
  BY <1>1 DEF Working, Control
<1>6. Tasks'
  <2> DEFINE n == RangeEnd - first
  <2>1. n \in Nat /\ tasks' = [i \in 1 .. n |-> first + i - 1] /\ DOMAIN tasks' = 1 .. n
    BY <1>1, <1>2, <1>3
  <2>2. \A i \in 1 .. n : /\ tasks'[i] = first + i - 1 /\ tasks'[i] \in Vertices
                          /\ first <= tasks'[i] /\ tasks'[i] < RangeEnd
    BY <1>2, <1>3, <2>1 DEF Vertices
  <2>3. \A i, j \in 1 .. n : tasks'[i] = tasks'[j] => i = j
    BY <1>2, <1>3, <2>2
  <2> HIDE DEF n
  <2>4. tasks' \in Seq(Vertices)
    BY <2>1, <2>2
  <2> QED BY <1>1, <1>2, <1>3, <1>4, <2>1, <2>2, <2>3, <2>4 DEF Working, Tasks
<1>7. Scratch'
  <2>1. \A u, m : Noted(u, m)' = Noted(u, m)
    BY <1>1 DEF Noted
  <2>2. Cpu!Slots' = Cpu!Slots
    BY DEF Cpu!Slots
  <2> QED BY <1>1, <1>4, <2>1, <2>2 DEF Working, Scratch
<1>8. \A v : Pending(v)' <=> Pending(v)
  BY <1>1 DEF Pending
<1>9. Rows(x)' /\ Tests(x)'
  BY <1>1, <1>4, <1>8 DEF Working, Rows, Tests
<1>10. Leaner'
  <2>1. ranges' = ranges
    BY <1>1 DEF gpuVars
  <2> QED BY <1>1, <1>4, <1>8, <2>1 DEF Working, Leaner
<1>11. Array(x)' /\ Settled(x)' /\ OnGpu(x)' /\ LeanCleaned(x)'
  BY <1>1, GpuStays DEF Working
<1> QED BY <1>5, <1>6, <1>7, <1>9, <1>10, <1>11 DEF Working

LEMMA CpuReturnsStep ==
  ASSUME NEW x \in Indexes, Working(x), CpuReturns
  PROVE  Working(x)'
<1>1. /\ turn = "cpu" /\ finished = first .. RangeEnd - 1
      /\ first' = first + CleanSize /\ turn' = "pick" /\ UNCHANGED gpuVars
      /\ finished' = {} /\ driver' = "rest"
      /\ tasks' = tasks /\ pc' = pc /\ vertex' = vertex /\ used' = used /\ Lv' = Lv
      /\ final' = final /\ Qid' = Qid /\ T' = T /\ LHybrid' = LHybrid
  BY DEF CpuReturns, Cpu!CollectRange
<1>2. first \in Nat /\ first < N /\ N \in Nat /\ CleanSize \in Nat /\ CleanSize > 0
  BY <1>1, Sizes, CleanAssumption DEF Working, Control
<1>3. /\ RangeEnd \in Nat /\ RangeEnd <= N /\ first < RangeEnd /\ RangeEnd <= first'
      /\ first' \in Nat /\ first < first' /\ (RangeEnd = N \/ RangeEnd = first')
  BY <1>1, <1>2, RangeEnds
<1>4. Busy = {} /\ tasks = <<>>
  <2>1. ASSUME NEW t \in Busy PROVE FALSE
    <3>1. /\ first <= vertex[t] /\ vertex[t] < RangeEnd /\ vertex[t] \notin finished
          /\ vertex[t] \in Vertices
      BY DEF Working, Tasks, Busy
    <3>2. vertex[t] \in Int
      BY <3>1, VerticesFinite
    <3> QED BY <1>1, <1>2, <1>3, <3>1, <3>2
  <2>2. ASSUME tasks # <<>> PROVE FALSE
    <3>1. tasks \in Seq(Vertices)
      BY DEF Working, Tasks
    <3>2. 1 \in DOMAIN tasks /\ tasks[1] \in Vertices
      BY <2>2, <3>1, HeadTail
    <3>3. first <= tasks[1] /\ tasks[1] < RangeEnd /\ tasks[1] \notin finished
      BY <3>2 DEF Working, Tasks
    <3>4. tasks[1] \in Int
      BY <3>2, VerticesFinite
    <3> QED BY <1>1, <1>2, <1>3, <3>3, <3>4
  <2> QED BY <2>1, <2>2
<1>5. Busy' = {} /\ Held' = Held /\ Testing' = Testing /\ Testing = {}
      /\ \A t \in Workers : pc[t] = "idle"
  BY <1>1, <1>4 DEF Busy, Held, Testing
<1>6. Control'
  BY <1>1, <1>3, <1>4, <1>5 DEF Control
<1>7. Tasks'
  BY <1>1, <1>4, <1>5 DEF Working, Tasks
<1>8. Scratch'
  <2>1. \A u, m : Noted(u, m)' = Noted(u, m)
    BY <1>1 DEF Noted
  <2>2. Cpu!Slots' = Cpu!Slots
    BY DEF Cpu!Slots
  <2> QED BY <1>1, <1>5, <2>1, <2>2 DEF Working, Scratch
<1>v. \A v \in Vertices : v \in Nat /\ v < N
  BY Sizes DEF Vertices
<1>9. \A v \in Vertices : (first' <= v => first <= v) /\ (Pending(v)' => Pending(v))
  <2> SUFFICES ASSUME NEW v \in Vertices, first' <= v PROVE first <= v /\ Pending(v)
    BY DEF Pending
  <2>1. first <= v /\ v \notin finished
    BY <1>1, <1>2, <1>3, <1>v
  <2> QED BY <1>5, <2>1 DEF Pending
<1>10. Rows(x)'
  BY <1>1, <1>9 DEF Working, Rows
<1>11. Tests(x)'
  BY <1>1, <1>5 DEF Working, Tests
<1>13. Leaner'
  <2>1. ranges' = ranges
    BY <1>1 DEF gpuVars
  <2>2. \A v \in Vertices : ~Pending(v)' => ~Pending(v)
    <3> SUFFICES ASSUME NEW v \in Vertices, ~Pending(v)' PROVE ~Pending(v)
      OBVIOUS
    <3>1. v < first'
      BY <1>1, <1>3, <1>5, <1>v DEF Pending
    <3>2. v < RangeEnd
      BY <1>3, <1>v, <3>1
    <3>3. v < first \/ v \in finished
      BY <1>1, <1>2, <1>3, <1>v, <3>2
    <3> QED BY <1>2, <1>v, <3>3 DEF Pending
  <2> QED BY <1>1, <1>5, <2>1, <2>2 DEF Working, Leaner
<1>14. /\ kernel' = kernel /\ LClean' = LClean /\ start' = start /\ end' = end /\ lo' = lo /\ hi' = hi
       /\ mark' = mark /\ has' = has /\ ranges' = ranges /\ kernel = "rest"
  BY <1>1 DEF gpuVars, Working, OnGpu
<1>15. /\ Gpu!InRanges' = Gpu!InRanges
       /\ \A v : /\ FoundAt(v)' = FoundAt(v) /\ Found(v)' = Found(v)
                 /\ Gpu!Cleaned(v)' = Gpu!Cleaned(v) /\ Kept(v)' = Kept(v)
  BY <1>1, <1>14 DEF Gpu!InRanges, FoundAt, Found, Gpu!Cleaned, Kept
<1>16. Past(x) \subseteq Past(x)'
  BY <1>2, <1>3, RowTo DEF Past
<1>17. \A v \in Vertices : first <= v =>
         /\ Gpu!Cleaned(v) = {} /\ FoundAt(v) \subseteq 1 .. Count(x)
         /\ \A i \in FoundAt(v) : Row(x)[i].to = v /\ LClean[i].to = v
         /\ Found(v) = Given(x, v)
  BY <1>2, <1>14, Untouched DEF Working
<1>18. Array(x)'
  <2>1. \A i \in Past(x)' : LClean[i].to < first'
    <3> SUFFICES ASSUME NEW i \in 1 .. Count(x), Row(x)[i].to < first' PROVE LClean[i].to < first'
      BY DEF Past
    <3>1. CASE i \in Past(x)
      <4>1. LClean[i].to < first /\ LClean[i] \in Word
        BY <3>1, WordsAre DEF Working, Array
      <4>2. LClean[i].to \in Nat
        BY <4>1, Sizes DEF Word, Vertices
      <4> QED BY <1>2, <1>3, <4>1, <4>2
    <3>2. CASE i \notin Past(x)
      <4>1. LClean[i] = Row(x)[i]
        BY <1>14, <3>2 DEF Working, Array
      <4> QED BY <4>1
    <3> QED BY <3>1, <3>2
  <2>2. \A i \in (1 .. Count(x)) \ Past(x)' : LClean[i] = Row(x)[i]
    BY <1>14, <1>16 DEF Working, Array
  <2>3. \A v \in Vertices : first' <= v => start[v] = Begin(x, v) /\ end[v] = Stop(x, v)
    BY <1>9 DEF Working, Array
  <2>4. Gpu!InRanges \subseteq Past(x)'
    BY <1>16 DEF Working, Array
  <2> QED BY <1>14, <1>15, <2>1, <2>2, <2>3, <2>4 DEF Working, Array
<1>19. Settled(x)'
  <2> SUFFICES ASSUME NEW v \in Vertices, v < first'
               PROVE  /\ FoundAt(v) \subseteq Past(x)' /\ \A i \in FoundAt(v) : LClean[i].to = v
                      /\ Needs(x, v) \subseteq Kept(v) /\ Kept(v) \subseteq Found(v)
                      /\ Gpu!Cleaned(v) # {} => LHybrid[v] = <<>>
    BY <1>1, <1>14, <1>15 DEF Settled
  <2>1. CASE v < first
    BY <1>16, <2>1 DEF Working, Settled
  <2>2. CASE ~(v < first)
    <3>1. first <= v
      BY <1>2, <1>v, <2>2
    <3>2. FoundAt(v) \subseteq Past(x)'
      BY <1>17, <3>1 DEF Past
    <3>3. Needs(x, v) \subseteq ToSet(LHybrid[v]) /\ ToSet(LHybrid[v]) \subseteq Given(x, v)
      BY <3>1 DEF Working, Rows
    <3> QED BY <1>17, <3>1, <3>2, <3>3 DEF Kept
  <2> QED BY <2>1, <2>2
<1>20. OnGpu(x)'
  BY <1>1, <1>14 DEF OnGpu
<1>21. LeanCleaned(x)'
  <2> SUFFICES ASSUME NEW v \in Vertices, v < first', NEW l \in Gpu!Cleaned(v),
                      NEW b \in Found(l.hub), NEW a \in Given(x, v), Meet(a, b, l)
               PROVE  a = l
    BY <1>15 DEF LeanCleaned
  <2>1. v < first
    BY <1>2, <1>17, <1>v
  <2> QED BY <2>1 DEF Working, LeanCleaned
<1> QED BY <1>6, <1>7, <1>8, <1>10, <1>11, <1>13, <1>18, <1>19, <1>20, <1>21 DEF Working
-----------------------------------------------------------------------------
(***************************************************************************)
(* 7. Steps of a GPU.  They leave the CPU's variables alone.               *)
(***************************************************************************)
LEMMA CpuStays ==
  ASSUME NEW x \in Indexes, Tasks, Scratch, Rows(x), Tests(x), Leaner,
         UNCHANGED cpuVars, LHybrid' = LHybrid, first' = first, ranges' = ranges
  PROVE  Tasks' /\ Scratch' /\ Rows(x)' /\ Tests(x)' /\ Leaner'
<1>1. /\ driver' = driver /\ tasks' = tasks /\ finished' = finished /\ pc' = pc /\ vertex' = vertex
      /\ used' = used /\ Lv' = Lv /\ final' = final /\ Qid' = Qid /\ T' = T
  BY DEF cpuVars
<1>2. /\ Busy' = Busy /\ Held' = Held /\ Testing' = Testing /\ RangeEnd' = RangeEnd
      /\ \A v : Pending(v)' <=> Pending(v)
  BY <1>1 DEF Busy, Held, Testing, RangeEnd, Pending
<1>3. Tasks'
  BY <1>1, <1>2 DEF Tasks
<1>4. Scratch'
  <2>1. \A u, m : Noted(u, m)' = Noted(u, m)
    BY <1>1 DEF Noted
  <2>2. Cpu!Slots' = Cpu!Slots
    BY DEF Cpu!Slots
  <2> QED BY <1>1, <1>2, <2>1, <2>2 DEF Scratch
<1>5. Rows(x)' /\ Tests(x)' /\ Leaner'
  BY <1>1, <1>2 DEF Rows, Tests, Leaner
<1> QED BY <1>3, <1>4, <1>5

(* The range is a block of the array.                                      *)
LEMMA RangeIs ==
  ASSUME NEW x \in Indexes, first \in Nat, first < N
  PROVE  /\ first \in Vertices /\ RangeEnd - 1 \in Vertices
         /\ Begin(x, first) \in 1 .. Count(x) /\ Stop(x, RangeEnd - 1) \in 1 .. Count(x) + 1
         /\ Begin(x, first) < Stop(x, RangeEnd - 1)
         /\ \A i \in 1 .. Count(x) :
              first <= Row(x)[i].to /\ Row(x)[i].to < RangeEnd
                <=> Begin(x, first) <= i /\ i < Stop(x, RangeEnd - 1)
         /\ \A i \in 1 .. Count(x) : i < Begin(x, first) <=> Row(x)[i].to < first
<1>0. /\ RangeEnd \in Nat /\ RangeEnd <= N /\ first < RangeEnd /\ N \in Nat /\ Count(x) \in Nat
      /\ \A i \in 1 .. Count(x) : Row(x)[i].to \in Nat
  BY RangeEnds, RowIs, RowTo, Sizes
<1>1. first \in Vertices /\ RangeEnd - 1 \in Vertices /\ first <= RangeEnd - 1
  BY <1>0 DEF Vertices
<1>2. /\ Begin(x, first) \in 1 .. Count(x) /\ Stop(x, RangeEnd - 1) \in 1 .. Count(x) + 1
      /\ Begin(x, first) < Stop(x, RangeEnd - 1)
      /\ \A i \in 1 .. Count(x) :
           first <= Row(x)[i].to /\ Row(x)[i].to <= RangeEnd - 1
             <=> Begin(x, first) <= i /\ i < Stop(x, RangeEnd - 1)
  BY <1>1, Blocks, Spans
<1>3. \A i \in 1 .. Count(x) : Row(x)[i].to < RangeEnd <=> Row(x)[i].to <= RangeEnd - 1
  BY <1>0
<1>4. ASSUME NEW i \in 1 .. Count(x)
      PROVE  i < Begin(x, first) <=> Row(x)[i].to < first
  <2> DEFINE b == Begin(x, first)
  <2>1. Row(x)[b].to = first /\ b \in 1 .. Count(x)
    BY <1>1, Blocks
  <2>2. i < b => Row(x)[i].to <= first /\ Row(x)[i].to # first
    BY <1>1, <2>1, RowTo, Blocks
  <2>3. b < i => first <= Row(x)[i].to
    BY <2>1, RowTo
  <2>4. Row(x)[i].to \in Nat /\ b \in Nat /\ i \in Nat
    BY <1>0, <2>1
  <2> HIDE DEF b
  <2>5. i = b => Row(x)[i].to = first
    BY <2>1
  <2> QED BY <2>2, <2>3, <2>4, <2>5 DEF b
<1> QED BY <1>1, <1>2, <1>3, <1>4

(* On the GPU's turn.                                                      *)
LEMMA CurrentIs ==
  ASSUME NEW x \in Indexes, Working(x), turn = "gpu"
  PROVE  /\ first \in Nat /\ first < N /\ lo \in 1 .. Count(x) /\ hi \in 1 .. Count(x) + 1 /\ lo < hi
         /\ Current(x) = lo .. hi - 1 /\ lo .. hi - 1 \subseteq 1 .. Count(x)
         /\ \A i \in 1 .. Count(x) :
              i \in Current(x) <=> first <= Row(x)[i].to /\ Row(x)[i].to < RangeEnd
         /\ \A i \in 1 .. Count(x) : i \in Past(x) <=> i < lo
<1>1. /\ first \in Nat /\ first < N /\ lo = Begin(x, first) /\ hi = Stop(x, RangeEnd - 1)
      /\ Count(x) \in Nat
  BY RowIs DEF Working, Control, OnGpu
<1>2. /\ lo \in 1 .. Count(x) /\ hi \in 1 .. Count(x) + 1 /\ lo < hi
      /\ \A i \in 1 .. Count(x) :
           first <= Row(x)[i].to /\ Row(x)[i].to < RangeEnd <=> lo <= i /\ i < hi
      /\ \A i \in 1 .. Count(x) : i < lo <=> Row(x)[i].to < first
  BY <1>1, RangeIs
<1>3. Current(x) = lo .. hi - 1 /\ lo .. hi - 1 \subseteq 1 .. Count(x)
  BY <1>1, <1>2 DEF Current
<1>4. \A i \in 1 .. Count(x) : i \in Current(x) <=> lo <= i /\ i < hi
  BY DEF Current
<1> QED BY <1>1, <1>2, <1>3, <1>4 DEF Past

LEMMA PickGpuStep ==
  ASSUME NEW x \in Indexes, Working(x), PickGpu
  PROVE  Working(x)'
<1>1. /\ turn = "pick" /\ first < N /\ turn' = "gpu" /\ first' = first /\ UNCHANGED cpuVars
      /\ LHybrid' = LHybrid /\ LClean' = LClean /\ start' = start /\ end' = end /\ mark' = mark
      /\ ranges' = ranges
      /\ lo' = start[first] /\ hi' = end[RangeEnd - 1]
      /\ has' = Gpu!Inserted({LClean[i] : i \in lo' .. hi' - 1})
      /\ kernel' = IF hi' <= lo' THEN "select" ELSE "prune"
  BY DEF PickGpu, Gpu!InitHash
<1>2. first \in Nat /\ kernel = "rest" /\ RangeEnd' = RangeEnd
  BY <1>1 DEF Working, Control, OnGpu, RangeEnd
<1>3. /\ first \in Vertices /\ RangeEnd - 1 \in Vertices
      /\ Begin(x, first) \in 1 .. Count(x) /\ Stop(x, RangeEnd - 1) \in 1 .. Count(x) + 1
      /\ Begin(x, first) < Stop(x, RangeEnd - 1)
      /\ \A i \in 1 .. Count(x) :
           first <= Row(x)[i].to /\ Row(x)[i].to < RangeEnd
             <=> Begin(x, first) <= i /\ i < Stop(x, RangeEnd - 1)
      /\ \A i \in 1 .. Count(x) : i < Begin(x, first) <=> Row(x)[i].to < first
  BY <1>1, <1>2, RangeIs
<1>4. lo' = Begin(x, first) /\ hi' = Stop(x, RangeEnd - 1)
  <2>1. first <= RangeEnd - 1 /\ first <= first
    BY <1>1, <1>2, RangeEnds
  <2>2. \A v \in Vertices : first <= v => start[v] = Begin(x, v) /\ end[v] = Stop(x, v)
    BY DEF Working, Array
  <2>3. start[first] = Begin(x, first)
    BY <1>3, <2>1, <2>2, Zenon
  <2>4. end[RangeEnd - 1] = Stop(x, RangeEnd - 1)
    BY <1>3, <2>1, <2>2, Zenon
  <2> QED BY <1>1, <2>3, <2>4
<1>5. Count(x) \in Nat /\ lo' < hi' /\ lo' \in 1 .. Count(x) /\ hi' \in 1 .. Count(x) + 1
  BY <1>3, <1>4, RowIs
<1>6. kernel' = "prune"
  BY <1>1, <1>5
<1>7. \A i \in lo' .. hi' - 1 : LClean[i] = Row(x)[i]
  <2> SUFFICES ASSUME NEW i \in lo' .. hi' - 1 PROVE LClean[i] = Row(x)[i]
    OBVIOUS
  <2>1. i \in 1 .. Count(x) /\ ~(i < Begin(x, first))
    BY <1>4, <1>5
  <2>2. i \notin Past(x)
    BY <1>3, <2>1 DEF Past
  <2> QED BY <1>2, <2>1, <2>2 DEF Working, Array
<1>8. has' = Gpu!Inserted({Row(x)[i] : i \in lo' .. hi' - 1})
  <2>1. {LClean[i] : i \in lo' .. hi' - 1} = {Row(x)[i] : i \in lo' .. hi' - 1}
    BY <1>7
  <2> QED BY <1>1, <2>1
<1>9. /\ Past(x)' = Past(x) /\ Gpu!InRanges' = Gpu!InRanges
      /\ \A v : /\ FoundAt(v)' = FoundAt(v) /\ Found(v)' = Found(v)
                /\ Gpu!Cleaned(v)' = Gpu!Cleaned(v) /\ Kept(v)' = Kept(v)
  BY <1>1 DEF Past, Gpu!InRanges, FoundAt, Found, Gpu!Cleaned, Kept
<1>10. Array(x)'
  BY <1>1, <1>2, <1>6, <1>9 DEF Working, Array
<1>11. Settled(x)' /\ LeanCleaned(x)'
  BY <1>1, <1>9 DEF Working, Settled, LeanCleaned
<1>12. OnGpu(x)'
  BY <1>1, <1>2, <1>4, <1>6, <1>8 DEF OnGpu
<1>13. Control'
  <2>1. driver' = driver /\ tasks' = tasks /\ finished' = finished /\ Busy' = Busy
    BY <1>1 DEF cpuVars, Busy
  <2> QED BY <1>1, <2>1 DEF Working, Control
<1>14. Tasks' /\ Scratch' /\ Rows(x)' /\ Tests(x)' /\ Leaner'
  BY <1>1, CpuStays DEF Working
<1> QED BY <1>10, <1>11, <1>12, <1>13, <1>14 DEF Working


(* The table holds under a key the least distance of the words it stands   *)
(* for.                                                                    *)
Under(R, v, m, k) == {y \in R : y.to = v /\ y.hub = m /\ y.hop <= k}

LEMMA HashIs ==
  ASSUME NEW R, R \subseteq Word, has = Gpu!Inserted(R), NEW v, NEW m, NEW k \in 0 .. K
  PROVE  /\ Under(R, v, m, k) = {} => Gpu!HashQuery(<<v, m, k>>) = Inf
         /\ Under(R, v, m, k) # {} =>
              \E y \in Under(R, v, m, k) : Gpu!HashQuery(<<v, m, k>>) = y.dist
         /\ \A y \in Under(R, v, m, k) : Gpu!HashQuery(<<v, m, k>>) <= y.dist
<1> DEFINE q == <<v, m, k>>
           S == Under(R, v, m, k)
           keys == UNION {Gpu!HashKeys(y) : y \in R}
           ds == {z.dist : z \in S}
<1>0. K \in Nat /\ \A y \in R : y.hop \in 0 .. K /\ y.dist \in Nat
  BY Sizes DEF Word
<1>1. \A y \in R : q \in Gpu!HashKeys(y) <=> y.to = v /\ y.hub = m /\ y.hop <= k
  <2> SUFFICES ASSUME NEW y \in R
               PROVE  q \in Gpu!HashKeys(y) <=> y.to = v /\ y.hub = m /\ y.hop <= k
    OBVIOUS
  <2>1. q \in Gpu!HashKeys(y) <=> \E j \in y.hop .. K : q = <<y.to, y.hub, j>>
    BY DEF Gpu!HashKeys
  <2>2. \A j : q = <<y.to, y.hub, j>> <=> v = y.to /\ m = y.hub /\ k = j
    OBVIOUS
  <2>3. k \in y.hop .. K <=> y.hop <= k
    BY <1>0
  <2> HIDE DEF q
  <2> QED BY <2>1, <2>2, <2>3
<1>2. {y \in R : q \in Gpu!HashKeys(y)} = S
  BY <1>1, Zenon DEF Under
<1>3. q \in keys <=> S # {}
  <2>1. q \in keys <=> \E y \in R : q \in Gpu!HashKeys(y)
    BY Zenon
  <2> QED BY <1>2, <2>1, Zenon
<1>4. has = [c \in keys |-> Gpu!Min({z.dist : z \in {y \in R : c \in Gpu!HashKeys(y)}})]
  BY Zenon DEF Gpu!Inserted
<1> HIDE DEF q, S, keys
<1>5. DOMAIN has = keys /\ (q \in keys => has[q] = Gpu!Min({z.dist : z \in {y \in R : q \in Gpu!HashKeys(y)}}))
  BY <1>4, Zenon
<1>6. S # {} => has[q] = Min(ds)
  BY <1>2, <1>3, <1>5, SameGpu, Zenon
<1>7. Gpu!HashQuery(q) = IF S # {} THEN has[q] ELSE Inf
  BY <1>3, <1>5, SameGpu, Zenon DEF Gpu!HashQuery
<1>8. ASSUME S # {}
      PROVE  (\E y \in S : has[q] = y.dist) /\ \A y \in S : has[q] <= y.dist
  <2>1. ds \subseteq Nat /\ ds # {}
    <3>1. S \subseteq R
      BY DEF S, Under
    <3> QED BY <1>0, <1>8, <3>1
  <2> HIDE DEF ds
  <2>2. Min(ds) \in ds /\ \A d \in ds : Min(ds) <= d
    BY <2>1, MinNatural
  <2> QED BY <1>6, <1>8, <2>2 DEF ds
<1> QED BY <1>7, <1>8 DEF q, S

(* What the offsets of a vertex find are labels it was given, and all that *)
(* is Seen of it, until the select has moved words.                        *)
LEMMA FoundGiven ==
  ASSUME NEW x \in Indexes, first \in Nat, Array(x), Settled(x), NEW v \in Vertices
  PROVE  /\ v < first => Found(v) \subseteq Given(x, v) /\ Found(v) = Seen(x, v)
         /\ kernel # "update" => Found(v) \subseteq Given(x, v) /\ Found(v) = Seen(x, v)
<1>1. CASE v < first
  <2>1. \A i \in FoundAt(v) : i \in 1 .. Count(x) /\ LClean[i].to = v
    BY <1>1 DEF Settled, Past
  <2>2. \A i \in FoundAt(v) : Gpu!LabelOf(LClean[i]) \in Given(x, v)
    BY <2>1, WordsAre, SameWords DEF Array
  <2> QED BY <1>1, <2>2 DEF Found, Seen
<1>2. CASE ~(v < first)
  <2>1. first <= v
    BY <1>2, Sizes DEF Vertices
  <2> QED BY <1>2, <2>1, Untouched DEF Seen
<1> QED BY <1>1, <1>2

(* The words of the range: those of its vertices.                          *)
InRange(x) == {Row(x)[i] : i \in lo .. hi - 1}

LEMMA RangeWords ==
  ASSUME NEW x \in Indexes, Working(x), turn = "gpu"
  PROVE  /\ InRange(x) \subseteq Word
         /\ \A y \in InRange(x) : LabelIn(y) \in Given(x, y.to)
         /\ \A v \in Vertices : first <= v /\ v < RangeEnd =>
              \A a \in Given(x, v) : WordOf(v, a) \in InRange(x)
<1>1. /\ lo .. hi - 1 \subseteq 1 .. Count(x)
      /\ \A i \in 1 .. Count(x) :
           i \in lo .. hi - 1 <=> first <= Row(x)[i].to /\ Row(x)[i].to < RangeEnd
  BY CurrentIs
<1>2. ASSUME NEW y \in InRange(x) PROVE y \in Word /\ LabelIn(y) \in Given(x, y.to)
  <2>1. PICK i \in lo .. hi - 1 : y = Row(x)[i]
    BY DEF InRange
  <2>2. y \in AllWords(x) /\ y \in Word
    BY <1>1, <2>1, RowTo
  <2> QED BY <2>2, WordsAre
<1>3. ASSUME NEW v \in Vertices, first <= v, v < RangeEnd, NEW a \in Given(x, v)
      PROVE  WordOf(v, a) \in InRange(x)
  <2>1. WordOf(v, a) \in AllWords(x) /\ WordOf(v, a).to = v
    BY WordsAre
  <2>2. PICK i \in 1 .. Count(x) : Row(x)[i] = WordOf(v, a)
    BY <2>1, RowIs
  <2>3. i \in lo .. hi - 1
    BY <1>1, <1>3, <2>1, <2>2
  <2> QED BY <2>2, <2>3 DEF InRange
<1> QED BY <1>2, <1>3

(* An answer is a meeting of labels of the hub and of the vertex.          *)
LEMMA AnswerMeets ==
  ASSUME NEW x \in Indexes, Working(x), turn = "gpu", has = Gpu!Inserted(InRange(x)),
         NEW y \in AllWords(x), y.hop # 0, y.dist < Inf, NEW z \in AllWords(x), z.to = y.hub,
         Gpu!AnsweredBy(y, z)
  PROVE  \E a \in Given(x, y.to) : Meet(LabelIn(z), a, LabelIn(y)) /\ a.hop < y.hop
<1>1. /\ y \in Word /\ z \in Word /\ LabelIn(z) \in Given(x, z.to)
      /\ y.hop \in 0 .. K /\ z.hop \in 0 .. K /\ y.dist \in Nat /\ z.dist \in Nat /\ K \in Nat
      /\ y.to \in Vertices /\ y.hub \in Vertices /\ z.to \in Vertices
  BY WordsAre, Sizes DEF Word
<1> DEFINE k == IF z.hop = 0 THEN y.hop - 1 ELSE y.hop - z.hop
           q == Gpu!HashQuery(<<y.to, z.hub, k>>)
<1>2. /\ z.hop < y.hop \/ z.hop = 0
      /\ k \in 0 .. K /\ k < y.hop /\ z.hop + k <= y.hop
      /\ z.hop = 0 => z.hub = y.hub /\ z.dist = 0
  <2>1. z.hop = 0 => z.hub = z.to /\ z.dist = 0
    BY <1>1, GivenSound DEF LabelIn
  <2>2. z.hop < y.hop \/ z.hop = 0
    BY DEF Gpu!AnsweredBy
  <2> QED BY <1>1, <2>1, <2>2
<1>3. z.dist + q <= y.dist
  <2>1. CASE z.hop = 0
    <3>1. Gpu!HashQuery(<<y.to, z.hub, y.hop - 1>>) <= y.dist
      BY <1>1, <1>2, <2>1 DEF Gpu!AnsweredBy
    <3>2. q = Gpu!HashQuery(<<y.to, z.hub, y.hop - 1>>)
      BY <2>1
    <3> HIDE DEF q
    <3>3. q <= y.dist /\ z.dist = 0
      BY <1>2, <2>1, <3>1, <3>2
    <3>4. 0 + q <= y.dist
      <4>1. q \in Nat \/ q = Inf
        <5>1. Gpu!HashQuery(<<y.to, z.hub, k>>) = Inf
              \/ \E u \in Under(InRange(x), y.to, z.hub, k) : Gpu!HashQuery(<<y.to, z.hub, k>>) = u.dist
          <6>1. InRange(x) \subseteq Word
            BY RangeWords
          <6>2. k \in 0 .. K
            BY <1>2
          <6> HIDE DEF k
          <6> QED BY <6>1, <6>2, HashIs
        <5>2. \A u \in Under(InRange(x), y.to, z.hub, k) : u.dist \in Nat
          BY RangeWords DEF Under, Word
        <5> QED BY <5>1, <5>2 DEF q
      <4> QED BY <3>3, <4>1, Sizes
    <3> QED BY <3>3, <3>4
  <2>2. CASE z.hop # 0
    <3>1. z.dist + Gpu!HashQuery(<<y.to, z.hub, y.hop - z.hop>>) <= y.dist
      BY <2>2 DEF Gpu!AnsweredBy
    <3> QED BY <2>2, <3>1
  <2> QED BY <2>1, <2>2
<1>4. q # Inf
  <2> HIDE DEF q
  <2> QED BY <1>1, <1>3, Sizes
<1>5. PICK u \in Under(InRange(x), y.to, z.hub, k) : q = u.dist
  BY <1>2, <1>4, HashIs, RangeWords
<1>6. /\ u \in InRange(x) /\ u.to = y.to /\ u.hub = z.hub /\ u.hop <= k
      /\ u \in Word /\ LabelIn(u) \in Given(x, u.to)
  BY <1>5, RangeWords DEF Under
<1>7. u.hop \in Nat /\ u.dist \in Nat
  BY <1>6, Sizes DEF Word
<1> HIDE DEF q
<1>8. z.hop + u.hop <= y.hop /\ u.hop < y.hop /\ z.dist + u.dist <= y.dist
  <2> HIDE DEF k
  <2> QED BY <1>1, <1>2, <1>3, <1>5, <1>6, <1>7
<1>9. Meet(LabelIn(z), LabelIn(u), LabelIn(y)) /\ LabelIn(u).hop < y.hop
  BY <1>6, <1>8 DEF Meet, LabelIn
<1> QED BY <1>6, <1>9

(* And what no word answers, no meeting of what is seen answers.           *)
LEMMA UnansweredLean ==
  ASSUME NEW x \in Indexes, Working(x), turn = "gpu", kernel # "update",
         has = Gpu!Inserted(InRange(x)), NEW y \in InRange(x),
         y.to \in Vertices, first <= y.to, y.to < RangeEnd,
         y.hop = 0 \/ \A j \in FoundAt(y.hub) : ~Gpu!AnsweredBy(y, LClean[j])
  PROVE  LeanWord(x, y)
<1> SUFFICES ASSUME NEW b \in Seen(x, y.hub), NEW a \in Given(x, y.to), Meet(a, b, y)
             PROVE  a = LabelIn(y)
  BY DEF LeanWord
<1> DEFINE v == y.to
           m == y.hub
<1>1. /\ y \in Word /\ LabelIn(y) \in Given(x, v) /\ v \in Vertices /\ m \in Vertices
      /\ y.hop \in 0 .. K /\ y.dist \in Nat /\ K \in Nat /\ v \in Nat /\ m \in Nat
  BY RangeWords, Sizes DEF Word, Vertices
<1>2. LabelIn(y).hub = m /\ LabelIn(y).hop = y.hop /\ LabelIn(y).dist = y.dist
  BY DEF LabelIn
<1>3. b \in Given(x, m) /\ b \in Found(m)
  BY <1>1, FoundGiven DEF Working, Control
<1>4. a \in Label /\ b \in Label /\ a.hub = b.hub /\ a.hop + b.hop <= y.hop /\ a.dist + b.dist <= y.dist
  BY <1>1, <1>3, GivenIs DEF Meet
<1>5. /\ a.hop \in 0 .. K /\ b.hop \in 0 .. K /\ a.dist \in Nat /\ b.dist \in Nat /\ a.hub \in Nat
  BY <1>1, <1>4 DEF Label, Vertices
<1>6. /\ a.hub <= v /\ (a.hop = 0 => a.hub = v /\ a.dist = 0) /\ (a.hub = v => a.hop = 0)
      /\ b.hub <= m /\ (b.hop = 0 => b.hub = m /\ b.dist = 0) /\ (b.hub = m => b.hop = 0)
      /\ m <= v /\ (y.hop = 0 => m = v /\ y.dist = 0) /\ (m = v => y.hop = 0)
  BY <1>1, <1>2, <1>3, GivenSound
<1>7. a.hub = m /\ a.hop = y.hop => a = LabelIn(y)
  BY <1>1, <1>2, GivenIs
<1> HIDE DEF v, m
<1>8. CASE y.hop = 0
  BY <1>5, <1>6, <1>4, <1>7, <1>8
<1>9. CASE y.hop # 0 /\ a.hub = m /\ a.hop = y.hop
  BY <1>7, <1>9
<1>10. CASE y.hop # 0 /\ ~(a.hub = m /\ a.hop = y.hop)
  <2>1. PICK j \in FoundAt(m) : b = Gpu!LabelOf(LClean[j])
    BY <1>3 DEF Found
  <2> DEFINE z == LClean[j]
             k == IF z.hop = 0 THEN y.hop - 1 ELSE y.hop - z.hop
             q == Gpu!HashQuery(<<v, z.hub, k>>)
  <2>2. ~Gpu!AnsweredBy(y, z)
    BY <1>10, <2>1 DEF m
  <2>3. z.hub = b.hub /\ z.hop = b.hop /\ z.dist = b.dist
    BY <2>1, SameWords DEF LabelIn
  <2> HIDE DEF z
  <2>4. b.hop < y.hop
    <3>1. b.hop <= y.hop /\ (b.hop = y.hop => a.hop = 0)
      BY <1>1, <1>4, <1>5
    <3>2. a.hop = 0 => m = v
      <4>1. a.hop = 0 => v <= m
        BY <1>4, <1>6
      <4> QED BY <1>1, <1>6, <4>1
    <3> QED BY <1>1, <1>5, <1>6, <1>10, <3>1, <3>2
  <2>5. k \in 0 .. K /\ a.hop <= k
    BY <1>1, <1>4, <1>5, <1>6, <1>10, <2>3, <2>4
  <2>6. WordOf(v, a) \in InRange(x)
    BY <1>1, RangeWords DEF v
  <2>7. WordOf(v, a) \in Under(InRange(x), v, z.hub, k) /\ WordOf(v, a).dist = a.dist
    BY <1>4, <2>3, <2>5, <2>6 DEF Under, WordOf
  <2>8. q <= a.dist
    <3> HIDE DEF k
    <3> QED BY <2>5, <2>7, HashIs, RangeWords
  <2>9. q \in Nat
    <3> HIDE DEF k
    <3>1. \E u \in Under(InRange(x), v, z.hub, k) : q = u.dist
      BY <2>5, <2>7, HashIs, RangeWords
    <3>2. \A u \in Under(InRange(x), v, z.hub, k) : u.dist \in Nat
      BY RangeWords DEF Under, Word
    <3> QED BY <3>1, <3>2
  <2>10. z.dist + q <= y.dist
    <3> HIDE DEF q
    <3> QED BY <1>1, <1>4, <1>5, <2>3, <2>8, <2>9
  <2>11. CASE z.hop = 0
    <3>1. q = Gpu!HashQuery(<<y.to, z.hub, y.hop - 1>>)
      BY <2>11 DEF v
    <3>2. q <= y.dist
      <4> HIDE DEF q
      <4> QED BY <1>1, <1>5, <2>3, <2>9, <2>10
    <3> HIDE DEF q
    <3> QED BY <2>2, <2>11, <3>1, <3>2 DEF Gpu!AnsweredBy
  <2>12. CASE z.hop # 0
    <3>1. q = Gpu!HashQuery(<<y.to, z.hub, y.hop - z.hop>>)
      BY <2>12 DEF v
    <3>2. 0 < z.hop /\ z.hop < y.hop
      BY <1>5, <2>3, <2>4, <2>12
    <3> HIDE DEF q
    <3> QED BY <2>2, <2>10, <3>1, <3>2 DEF Gpu!AnsweredBy
  <2> QED BY <2>11, <2>12
<1> QED BY <1>8, <1>9, <1>10

(* A kernel leaves the host's variables and the CPU's alone.               *)
LEMMA KernelStays ==
  ASSUME NEW x \in Indexes, Working(x), GpuCleans
  PROVE  /\ turn = "gpu" /\ first' = first /\ Control' /\ Tasks' /\ Scratch' /\ Rows(x)' /\ Tests(x)' /\ Leaner'
         /\ LHybrid' = LHybrid /\ start' = start /\ end' = end /\ lo' = lo /\ hi' = hi /\ ranges' = ranges
         /\ turn' = turn /\ RangeEnd' = RangeEnd /\ Past(x)' = Past(x) /\ Current(x)' = Current(x)
         /\ Gpu!InRanges' = Gpu!InRanges /\ \A v : FoundAt(v)' = FoundAt(v)
<1>1. /\ turn = "gpu" /\ first' = first /\ turn' = turn /\ UNCHANGED cpuVars
      /\ LHybrid' = LHybrid /\ start' = start /\ end' = end /\ lo' = lo /\ hi' = hi /\ ranges' = ranges
  BY DEF GpuCleans, Gpu!Step, Gpu!Prune, Gpu!ClearHash, Gpu!Select, loop
<1>2. RangeEnd' = RangeEnd /\ Past(x)' = Past(x) /\ Current(x)' = Current(x)
      /\ Gpu!InRanges' = Gpu!InRanges /\ \A v : FoundAt(v)' = FoundAt(v)
  BY <1>1 DEF RangeEnd, Past, Current, Gpu!InRanges, FoundAt
<1>3. Control'
  <2>1. driver' = driver /\ tasks' = tasks /\ finished' = finished /\ Busy' = Busy
    BY <1>1 DEF cpuVars, Busy
  <2> QED BY <1>1, <2>1 DEF Working, Control
<1>4. Tasks' /\ Scratch' /\ Rows(x)' /\ Tests(x)' /\ Leaner'
  BY <1>1, CpuStays DEF Working
<1> QED BY <1>1, <1>2, <1>3, <1>4

(* As long as the array stays, so does all that it is read for.            *)
LEMMA ArrayStays ==
  ASSUME NEW x \in Indexes, Working(x), GpuCleans, LClean' = LClean
  PROVE  /\ Settled(x)' /\ LeanCleaned(x)'
         /\ \A v : Found(v)' = Found(v) /\ Seen(x, v)' = Seen(x, v)
<1>1. /\ first' = first /\ LHybrid' = LHybrid /\ start' = start /\ end' = end
      /\ Past(x)' = Past(x) /\ Gpu!InRanges' = Gpu!InRanges /\ \A v : FoundAt(v)' = FoundAt(v)
  BY KernelStays
<1>2. \A v : Found(v)' = Found(v) /\ Gpu!Cleaned(v)' = Gpu!Cleaned(v) /\ Kept(v)' = Kept(v)
             /\ Seen(x, v)' = Seen(x, v)
  BY <1>1 DEF Found, Gpu!Cleaned, Kept, Seen
<1> QED BY <1>1, <1>2 DEF Working, Settled, LeanCleaned

LEMMA PruneStep ==
  ASSUME NEW x \in Indexes, Working(x), GpuCleans, Gpu!Prune
  PROVE  Working(x)'
<1>1. /\ kernel = "prune" /\ kernel' = "clear" /\ LClean' = LClean /\ has' = has
      /\ mark' = mark \ {i \in lo .. hi - 1 :
                          /\ LClean[i].hop # 0
                          /\ \E j \in start[LClean[i].hub] .. end[LClean[i].hub] - 1 :
                               Gpu!AnsweredBy(LClean[i], LClean[j])}
  BY DEF Gpu!Prune
<1>2. /\ turn = "gpu" /\ turn' = turn /\ lo' = lo /\ hi' = hi /\ start' = start /\ end' = end
      /\ ranges' = ranges /\ first' = first /\ RangeEnd' = RangeEnd /\ Past(x)' = Past(x)
      /\ Current(x)' = Current(x) /\ Gpu!InRanges' = Gpu!InRanges
  BY KernelStays
<1>3. /\ Current(x) = lo .. hi - 1 /\ lo .. hi - 1 \subseteq 1 .. Count(x)
      /\ \A i \in 1 .. Count(x) :
           i \in Current(x) <=> first <= Row(x)[i].to /\ Row(x)[i].to < RangeEnd
      /\ \A i \in 1 .. Count(x) : i \in Past(x) <=> i < lo
      /\ lo \in Nat
  BY <1>2, CurrentIs
<1>4. \A i \in lo .. hi - 1 : LClean[i] = Row(x)[i] /\ Row(x)[i] \in AllWords(x)
                              /\ Row(x)[i] \in InRange(x)
                              /\ Row(x)[i].to \in Vertices /\ i \in 1 .. Count(x)
  <2>1. \A i \in lo .. hi - 1 : i \in 1 .. Count(x) /\ i \notin Past(x)
    BY <1>3
  <2> QED BY <1>1, <2>1, RowTo DEF Working, Array, InRange
<1>5. has = Gpu!Inserted(InRange(x))
  BY <1>1, <1>2 DEF Working, OnGpu, InRange
<1> DEFINE Gone(i) == /\ Row(x)[i].hop # 0
                      /\ \E j \in FoundAt(Row(x)[i].hub) : Gpu!AnsweredBy(Row(x)[i], LClean[j])
<1>6. mark' = mark \ {i \in lo .. hi - 1 : Gone(i)}
  BY <1>1, <1>4 DEF FoundAt
<1> HIDE DEF Gone
<1>7. ASSUME NEW i \in lo .. hi - 1, LabelIn(Row(x)[i]) \in Needs(x, Row(x)[i].to), Gone(i)
      PROVE  FALSE
  <2> DEFINE y == Row(x)[i]
  <2>1. PICK j \in FoundAt(y.hub) : Gpu!AnsweredBy(y, LClean[j])
    BY <1>7 DEF Gone
  <2>2. y \in AllWords(x) /\ y.to \in Vertices /\ y \in Word /\ y.hop # 0
    BY <1>4, <1>7, WordsAre DEF Gone
  <2>h. y.hub \in Vertices /\ first \in Nat
    BY <2>2 DEF Word, Working, Control
  <2>3. j \in 1 .. Count(x) /\ LClean[j] \in AllWords(x) /\ LClean[j].to = y.hub
    <3>1. CASE y.hub < first
      <4>1. j \in Past(x) /\ LClean[j].to = y.hub
        BY <2>h, <3>1 DEF Working, Settled
      <4> QED BY <4>1 DEF Past, Working, Array
    <3>2. CASE ~(y.hub < first)
      <4>1. first <= y.hub
        BY <2>h, <3>2, Sizes DEF Vertices
      <4>2. j \in 1 .. Count(x) /\ LClean[j].to = y.hub
        BY <1>1, <2>h, <4>1, Untouched DEF Working
      <4> QED BY <4>2 DEF Working, Array
    <3> QED BY <3>1, <3>2
  <2>4. y.dist < Inf
    <3>1. LabelIn(y).dist < Inf
      BY <1>7, <2>2, NeedsAre DEF Canonical
    <3> QED BY <3>1 DEF LabelIn
  <2>5. PICK a \in Given(x, y.to) : Meet(LabelIn(LClean[j]), a, LabelIn(y)) /\ a.hop < y.hop
    BY <1>2, <1>5, <2>1, <2>2, <2>3, <2>4, AnswerMeets
  <2>6. LabelIn(LClean[j]) \in Given(x, LabelIn(y).hub)
    BY <2>3, WordsAre DEF LabelIn
  <2>7. a = LabelIn(y)
    BY <1>7, <2>2, <2>5, <2>6, NeverAnswered
  <2>8. a.hop = y.hop /\ y.hop \in Int
    BY <2>2, <2>7, Sizes DEF LabelIn, Word
  <2> QED BY <2>5, <2>8
<1>8. ASSUME NEW i \in mark' \cap Current(x) PROVE LeanWord(x, Row(x)[i])
  <2>1. i \in lo .. hi - 1 /\ ~Gone(i)
    BY <1>3, <1>6, <1>8
  <2>2. Row(x)[i].hop = 0
        \/ \A j \in FoundAt(Row(x)[i].hub) : ~Gpu!AnsweredBy(Row(x)[i], LClean[j])
    BY <2>1 DEF Gone
  <2>3. first <= Row(x)[i].to /\ Row(x)[i].to < RangeEnd
    BY <1>3, <1>4, <2>1
  <2> QED BY <1>1, <1>2, <1>4, <1>5, <2>1, <2>2, <2>3, UnansweredLean
<1>9. Array(x)'
  <2>1. \A i \in 1 .. Count(x) : LabelIn(Row(x)[i]) \in Needs(x, Row(x)[i].to) => i \in mark'
    BY <1>6, <1>7 DEF Working, Array
  <2>2. mark' \subseteq mark
    BY <1>6
  <2> QED BY <1>1, <1>2, <2>1, <2>2 DEF Working, Array
<1>10. Settled(x)' /\ LeanCleaned(x)' /\ \A v : Seen(x, v)' = Seen(x, v)
  BY <1>1, ArrayStays
<1>11. \A y : LeanWord(x, y)' <=> LeanWord(x, y)
  BY <1>10 DEF LeanWord
<1>12. OnGpu(x)'
  BY <1>1, <1>2, <1>8, <1>11 DEF Working, OnGpu
<1> QED BY <1>9, <1>10, <1>12, KernelStays DEF Working

LEMMA ClearHashStep ==
  ASSUME NEW x \in Indexes, Working(x), GpuCleans, Gpu!ClearHash
  PROVE  Working(x)'
<1>1. kernel = "clear" /\ kernel' = "select" /\ LClean' = LClean /\ mark' = mark
  BY DEF Gpu!ClearHash
<1>2. /\ turn = "gpu" /\ turn' = turn /\ lo' = lo /\ hi' = hi /\ start' = start /\ end' = end
      /\ ranges' = ranges /\ first' = first /\ RangeEnd' = RangeEnd /\ Past(x)' = Past(x)
      /\ Current(x)' = Current(x) /\ Gpu!InRanges' = Gpu!InRanges
  BY KernelStays
<1>3. Settled(x)' /\ LeanCleaned(x)' /\ \A v : Seen(x, v)' = Seen(x, v)
  BY <1>1, ArrayStays
<1>4. \A y : LeanWord(x, y)' <=> LeanWord(x, y)
  BY <1>3 DEF LeanWord
<1>5. Array(x)'
  BY <1>1, <1>2 DEF Working, Array
<1>6. OnGpu(x)'
  BY <1>1, <1>2, <1>4 DEF Working, OnGpu
<1> QED BY <1>3, <1>5, <1>6, KernelStays DEF Working

(* The flagged select: the marked positions of the range in their order,   *)
(* each at or behind its new place.                                        *)
LEMMA Spread ==
  ASSUME NEW m \in Nat, NEW a \in Int, NEW s, \A k \in 1 .. m : s[k] \in Int /\ a <= s[k],
         \A i, j \in 1 .. m : i < j => s[i] < s[j]
  PROVE  \A k \in 1 .. m : a + k - 1 <= s[k]
<1> DEFINE S == {k \in 0 .. m : k = 0 \/ a + k - 1 <= s[k]}
<1>1. 0 \in S
  OBVIOUS
<1>2. ASSUME NEW i \in 0 .. m - 1, i \in S PROVE i + 1 \in S
  <2>1. CASE i = 0
    <3>1. 1 \in 1 .. m /\ i + 1 = 1
      BY <1>2, <2>1
    <3>2. s[1] \in Int /\ a <= s[1]
      BY <3>1
    <3>3. a + 1 - 1 <= s[1]
      BY <3>2
    <3> QED BY <3>1, <3>3
  <2>2. CASE i # 0
    <3>1. i \in 1 .. m /\ i + 1 \in 1 .. m /\ i < i + 1
      BY <1>2, <2>2
    <3>2. s[i] < s[i + 1] /\ s[i] \in Int /\ s[i + 1] \in Int /\ a + i - 1 <= s[i]
      BY <1>2, <2>2, <3>1
    <3>3. a + (i + 1) - 1 <= s[i + 1]
      BY <3>1, <3>2
    <3> QED BY <3>1, <3>3
  <2> QED BY <2>1, <2>2
<1> HIDE DEF S
<1>3. 0 .. m \subseteq S
  BY <1>1, <1>2, UpTo
<1>4. ASSUME NEW k \in 1 .. m PROVE a + k - 1 <= s[k]
  <2>1. k \in S /\ k # 0
    BY <1>3
  <2> QED BY <2>1 DEF S
<1> QED BY <1>4

LEMMA SelectedIs ==
  ASSUME lo \in Nat, hi \in Nat, lo < hi
  PROVE  /\ Len(Gpu!Selected) \in Nat /\ lo + Len(Gpu!Selected) <= hi
         /\ \A k \in 1 .. Len(Gpu!Selected) :
              /\ Gpu!Selected[k] \in mark /\ Gpu!Selected[k] \in lo .. hi - 1
              /\ lo + k - 1 <= Gpu!Selected[k]
         /\ \A i, j \in 1 .. Len(Gpu!Selected) : i < j => Gpu!Selected[i] < Gpu!Selected[j]
         /\ \A i \in mark \cap (lo .. hi - 1) : \E k \in 1 .. Len(Gpu!Selected) : Gpu!Selected[k] = i
<1> DEFINE S == mark \cap (lo .. hi - 1)
           s == Gpu!Selected
           e(i) == CHOOSE x \in S : Cardinality({y \in S : y < x}) = i - 1
           g(i) == CHOOSE x \in S : Gpu!Cardinality({y \in S : y < x}) = i - 1
<1>0. IsFiniteSet(S) /\ S \subseteq Int /\ S \subseteq lo .. hi - 1 /\ S \subseteq mark
      /\ Cardinality(S) <= hi - lo
  <2>1. IsFiniteSet(lo .. hi - 1) /\ Cardinality(lo .. hi - 1) = hi - lo /\ lo .. hi - 1 \subseteq Int
    BY FS_Interval
  <2>2. S \in SUBSET (lo .. hi - 1)
    OBVIOUS
  <2> HIDE DEF S
  <2>3. IsFiniteSet(S) /\ Cardinality(S) <= Cardinality(lo .. hi - 1)
    BY <2>1, <2>2, FS_Subset
  <2> QED BY <2>1, <2>2, <2>3 DEF S
<1>1. s = Ordered(S, <)
  <2>1. Ordered(S, <) = [i \in 1 .. Cardinality(S) |-> e(i)]
    BY DEF Ordered
  <2>2. s = [i \in 1 .. Gpu!Cardinality(S) |-> g(i)]
    BY DEF Gpu!Selected, Gpu!Ordered
  <2>3. \A i : g(i) = e(i)
    BY SameGpu, Zenon
  <2> HIDE DEF e, g, S, s
  <2> QED BY <2>1, <2>2, <2>3, SameGpu
<1> HIDE DEF S, s
<1>2. Lists(s, S) /\ \A i, j \in 1 .. Cardinality(S) : i < j => s[i] < s[j]
  BY <1>0, <1>1, OrderedNumbers
<1>3. /\ Cardinality(S) \in Nat /\ s \in [1 .. Cardinality(S) -> S]
      /\ \A z \in S : \E i \in 1 .. Cardinality(S) : s[i] = z
  BY <1>2 DEF Lists
<1>4. Len(s) = Cardinality(S)
  BY <1>3
<1>5. \A k \in 1 .. Len(s) : s[k] \in S /\ s[k] \in Int /\ lo <= s[k]
  <2>1. \A k \in 1 .. Len(s) : s[k] \in S
    BY <1>3, <1>4
  <2>2. \A i \in S : i \in Int /\ lo <= i
    BY <1>0
  <2> QED BY <2>1, <2>2
<1>6. \A k \in 1 .. Len(s) : lo + k - 1 <= s[k]
  <2>1. \A i, j \in 1 .. Len(s) : i < j => s[i] < s[j]
    BY <1>2, <1>4
  <2>2. Len(s) \in Nat /\ lo \in Int
    BY <1>3, <1>4
  <2> QED BY <1>5, <2>1, <2>2, Spread
<1>7. \A k \in 1 .. Len(s) : s[k] \in mark /\ s[k] \in lo .. hi - 1 /\ lo + k - 1 <= s[k]
  BY <1>0, <1>5, <1>6
<1>8. lo + Len(s) <= hi
  BY <1>0, <1>3, <1>4
<1>9. \A i, j \in 1 .. Len(s) : i < j => s[i] < s[j]
  BY <1>2, <1>4
<1>10. \A i \in mark \cap (lo .. hi - 1) : \E k \in 1 .. Len(s) : s[k] = i
  BY <1>3, <1>4 DEF S
<1> QED BY <1>3, <1>4, <1>7, <1>8, <1>9, <1>10 DEF s

LEMMA SelectedStays ==
  ASSUME mark' = mark, lo' = lo, hi' = hi
  PROVE  Gpu!Selected' = Gpu!Selected
BY DEF Gpu!Selected, Gpu!Ordered

LEMMA SelectStep ==
  ASSUME NEW x \in Indexes, Working(x), GpuCleans, Gpu!Select
  PROVE  Working(x)'
<1> DEFINE m == Len(Gpu!Selected)
           s == Gpu!Selected
           n == Count(x)
<1>1. /\ kernel = "select" /\ kernel' = "update" /\ mark' = mark /\ has' = has
      /\ LClean' = [i \in DOMAIN LClean |->
                      IF i \in lo .. lo + m - 1 THEN LClean[s[i - lo + 1]] ELSE LClean[i]]
  BY DEF Gpu!Select
<1>2. /\ turn = "gpu" /\ turn' = turn /\ lo' = lo /\ hi' = hi /\ start' = start /\ end' = end
      /\ ranges' = ranges /\ first' = first /\ RangeEnd' = RangeEnd /\ Past(x)' = Past(x)
      /\ Current(x)' = Current(x) /\ Gpu!InRanges' = Gpu!InRanges /\ LHybrid' = LHybrid
      /\ \A v : FoundAt(v)' = FoundAt(v)
  BY KernelStays
<1>3. /\ first \in Nat /\ lo \in 1 .. n /\ hi \in 1 .. n + 1 /\ lo < hi
      /\ Current(x) = lo .. hi - 1 /\ lo .. hi - 1 \subseteq 1 .. n
      /\ \A i \in 1 .. n : i \in Past(x) <=> i < lo
      /\ n \in Nat
  BY <1>2, CurrentIs, RowIs
<1>4. /\ m \in Nat /\ lo + m <= hi
      /\ \A k \in 1 .. m : s[k] \in mark /\ s[k] \in lo .. hi - 1
  BY <1>3, SelectedIs
<1>5. DOMAIN LClean = 0 .. n /\ LClean[0] = Gpu!Sentinel
      /\ (\A i \in 1 .. n : LClean[i] \in AllWords(x))
      /\ \A i \in lo .. hi - 1 : LClean[i] = Row(x)[i]
  <2>1. \A i \in lo .. hi - 1 : i \in 1 .. n /\ i \notin Past(x)
    BY <1>3
  <2> QED BY <1>1, <2>1 DEF Working, Array
<1>6. s' = s
  BY <1>1, <1>2, SelectedStays
<1> HIDE DEF m, s, n
<1>7. \A k \in 1 .. m : lo + k - 1 \in 0 .. n /\ LClean'[lo + k - 1] = Row(x)[s[k]]
  <2> SUFFICES ASSUME NEW k \in 1 .. m
               PROVE  lo + k - 1 \in 0 .. n /\ LClean'[lo + k - 1] = Row(x)[s[k]]
    OBVIOUS
  <2>1. lo + k - 1 \in 0 .. n /\ lo + k - 1 \in lo .. lo + m - 1 /\ (lo + k - 1) - lo + 1 = k
    BY <1>3, <1>4
  <2>2. LClean'[lo + k - 1] = LClean[s[k]]
    BY <1>1, <1>5, <2>1
  <2> QED BY <1>4, <1>5, <2>1, <2>2
<1>8. \A i \in 0 .. n : i \notin lo .. lo + m - 1 => LClean'[i] = LClean[i]
  BY <1>1, <1>5
<1>9. \A i \in 0 .. n : i \in lo .. lo + m - 1 => \E k \in 1 .. m : i = lo + k - 1
  <2> SUFFICES ASSUME NEW i \in lo .. lo + m - 1 PROVE \E k \in 1 .. m : i = lo + k - 1
    OBVIOUS
  <2>1. i - lo + 1 \in 1 .. m /\ i = lo + (i - lo + 1) - 1
    BY <1>3, <1>4
  <2> QED BY <2>1
<1>10. \A i \in Past(x) : i \in 1 .. n /\ LClean'[i] = LClean[i]
  <2>1. \A i \in Past(x) : i \in 1 .. n
    BY DEF Past, n
  <2>2. \A i \in 1 .. n : i \in Past(x) => i \in 0 .. n /\ i \notin lo .. lo + m - 1
    BY <1>3
  <2> QED BY <1>8, <2>1, <2>2
<1>11. \A i \in 1 .. n : LClean'[i] \in AllWords(x)
  <2> SUFFICES ASSUME NEW i \in 1 .. n PROVE LClean'[i] \in AllWords(x)
    OBVIOUS
  <2>1. i \in 0 .. n
    BY <1>3
  <2>2. CASE i \in lo .. lo + m - 1
    <3>1. PICK k \in 1 .. m : i = lo + k - 1
      BY <1>9, <2>1, <2>2
    <3>2. LClean'[i] = Row(x)[s[k]] /\ s[k] \in 1 .. n
      BY <1>3, <1>4, <1>7, <3>1
    <3> QED BY <3>2, RowTo DEF n
  <2>3. CASE i \notin lo .. lo + m - 1
    BY <1>5, <1>8, <2>1, <2>3
  <2> QED BY <2>2, <2>3
<1>12. Array(x)'
  <2>1. DOMAIN LClean' = 0 .. n /\ LClean' = [i \in 0 .. n |-> LClean'[i]]
    BY <1>1, <1>5
  <2>2. LClean'[0] = Gpu!Sentinel
    <3>1. 0 \in 0 .. n /\ 0 \notin lo .. lo + m - 1
      BY <1>3
    <3> QED BY <1>5, <1>8, <3>1
  <2>3. LClean' \in [0 .. n -> AllWords(x) \cup {Gpu!Sentinel}]
    <3>1. \A i \in 0 .. n : i = 0 \/ i \in 1 .. n
      BY <1>3
    <3>2. \A i \in 0 .. n : LClean'[i] \in AllWords(x) \cup {Gpu!Sentinel}
      BY <1>11, <2>2, <3>1
    <3> QED BY <2>1, <3>2
  <2>4. \A i \in Past(x) : LClean'[i].to < first
    BY <1>10 DEF Working, Array
  <2>5. \A i \in (1 .. n) \ Past(x) : i \notin Current(x) => LClean'[i] = Row(x)[i]
    <3>1. \A i \in 1 .. n : i \notin Current(x) => i \in 0 .. n /\ i \notin lo .. lo + m - 1
      BY <1>3, <1>4
    <3> QED BY <1>8, <3>1 DEF Working, Array, n
  <2> QED BY <1>1, <1>2, <1>11, <2>2, <2>3, <2>4, <2>5 DEF Working, Array, n
<1>13. \A v \in Vertices : v < first => Found(v)' = Found(v) /\ Seen(x, v)' = Seen(x, v)
  <2> SUFFICES ASSUME NEW v \in Vertices, v < first PROVE Found(v)' = Found(v)
    BY <1>2 DEF Seen
  <2>1. FoundAt(v) \subseteq Past(x)
    BY DEF Working, Settled
  <2>2. \A i \in FoundAt(v) : LClean'[i] = LClean[i]
    BY <1>10, <2>1
  <2> QED BY <1>2, <2>2 DEF Found
<1>14. \A v : Gpu!Cleaned(v)' = Gpu!Cleaned(v) /\ Kept(v)' = Kept(v)
  <2>1. \A i \in Gpu!InRanges : LClean'[i] = LClean[i]
    BY <1>10 DEF Working, Array
  <2>2. \A v : Gpu!Cleaned(v)' = Gpu!Cleaned(v)
    <3>1. \A v : {j \in Gpu!InRanges : LClean'[j].to = v} = {j \in Gpu!InRanges : LClean[j].to = v}
      BY <2>1
    <3>2. \A v : {Gpu!LabelOf(LClean'[i]) : i \in {j \in Gpu!InRanges : LClean[j].to = v}}
                  = {Gpu!LabelOf(LClean[i]) : i \in {j \in Gpu!InRanges : LClean[j].to = v}}
      BY <2>1
    <3> QED BY <1>2, <3>1, <3>2 DEF Gpu!Cleaned
  <2> QED BY <1>2, <2>2 DEF Kept
<1>15. Settled(x)'
  <2> SUFFICES ASSUME NEW v \in Vertices, v < first
               PROVE  /\ FoundAt(v) \subseteq Past(x) /\ \A i \in FoundAt(v) : LClean'[i].to = v
                      /\ Needs(x, v) \subseteq Kept(v) /\ Kept(v) \subseteq Found(v)
                      /\ Gpu!Cleaned(v) # {} => LHybrid[v] = <<>>
    BY <1>2, <1>13, <1>14 DEF Settled
  <2> QED BY <1>10 DEF Working, Settled
<1>16. ASSUME NEW y \in AllWords(x), LeanWord(x, y)
       PROVE  LeanWord(x, y)'
  <2>1. y.hub \in Vertices
    BY WordsAre DEF Word
  <2>2. Seen(x, y.hub)' = Seen(x, y.hub)
    BY <1>2, <1>13, <2>1 DEF Seen
  <2> QED BY <1>16, <2>2 DEF LeanWord
<1>17. LeanCleaned(x)'
  <2> SUFFICES ASSUME NEW v \in Vertices, v < first, NEW l \in Gpu!Cleaned(v),
                      NEW b \in Found(l.hub)', NEW a \in Given(x, v), Meet(a, b, l)
               PROVE  a = l
    BY <1>2, <1>14 DEF LeanCleaned
  <2>1. l \in Given(x, v)
    <3>1. l \in Found(v)
      BY DEF Working, Settled, Kept
    <3> QED BY <1>3, <3>1, FoundGiven DEF Working
  <2>2. l.hub \in Vertices /\ l.hub <= v
    BY <2>1, GivenSound DEF Label
  <2>3. l.hub < first
    BY <1>3, <2>2, Sizes DEF Vertices
  <2>4. b \in Found(l.hub)
    BY <1>13, <2>2, <2>3
  <2> QED BY <2>4 DEF Working, LeanCleaned
<1>18. OnGpu(x)'
  <2>1. \A i \in mark \cap Current(x) : LeanWord(x, Row(x)[i])'
    <3>1. \A i \in Current(x) : i \in 1 .. n
      BY DEF Current, n
    <3>2. \A i \in mark \cap Current(x) : LeanWord(x, Row(x)[i])
      BY <1>1, <1>2 DEF Working, OnGpu
    <3> QED BY <1>16, <3>1, <3>2, RowTo DEF n
  <2>2. Compact(x)'
    <3>1. \A i \in lo + m .. hi - 1 : LClean'[i] = Row(x)[i]
      <4>1. \A i \in lo + m .. hi - 1 : i \in 0 .. n /\ i \notin lo .. lo + m - 1 /\ i \in lo .. hi - 1
        BY <1>3, <1>4
      <4> QED BY <1>5, <1>8, <4>1
    <3> QED BY <1>2, <1>6, <1>7, <3>1 DEF Compact, m, s
  <2> QED BY <1>1, <1>2, <2>1, <2>2 DEF Working, OnGpu
<1> QED BY <1>12, <1>15, <1>17, <1>18, KernelStays DEF Working

(* After the select the front of the range holds what is left of it, in    *)
(* order and still whole where it is needed; behind it the range is stale. *)
New == lo .. lo + Len(Gpu!Selected) - 1

LEMMA NewWords ==
  ASSUME NEW x \in Indexes, Working(x), turn = "gpu", kernel = "update"
  PROVE  /\ lo \in 1 .. Count(x) /\ hi \in 1 .. Count(x) + 1 /\ lo < hi
         /\ Len(Gpu!Selected) \in Nat /\ lo + Len(Gpu!Selected) <= hi
         /\ New \subseteq Current(x) /\ New \subseteq 1 .. Count(x)
         /\ \A i \in New : \E k \in mark \cap Current(x) : LClean[i] = Row(x)[k] /\ i <= k
         /\ \A i, j \in New : i < j => LClean[i].to <= LClean[j].to
         /\ \A v \in Vertices : first <= v /\ v < RangeEnd =>
              \A l \in Needs(x, v) : \E i \in New : LClean[i] = WordOf(v, l)
         /\ \A i \in 1 .. Count(x) : lo + Len(Gpu!Selected) <= i => LClean[i] = Row(x)[i]
         /\ \A i \in 1 .. Count(x) : i < lo => LClean[i].to < first
<1> DEFINE m == Len(Gpu!Selected)
           s == Gpu!Selected
           n == Count(x)
<1>1. /\ first \in Nat /\ lo \in 1 .. n /\ hi \in 1 .. n + 1 /\ lo < hi
      /\ Current(x) = lo .. hi - 1 /\ lo .. hi - 1 \subseteq 1 .. n
      /\ \A i \in 1 .. n : i \in Past(x) <=> i < lo
      /\ n \in Nat
  BY CurrentIs, RowIs
<1>c. \A i \in 1 .. n : i \in Current(x) <=> first <= Row(x)[i].to /\ Row(x)[i].to < RangeEnd
  BY CurrentIs
<1>2. /\ m \in Nat /\ lo + m <= hi
      /\ \A k \in 1 .. m : s[k] \in mark /\ s[k] \in lo .. hi - 1 /\ lo + k - 1 <= s[k]
      /\ \A i, j \in 1 .. m : i < j => s[i] < s[j]
      /\ \A i \in mark \cap (lo .. hi - 1) : \E k \in 1 .. m : s[k] = i
  BY <1>1, SelectedIs
<1>3. /\ \A k \in 1 .. m : LClean[lo + k - 1] = Row(x)[s[k]]
      /\ \A i \in lo + m .. hi - 1 : LClean[i] = Row(x)[i]
  BY DEF Working, OnGpu, Compact
<1>n. New = lo .. lo + m - 1
  BY DEF New
<1> HIDE DEF m, s, n
<1>4. \A i \in New : i - lo + 1 \in 1 .. m /\ i = lo + (i - lo + 1) - 1 /\ i \in lo .. hi - 1
  BY <1>1, <1>2, <1>n
<1>5. ASSUME NEW i \in New
      PROVE  \E k \in mark \cap Current(x) : LClean[i] = Row(x)[k] /\ i <= k
  <2>1. LClean[i] = Row(x)[s[i - lo + 1]] /\ i <= s[i - lo + 1]
    BY <1>2, <1>3, <1>4
  <2>2. s[i - lo + 1] \in mark \cap Current(x)
    BY <1>1, <1>2, <1>4
  <2> QED BY <2>1, <2>2
<1>6. ASSUME NEW i \in New, NEW j \in New, i < j
      PROVE  LClean[i].to <= LClean[j].to
  <2>1. i - lo + 1 < j - lo + 1
    BY <1>1, <1>4, <1>6
  <2>2. s[i - lo + 1] < s[j - lo + 1] /\ s[i - lo + 1] \in 1 .. n /\ s[j - lo + 1] \in 1 .. n
    BY <1>1, <1>2, <1>4, <2>1
  <2>3. Row(x)[s[i - lo + 1]].to <= Row(x)[s[j - lo + 1]].to
    BY <2>2, RowTo DEF n
  <2> QED BY <1>3, <1>4, <2>3
<1>7. ASSUME NEW v \in Vertices, first <= v, v < RangeEnd, NEW l \in Needs(x, v)
      PROVE  \E i \in New : LClean[i] = WordOf(v, l)
  <2>1. /\ WordOf(v, l) \in AllWords(x) /\ WordOf(v, l).to = v /\ LabelIn(WordOf(v, l)) = l
    BY GivenIs, WordsAre
  <2>2. PICK j \in 1 .. n : Row(x)[j] = WordOf(v, l)
    BY <2>1, RowIs DEF n
  <2>3. j \in mark /\ j \in lo .. hi - 1
    BY <1>1, <1>c, <1>7, <2>1, <2>2 DEF Working, Array, n
  <2>4. PICK k \in 1 .. m : s[k] = j
    BY <1>2, <2>3
  <2>5. lo + k - 1 \in New
    BY <1>1, <1>2, <1>n
  <2> QED BY <1>3, <2>2, <2>4, <2>5
<1>8. ASSUME NEW i \in 1 .. n, lo + m <= i PROVE LClean[i] = Row(x)[i]
  <2>1. CASE i < hi
    <3>1. i \in lo + m .. hi - 1
      BY <1>1, <1>2, <1>8, <2>1
    <3> QED BY <1>3, <3>1
  <2>2. CASE ~(i < hi)
    <3>1. i \notin Past(x) /\ i \notin Current(x)
      BY <1>1, <2>2
    <3> QED BY <3>1 DEF Working, Array, n
  <2> QED BY <2>1, <2>2
<1>9. \A i \in 1 .. n : i < lo => LClean[i].to < first
  BY <1>1 DEF Working, Array
<1>10. New \subseteq Current(x) /\ New \subseteq 1 .. n
  BY <1>1, <1>4
<1> QED BY <1>1, <1>2, <1>5, <1>6, <1>7, <1>8, <1>9, <1>10 DEF m, n

(* Where clean_update_labels sets the offsets of a vertex of the range.    *)
Opens(v) == {i \in New : LClean[i].to = v /\ Gpu!To(LClean, i - 1) # v}
Closes(v) == {i \in New : LClean[i].to = v /\ Gpu!To(LClean, i + 1) # v}

LEMMA Offsets ==
  ASSUME NEW x \in Indexes, Working(x), turn = "gpu", kernel = "update",
         NEW v \in Vertices, first <= v, v < RangeEnd,
         NEW from, from = IF Opens(v) # {} THEN Min(Opens(v)) ELSE start[v],
         NEW to, to = IF Closes(v) # {} THEN Max(Closes(v)) + 1 ELSE end[v]
  PROVE  /\ from \in Nat /\ to \in Nat
         /\ \A i \in from .. to - 1 : i \in Current(x) /\ LClean[i].to = v
         /\ \A i \in New : LClean[i].to = v => i \in from .. to - 1
<1> DEFINE n == Count(x)
           m == Len(Gpu!Selected)
           P == {i \in New : LClean[i].to = v}
           e == lo + m
<1>1. /\ lo \in 1 .. n /\ hi \in 1 .. n + 1 /\ lo < hi /\ m \in Nat /\ e <= hi
      /\ New \subseteq Current(x) /\ New \subseteq 1 .. n
      /\ \A i \in New : \E k \in mark \cap Current(x) : LClean[i] = Row(x)[k] /\ i <= k
      /\ \A i, j \in New : i < j => LClean[i].to <= LClean[j].to
      /\ \A l \in Needs(x, v) : \E i \in New : LClean[i] = WordOf(v, l)
      /\ \A i \in 1 .. n : e <= i => LClean[i] = Row(x)[i]
      /\ \A i \in 1 .. n : i < lo => LClean[i].to < first
      /\ New = lo .. e - 1
  BY NewWords DEF New
<1>2. /\ n \in Nat /\ first \in Nat /\ v \in Nat /\ v < N /\ N \in Nat
      /\ Current(x) = lo .. hi - 1 /\ DOMAIN LClean = 0 .. n /\ LClean[0].to = N
      /\ \A i \in 1 .. n : LClean[i].to \in Nat
  <2>1. LClean[0] = Gpu!Sentinel /\ DOMAIN LClean = 0 .. n /\ \A i \in 1 .. n : LClean[i] \in AllWords(x)
    BY DEF Working, Array
  <2>2. \A i \in 1 .. n : LClean[i].to \in Nat
    BY <2>1, WordsAre, Sizes DEF Word, Vertices
  <2> QED BY <2>1, <2>2, RowIs, CurrentIs, Sizes DEF Gpu!Sentinel, Vertices
<1>3. /\ Begin(x, v) \in 1 .. n /\ Stop(x, v) \in 1 .. n + 1
      /\ (\A i \in 1 .. n : Row(x)[i].to = v <=> Begin(x, v) <= i /\ i < Stop(x, v))
      /\ end[v] = Stop(x, v) /\ Begin(x, v) < Stop(x, v)
  BY Blocks DEF Working, Array
<1>b. Stop(x, v) <= hi
  <2>1. Stop(x, v) - 1 \in 1 .. n /\ Row(x)[Stop(x, v) - 1].to = v
    BY <1>2, <1>3
  <2>2. Stop(x, v) - 1 \in Current(x)
    BY <2>1, CurrentIs
  <2> QED BY <1>1, <1>2, <1>3, <2>2
<1>e. e \in Nat /\ \A i \in Nat : lo <= i /\ i < e => i \in New
  BY <1>1
<1>f. \A i \in 1 .. n : e <= i => LClean[i] = Row(x)[i]
  BY <1>1
<1> HIDE DEF n, m, e, P
<1>4. P # {} /\ P \subseteq New /\ P \subseteq Nat /\ IsFiniteSet(P)
  <2>1. PICK i \in New : LClean[i] = WordOf(v, [hub |-> v, hop |-> 0, dist |-> 0])
    BY <1>1, OwnLabel
  <2>2. LClean[i].to = v
    BY <2>1 DEF WordOf
  <2>3. P \subseteq 1 .. n /\ P \subseteq New
    BY <1>1 DEF P
  <2>4. IsFiniteSet(P)
    <3>1. IsFiniteSet(1 .. n) /\ P \in SUBSET (1 .. n)
      BY <1>2, <2>3, FS_Interval
    <3> QED BY <3>1, FS_Subset
  <2> QED BY <1>2, <2>1, <2>2, <2>3, <2>4 DEF P
<1> DEFINE p == Min(P)
           q == Max(P)
<1>5. /\ p \in P /\ q \in P /\ \A k \in P : p <= k /\ k <= q
  <2>1. P \subseteq Int
    BY <1>4
  <2>2. \A k \in P : q >= k /\ q \in P
    BY <1>4, <2>1, MaxFinite
  <2>3. p \in P /\ \A k \in P : p <= k
    BY <1>4, MinNatural
  <2> HIDE DEF p, q
  <2> QED BY <1>4, <2>1, <2>2, <2>3
<1> HIDE DEF p, q
<1>6. /\ p \in New /\ q \in New /\ p <= q /\ LClean[p].to = v /\ LClean[q].to = v
      /\ p \in 1 .. n /\ q \in 1 .. n /\ lo <= p /\ q < e
      /\ \A i \in New : LClean[i].to = v <=> i \in P
  <2>1. p \in New /\ q \in New /\ p <= q /\ LClean[p].to = v /\ LClean[q].to = v
        /\ \A i \in New : LClean[i].to = v <=> i \in P
    BY <1>5 DEF P
  <2> QED BY <1>1, <1>2, <2>1 DEF e
<1>7. \A i \in p .. q : i \in New /\ LClean[i].to = v
  <2> SUFFICES ASSUME NEW i \in p .. q PROVE i \in New /\ LClean[i].to = v
    OBVIOUS
  <2>1. i \in New /\ i \in 1 .. n
    BY <1>e, <1>2, <1>6, <1>1
  <2>2. i = p \/ p < i
    BY <1>6
  <2>3. i = q \/ i < q
    BY <1>6
  <2>4. v <= LClean[i].to /\ LClean[i].to <= v
    BY <1>1, <1>2, <1>6, <2>1, <2>2, <2>3
  <2> QED BY <1>2, <2>1, <2>4
<1>8. Opens(v) = {p}
  <2>1. Gpu!To(LClean, p - 1) # v
    <3>1. CASE p - 1 = 0
      BY <1>2, <3>1 DEF Gpu!To
    <3>2. CASE p - 1 # 0
      <4>1. p - 1 \in 1 .. n /\ p - 1 \in 0 .. n
        BY <1>2, <1>6, <3>2
      <4>2. CASE p - 1 < lo
        <5>1. LClean[p - 1].to < first /\ LClean[p - 1].to \in Nat
          BY <1>1, <1>2, <4>1, <4>2
        <5> QED BY <1>2, <4>1, <5>1 DEF Gpu!To
      <4>3. CASE ~(p - 1 < lo)
        <5>1. p - 1 \in New /\ ~(p <= p - 1)
          BY <1>1, <1>e, <1>2, <1>6, <4>1, <4>3
        <5>2. LClean[p - 1].to # v
          BY <1>5, <1>6, <5>1
        <5> QED BY <1>2, <4>1, <5>2 DEF Gpu!To
      <4> QED BY <4>2, <4>3
    <3> QED BY <3>1, <3>2
  <2>2. \A i \in Opens(v) : i = p
    <3> SUFFICES ASSUME NEW i \in P, i # p, Gpu!To(LClean, i - 1) # v PROVE FALSE
      BY DEF Opens, P
    <3>1. i - 1 \in p .. q /\ i - 1 \in 0 .. n
      BY <1>2, <1>4, <1>5, <1>6
    <3> QED BY <1>2, <1>7, <3>1 DEF Gpu!To
  <2> QED BY <1>6, <2>1, <2>2 DEF Opens
<1>9. from = p
  <2>1. Min({p}) = p
    <3>1. {p} \subseteq Nat /\ {p} # {}
      BY <1>6
    <3>2. Min({p}) \in {p}
      BY <3>1, MinNatural
    <3> QED BY <3>2
  <2> QED BY <1>8, <2>1
<1>10. \A i \in Closes(v) : i = q
  <2> SUFFICES ASSUME NEW i \in P, i # q, Gpu!To(LClean, i + 1) # v PROVE FALSE
    BY DEF Closes, P
  <2>1. i + 1 \in p .. q /\ i + 1 \in 0 .. n
    BY <1>2, <1>4, <1>5, <1>6
  <2> QED BY <1>2, <1>7, <2>1 DEF Gpu!To
<1>11. CASE Closes(v) # {}
  <2>1. Closes(v) = {q}
    BY <1>10, <1>11
  <2>2. Max({q}) = q
    <3>1. q \in Int /\ {q} # {}
      BY <1>6
    <3>2. IsFiniteSet({q})
      BY FS_Singleton, Zenon
    <3>3. {q} \subseteq Int
      BY <3>1
    <3>4. Max({q}) \in {q}
      BY <3>1, <3>2, <3>3, MaxFinite
    <3> QED BY <3>4
  <2>3. to = q + 1
    BY <1>11, <2>1, <2>2
  <2>4. \A i : i \in from .. to - 1 <=> i \in p .. q
    BY <1>6, <1>9, <2>3
  <2>5. \A i \in P : i \in p .. q
    BY <1>4, <1>5, <1>6
  <2> QED BY <1>1, <1>6, <1>7, <1>9, <2>3, <2>4, <2>5
<1>12. CASE Closes(v) = {}
  <2>1. to = Stop(x, v)
    BY <1>3, <1>12
  <2>2. q < Stop(x, v)
    <3>1. PICK k \in mark \cap Current(x) : LClean[q] = Row(x)[k] /\ q <= k
      BY <1>1, <1>6
    <3>2. k \in 1 .. n /\ Row(x)[k].to = v
      BY <1>1, <1>2, <1>6, <3>1
    <3> QED BY <1>2, <1>3, <1>6, <3>1, <3>2
  <2>3. Gpu!To(LClean, q + 1) = v
    BY <1>6, <1>12 DEF Closes
  <2>4. ASSUME q + 1 < Stop(x, v)
        PROVE  q + 1 = e /\ Begin(x, v) <= e
    <3>1. q + 1 \in 1 .. n /\ q + 1 \in 0 .. n /\ LClean[q + 1].to = v
      BY <1>2, <1>3, <1>6, <2>3, <2>4 DEF Gpu!To
    <3>2. q + 1 \notin New
      <4>1. ~(q + 1 <= q)
        BY <1>6
      <4> QED BY <1>5, <1>6, <3>1, <4>1
    <3>3. q + 1 = e
      BY <1>1, <1>2, <1>6, <3>1, <3>2 DEF e
    <3>4. Row(x)[q + 1].to = v
      <4>1. LClean[q + 1] = Row(x)[q + 1]
        <5>1. e <= q + 1
          BY <1>e, <3>3
        <5> QED BY <1>f, <3>1, <5>1
      <4> QED BY <3>1, <4>1
    <3>5. Begin(x, v) <= q + 1
      BY <1>3, <3>1, <3>4
    <3> QED BY <3>3, <3>5
  <2>5. ASSUME NEW i \in from .. to - 1
        PROVE  i \in Current(x) /\ LClean[i].to = v
    <3>1. i \in Nat /\ p <= i /\ i < Stop(x, v) /\ i \in 1 .. n
      BY <1>2, <1>3, <1>6, <1>9, <2>1
    <3>2. i \in Current(x)
      BY <1>1, <1>2, <1>6, <1>b, <1>3, <3>1
    <3>3. CASE i <= q
      BY <1>6, <1>7, <3>1, <3>2, <3>3
    <3>4. CASE ~(i <= q)
      <4>1. q + 1 <= i /\ q + 1 < Stop(x, v)
        BY <1>3, <1>6, <3>1, <3>4
      <4>2. e <= i /\ Begin(x, v) <= i
        BY <1>3, <1>6, <2>4, <3>1, <4>1
      <4>3. LClean[i] = Row(x)[i] /\ Row(x)[i].to = v
        BY <1>1, <1>3, <3>1, <4>2
      <4> QED BY <3>2, <4>3
    <3> QED BY <3>3, <3>4
  <2>6. \A i \in P : i \in from .. to - 1
    <3> SUFFICES ASSUME NEW i \in P PROVE i \in from .. to - 1
      OBVIOUS
    <3>1. i \in Nat /\ p <= i /\ i <= q
      BY <1>4, <1>5
    <3>2. i < Stop(x, v) /\ Stop(x, v) \in Nat /\ p \in Nat
      BY <1>2, <1>3, <1>6, <2>2, <3>1
    <3> QED BY <1>9, <2>1, <3>1, <3>2
  <2> QED BY <1>3, <1>6, <1>9, <2>1, <2>5, <2>6
<1> QED BY <1>11, <1>12

LEMMA UpdateIs ==
  ASSUME GpuReturns
  PROVE  /\ turn = "gpu" /\ kernel = "update" /\ kernel' = "rest"
         /\ start' = [v \in Vertices |-> IF Opens(v) # {} THEN Min(Opens(v)) ELSE start[v]]
         /\ end' = [v \in Vertices |-> IF Closes(v) # {} THEN Max(Closes(v)) + 1 ELSE end[v]]
         /\ ranges' = Append(ranges, <<lo, lo + Len(Gpu!Selected)>>)
         /\ LHybrid' = [v \in Vertices |->
                          IF v \in first .. RangeEnd - 1 THEN <<>> ELSE LHybrid[v]]
         /\ LClean' = LClean /\ lo' = lo /\ hi' = hi /\ mark' = mark
         /\ first' = first + CleanSize /\ turn' = "pick" /\ UNCHANGED cpuVars
<1> DEFINE new == lo .. lo + Len(Gpu!Selected) - 1
           o(v) == {i \in new : LClean[i].to = v /\ Gpu!To(LClean, i - 1) # v}
           c(v) == {i \in new : LClean[i].to = v /\ Gpu!To(LClean, i + 1) # v}
<1>1. \A v : o(v) = Opens(v) /\ c(v) = Closes(v)
  BY DEF Opens, Closes, New
<1>2. Gpu!UpdateOffsets(first, RangeEnd) /\ turn = "gpu" /\ first' = first + CleanSize
      /\ turn' = "pick" /\ UNCHANGED cpuVars
  BY DEF GpuReturns
<1>3. /\ start' = [v \in Gpu!Vertices |-> IF o(v) # {} THEN Gpu!Min(o(v)) ELSE start[v]]
      /\ end' = [v \in Gpu!Vertices |-> IF c(v) # {} THEN Gpu!Max(c(v)) + 1 ELSE end[v]]
  BY <1>2 DEF Gpu!UpdateOffsets
<1>4. /\ kernel = "update" /\ kernel' = "rest" /\ LClean' = LClean /\ lo' = lo /\ hi' = hi
      /\ mark' = mark /\ ranges' = Append(ranges, <<lo, lo + Len(Gpu!Selected)>>)
      /\ LHybrid' = [v \in Gpu!Vertices |->
                       IF v \in first .. RangeEnd - 1 THEN <<>> ELSE LHybrid[v]]
  BY <1>2 DEF Gpu!UpdateOffsets
<1> HIDE DEF o, c
<1>5. /\ start' = [v \in Vertices |-> IF Opens(v) # {} THEN Min(Opens(v)) ELSE start[v]]
      /\ end' = [v \in Vertices |-> IF Closes(v) # {} THEN Max(Closes(v)) + 1 ELSE end[v]]
  BY <1>1, <1>3, SameGpu
<1> QED BY <1>2, <1>4, <1>5, SameGpu

LEMMA RangesGrow ==
  ASSUME NEW x \in Indexes, Working(x), GpuReturns
  PROVE  ranges' \in Seq(Nat \X Nat) /\ ranges' # <<>> /\ Gpu!InRanges' = Gpu!InRanges \cup New
<1> DEFINE e == <<lo, lo + Len(Gpu!Selected)>>
<1>1. /\ ranges' = Append(ranges, e) /\ ranges \in Seq(Nat \X Nat)
      /\ New = lo .. lo + Len(Gpu!Selected) - 1 /\ e \in Nat \X Nat
  <2>1. turn = "gpu" /\ kernel = "update" /\ ranges' = Append(ranges, e)
    BY UpdateIs
  <2>2. lo \in Nat /\ Len(Gpu!Selected) \in Nat
    BY <2>1, NewWords, RowIs
  <2> QED BY <2>1, <2>2 DEF Working, Array, New
<1> HIDE DEF e
<1>2. ranges' \in Seq(Nat \X Nat) /\ ToSet(ranges') = ToSet(ranges) \cup {e}
  BY <1>1, Appended
<1>3. ranges' # <<>>
  BY <1>1
<1>4. /\ Gpu!InRanges = UNION {r[1] .. r[2] - 1 : r \in ToSet(ranges)}
      /\ Gpu!InRanges' = UNION {r[1] .. r[2] - 1 : r \in ToSet(ranges')}
  BY SameGpu DEF Gpu!InRanges
<1>5. e[1] .. e[2] - 1 = New
  BY <1>1 DEF e
<1>6. Gpu!InRanges' = Gpu!InRanges \cup New
  <2>1. UNION {r[1] .. r[2] - 1 : r \in ToSet(ranges) \cup {e}}
        = (UNION {r[1] .. r[2] - 1 : r \in ToSet(ranges)}) \cup (e[1] .. e[2] - 1)
    OBVIOUS
  <2> QED BY <1>2, <1>4, <1>5, <2>1
<1> QED BY <1>2, <1>3, <1>6


(* What the return of a GPU range leaves of a vertex: above the range all  *)
(* as it was, ...                                                          *)
LEMMA ReturnedRange ==
  ASSUME NEW x \in Indexes, Working(x), GpuReturns
  PROVE  /\ first \in Nat /\ first' \in Nat /\ first < RangeEnd /\ RangeEnd \in Nat
         /\ \A v \in Vertices : v < first' <=> v < RangeEnd
         /\ \A v \in Vertices : v < first => v < RangeEnd
         /\ Past(x)' = Past(x) \cup Current(x)
         /\ New \subseteq Current(x)
         /\ \A i \in New : LClean[i] \in AllWords(x) /\ LClean[i].to \in Vertices
                           /\ first <= LClean[i].to /\ LClean[i].to < RangeEnd
                           /\ LeanWord(x, LClean[i])
<1>1. turn = "gpu" /\ kernel = "update" /\ first' = first + CleanSize
  BY UpdateIs
<1>2. /\ first \in Nat /\ first < N /\ \A i \in 1 .. Count(x) :
             i \in Current(x) <=> first <= Row(x)[i].to /\ Row(x)[i].to < RangeEnd
  BY <1>1, CurrentIs
<1>3. /\ RangeEnd \in Nat /\ RangeEnd <= N /\ RangeEnd <= first' /\ first < RangeEnd
      /\ RangeEnd = N \/ RangeEnd = first'
      /\ first' \in Nat
  BY <1>1, <1>2, RangeEnds, CleanAssumption
<1>4. \A v \in Vertices : v \in Nat /\ v < N
  BY Sizes DEF Vertices
<1>5. \A v \in Vertices : (v < first' <=> v < RangeEnd) /\ (v < first => v < RangeEnd)
  BY <1>2, <1>3, <1>4, Sizes
<1>6. Past(x)' = Past(x) \cup Current(x)
  <2>1. \A i \in 1 .. Count(x) :
          Row(x)[i].to < first' <=> Row(x)[i].to < first \/ i \in Current(x)
    <3> SUFFICES ASSUME NEW i \in 1 .. Count(x)
                 PROVE  Row(x)[i].to < first' <=> Row(x)[i].to < first \/ i \in Current(x)
      OBVIOUS
    <3>1. Row(x)[i].to \in Vertices /\ Row(x)[i].to \in Nat
      BY RowTo
    <3> QED BY <1>2, <1>3, <1>5, <3>1
  <2>2. Past(x)' = {i \in 1 .. Count(x) : Row(x)[i].to < first'}
    BY DEF Past
  <2>3. Current(x) \subseteq 1 .. Count(x)
    BY DEF Current
  <2> QED BY <2>1, <2>2, <2>3 DEF Past
<1>7. ASSUME NEW i \in New
      PROVE  /\ LClean[i] \in AllWords(x) /\ LClean[i].to \in Vertices
             /\ first <= LClean[i].to /\ LClean[i].to < RangeEnd /\ LeanWord(x, LClean[i])
  <2>1. PICK k \in mark \cap Current(x) : LClean[i] = Row(x)[k]
    BY <1>1, NewWords
  <2>2. k \in 1 .. Count(x)
    BY DEF Current
  <2>3. LeanWord(x, Row(x)[k])
    BY <1>1 DEF Working, OnGpu
  <2> QED BY <1>2, <2>1, <2>2, <2>3, RowTo
<1>8. New \subseteq Current(x)
  BY <1>1, NewWords
<1> QED BY <1>2, <1>3, <1>5, <1>6, <1>7, <1>8

LEMMA ReturnedOutside ==
  ASSUME NEW x \in Indexes, Working(x), GpuReturns, NEW v \in Vertices,
         v < first \/ RangeEnd <= v
  PROVE  /\ start'[v] = start[v] /\ end'[v] = end[v] /\ LHybrid'[v] = LHybrid[v]
         /\ FoundAt(v)' = FoundAt(v) /\ Found(v)' = Found(v)
         /\ Gpu!Cleaned(v)' = Gpu!Cleaned(v) /\ Kept(v)' = Kept(v)
<1>1. \A i \in New : LClean[i].to # v
  <2>1. v \in Nat /\ first \in Nat /\ RangeEnd \in Nat
    BY ReturnedRange, Sizes DEF Vertices
  <2>2. \A i \in New : LClean[i].to \in Nat
    BY ReturnedRange, Sizes DEF Vertices
  <2> QED BY <2>1, <2>2, ReturnedRange
<1>2. Opens(v) = {} /\ Closes(v) = {}
  BY <1>1 DEF Opens, Closes
<1>3. v \notin first .. RangeEnd - 1
  BY ReturnedRange, Sizes DEF Vertices
<1>4. start'[v] = start[v] /\ end'[v] = end[v] /\ LHybrid'[v] = LHybrid[v] /\ LClean' = LClean
  BY <1>2, <1>3, UpdateIs
<1>5. FoundAt(v)' = FoundAt(v) /\ Found(v)' = Found(v)
  BY <1>4 DEF FoundAt, Found
<1>6. Gpu!Cleaned(v)' = Gpu!Cleaned(v)
  <2>1. {i \in Gpu!InRanges' : LClean[i].to = v} = {i \in Gpu!InRanges : LClean[i].to = v}
    BY <1>1, RangesGrow
  <2> QED BY <1>4, <2>1 DEF Gpu!Cleaned
<1> QED BY <1>4, <1>5, <1>6 DEF Kept

(* ... and of one in the range, what the select kept of it.                *)
LEMMA ReturnedInside ==
  ASSUME NEW x \in Indexes, Working(x), GpuReturns, NEW v \in Vertices,
         first <= v, v < RangeEnd
  PROVE  /\ start'[v] \in Nat /\ end'[v] \in Nat /\ LHybrid'[v] = <<>>
         /\ FoundAt(v)' \subseteq Current(x) /\ \A i \in FoundAt(v)' : LClean[i].to = v
         /\ Found(v)' \subseteq Given(x, v) /\ Kept(v)' \subseteq Found(v)'
         /\ Needs(x, v) \subseteq Kept(v)'
         /\ Kept(v)' = Gpu!Cleaned(v)'
         /\ \A l \in Gpu!Cleaned(v)' : \E y \in AllWords(x) :
              y.to = v /\ l = LabelIn(y) /\ LeanWord(x, y)
<1>1. /\ turn = "gpu" /\ kernel = "update" /\ LClean' = LClean
      /\ start'[v] = IF Opens(v) # {} THEN Min(Opens(v)) ELSE start[v]
      /\ end'[v] = IF Closes(v) # {} THEN Max(Closes(v)) + 1 ELSE end[v]
  BY UpdateIs
<1>2. LHybrid'[v] = <<>>
  <2>1. v \in first .. RangeEnd - 1
    BY ReturnedRange, Sizes DEF Vertices
  <2> QED BY <2>1, UpdateIs
<1>3. /\ start'[v] \in Nat /\ end'[v] \in Nat
      /\ \A i \in start'[v] .. end'[v] - 1 : i \in Current(x) /\ LClean[i].to = v
      /\ \A i \in New : LClean[i].to = v => i \in start'[v] .. end'[v] - 1
  BY <1>1, Offsets
<1>4. FoundAt(v)' = start'[v] .. end'[v] - 1
  BY DEF FoundAt
<1>5. Found(v)' = {Gpu!LabelOf(LClean[i]) : i \in FoundAt(v)'}
  BY <1>1 DEF Found
<1>6. \A i \in Current(x) : LClean[i] \in AllWords(x)
  BY DEF Current, Working, Array
<1>7. Found(v)' \subseteq Given(x, v)
  BY <1>3, <1>4, <1>5, <1>6, WordsAre, SameWords
<1>8. \A i \in Gpu!InRanges : LClean[i].to # v
  <2>1. \A i \in Gpu!InRanges : LClean[i].to < first /\ LClean[i].to \in Nat
    <3>1. \A i \in Gpu!InRanges : i \in 1 .. Count(x) /\ LClean[i].to < first /\ LClean[i] \in AllWords(x)
      BY DEF Working, Array, Past
    <3> QED BY <3>1, WordsAre, Sizes DEF Word, Vertices
  <2>2. v \in Nat /\ first \in Nat
    BY ReturnedRange, Sizes DEF Vertices
  <2> QED BY <2>1, <2>2
<1>9. Gpu!Cleaned(v)' = {Gpu!LabelOf(LClean[i]) : i \in {j \in New : LClean[j].to = v}}
  <2>1. {i \in Gpu!InRanges' : LClean[i].to = v} = {i \in New : LClean[i].to = v}
    BY <1>8, RangesGrow
  <2> QED BY <1>1, <2>1 DEF Gpu!Cleaned
<1>10. Kept(v)' = Gpu!Cleaned(v)'
  <2>1. Kept(v)' = ToSet(LHybrid'[v]) \cup Gpu!Cleaned(v)'
    BY DEF Kept
  <2>2. ToSet(<<>>) = {}
    BY DEF ToSet
  <2> QED BY <1>2, <2>1, <2>2
<1>11. Kept(v)' \subseteq Found(v)'
  BY <1>3, <1>4, <1>5, <1>9, <1>10
<1>12. ASSUME NEW l \in Needs(x, v) PROVE l \in Gpu!Cleaned(v)'
  <2>1. PICK i \in New : LClean[i] = WordOf(v, l)
    BY <1>1, NewWords
  <2>2. WordOf(v, l).to = v /\ LabelIn(WordOf(v, l)) = l
    BY GivenIs, WordsAre
  <2> QED BY <1>9, <2>1, <2>2, SameWords
<1>13. ASSUME NEW l \in Gpu!Cleaned(v)'
       PROVE  \E y \in AllWords(x) : y.to = v /\ l = LabelIn(y) /\ LeanWord(x, y)
  <2>1. PICK i \in New : LClean[i].to = v /\ l = Gpu!LabelOf(LClean[i])
    BY <1>9
  <2>2. LClean[i] \in AllWords(x) /\ LeanWord(x, LClean[i])
    BY ReturnedRange
  <2> QED BY <2>1, <2>2, SameWords
<1> QED BY <1>2, <1>3, <1>4, <1>7, <1>10, <1>11, <1>12, <1>13

LEMMA GpuReturnsCpu ==
  ASSUME NEW x \in Indexes, Working(x), GpuReturns
  PROVE  Control' /\ Tasks' /\ Scratch' /\ Rows(x)' /\ Tests(x)' /\ Leaner'
<1>1. /\ turn = "gpu" /\ turn' = "pick" /\ UNCHANGED cpuVars
      /\ LHybrid' = [v \in Vertices |-> IF v \in first .. RangeEnd - 1 THEN <<>> ELSE LHybrid[v]]
  BY UpdateIs
<1>2. /\ first \in Nat /\ first' \in Nat /\ RangeEnd \in Nat /\ first < RangeEnd
      /\ \A v \in Vertices : v < first' <=> v < RangeEnd
  BY ReturnedRange
<1>3. /\ driver' = driver /\ tasks' = tasks /\ finished' = finished /\ pc' = pc /\ vertex' = vertex
      /\ used' = used /\ Lv' = Lv /\ final' = final /\ Qid' = Qid /\ T' = T
  BY <1>1 DEF cpuVars
<1>4. /\ Busy' = Busy /\ Held' = Held /\ Testing' = Testing
      /\ tasks = <<>> /\ finished = {} /\ Busy = {} /\ driver = "rest"
      /\ Testing = {} /\ \A t \in Workers : pc[t] = "idle"
  <2>1. tasks = <<>> /\ finished = {} /\ Busy = {} /\ driver = "rest"
    BY <1>1 DEF Working, Control
  <2>2. Testing \subseteq Busy
    BY DEF Testing, Busy
  <2> QED BY <1>3, <2>1, <2>2 DEF Busy, Held, Testing
<1>5. Control'
  BY <1>1, <1>2, <1>3, <1>4 DEF Control
<1>6. Tasks'
  BY <1>3, <1>4 DEF Working, Tasks
<1>7. Scratch'
  <2>1. \A u, m : Noted(u, m)' = Noted(u, m)
    BY <1>3 DEF Noted
  <2>2. Cpu!Slots' = Cpu!Slots
    BY DEF Cpu!Slots
  <2> QED BY <1>3, <1>4, <2>1, <2>2 DEF Working, Scratch
<1>8. Rows(x)'
  <2>1. ToSet(<<>>) = {} /\ <<>> \in Seq(Label) /\ Increasing(<<>>)
    BY DEF ToSet, Increasing
  <2>2. ASSUME NEW v \in Vertices
        PROVE  /\ LHybrid'[v] \in Seq(Label) /\ ToSet(LHybrid'[v]) \subseteq Given(x, v)
               /\ Increasing(LHybrid'[v])
               /\ Pending(v)' => ToSet(LHybrid'[v]) = Given(x, v)
               /\ first' <= v => Needs(x, v) \subseteq ToSet(LHybrid'[v])
    <3>0. v \in Nat
      BY Sizes DEF Vertices
    <3>1. CASE v \in first .. RangeEnd - 1
      <4>1. LHybrid'[v] = <<>>
        BY <1>1, <3>1
      <4>2. ~(first' <= v)
        BY <1>2, <3>0, <3>1
      <4> QED BY <2>1, <4>1, <4>2 DEF Pending
    <3>2. CASE v \notin first .. RangeEnd - 1
      <4>1. LHybrid'[v] = LHybrid[v]
        BY <1>1, <3>2
      <4>2. first' <= v => first <= v
        BY <1>2, <3>0
      <4>3. Pending(v)' => Pending(v)
        BY <1>3, <1>4, <4>2 DEF Pending
      <4> QED BY <4>1, <4>2, <4>3 DEF Working, Rows
    <3> QED BY <3>1, <3>2
  <2>3. LHybrid' \in [Vertices -> Seq(Label)]
    BY <1>1, <2>2
  <2> QED BY <2>2, <2>3 DEF Rows
<1>9. Tests(x)'
  BY <1>3, <1>4 DEF Working, Tests
<1>10. Leaner'
  BY RangesGrow DEF Leaner
<1> QED BY <1>5, <1>6, <1>7, <1>8, <1>9, <1>10

LEMMA GpuReturnsStep ==
  ASSUME NEW x \in Indexes, Working(x), GpuReturns
  PROVE  Working(x)'
<1>1. /\ turn = "gpu" /\ kernel = "update" /\ kernel' = "rest" /\ turn' = "pick"
      /\ LClean' = LClean /\ lo' = lo /\ hi' = hi /\ mark' = mark
      /\ start' \in [Vertices -> {start'[v] : v \in Vertices}]
      /\ end' \in [Vertices -> {end'[v] : v \in Vertices}]
  BY UpdateIs
<1>2. /\ first \in Nat /\ first' \in Nat /\ RangeEnd \in Nat /\ first < RangeEnd
      /\ \A v \in Vertices : (v < first' <=> v < RangeEnd) /\ (v < first => v < RangeEnd)
      /\ Past(x)' = Past(x) \cup Current(x) /\ New \subseteq Current(x)
  BY ReturnedRange
<1>v. \A v \in Vertices : v \in Nat
  BY Sizes DEF Vertices
<1>3. Array(x)'
  <2>1. start' \in [Vertices -> Nat] /\ end' \in [Vertices -> Nat]
    <3>1. ASSUME NEW v \in Vertices PROVE start'[v] \in Nat /\ end'[v] \in Nat
      <4>1. CASE first <= v /\ v < RangeEnd
        BY <4>1, ReturnedInside
      <4>2. CASE v < first \/ RangeEnd <= v
        BY <4>2, ReturnedOutside DEF Working, Array
      <4> QED BY <1>2, <1>v, <4>1, <4>2
    <3> QED BY <1>1, <3>1
  <2>2. \A i \in Past(x)' : LClean[i].to < first'
    <3>1. ASSUME NEW i \in Past(x)' PROVE LClean[i].to < RangeEnd /\ LClean[i].to \in Vertices
      <4>1. i \in 1 .. Count(x) /\ LClean[i] \in AllWords(x) /\ LClean[i].to \in Vertices
        BY <1>2, WordsAre DEF Past, Current, Working, Array, Word
      <4>2. CASE i \in Past(x)
        BY <1>2, <4>1, <4>2 DEF Working, Array
      <4>3. CASE i \in New
        BY <4>1, <4>3, ReturnedRange
      <4>4. CASE i \in Current(x) /\ i \notin New
        <5>1. LClean[i] = Row(x)[i]
          <6>1. /\ lo \in Nat /\ Len(Gpu!Selected) \in Nat /\ i \in Nat /\ lo <= i
                /\ \A j \in 1 .. Count(x) : lo + Len(Gpu!Selected) <= j => LClean[j] = Row(x)[j]
            BY <1>1, <4>1, <4>4, NewWords, RowIs DEF Current
          <6>2. lo + Len(Gpu!Selected) <= i
            BY <4>4, <6>1 DEF New
          <6> QED BY <4>1, <6>1, <6>2
        <5>2. Row(x)[i].to < RangeEnd
          BY <1>1, <4>1, <4>4, CurrentIs
        <5> QED BY <4>1, <5>1, <5>2
      <4> QED BY <1>2, <4>2, <4>3, <4>4
    <3> QED BY <1>2, <3>1
  <2>3. \A i \in (1 .. Count(x)) \ Past(x)' : LClean[i] = Row(x)[i]
    BY <1>2 DEF Working, Array
  <2>4. ASSUME NEW v \in Vertices, first' <= v
        PROVE  start'[v] = Begin(x, v) /\ end'[v] = Stop(x, v)
    <3>1. RangeEnd <= v /\ first <= v
      BY <1>2, <1>v, <2>4
    <3>2. start'[v] = start[v] /\ end'[v] = end[v]
      BY <3>1, ReturnedOutside
    <3> QED BY <3>1, <3>2 DEF Working, Array
  <2>5. ranges' \in Seq(Nat \X Nat) /\ Gpu!InRanges' \subseteq Past(x)'
    BY <1>2, RangesGrow DEF Working, Array
  <2>6. /\ LClean \in [0 .. Count(x) -> AllWords(x) \cup {Gpu!Sentinel}]
        /\ LClean[0] = Gpu!Sentinel /\ \A i \in 1 .. Count(x) : LClean[i] \in AllWords(x)
        /\ mark \subseteq 0 .. Count(x)
        /\ \A i \in 1 .. Count(x) : LabelIn(Row(x)[i]) \in Needs(x, Row(x)[i].to) => i \in mark
    BY DEF Working, Array
  <2> QED BY <1>1, <2>1, <2>2, <2>3, <2>4, <2>5, <2>6 DEF Array
<1>4. ASSUME NEW v \in Vertices, v < first'
      PROVE  /\ FoundAt(v)' \subseteq Past(x)' /\ \A i \in FoundAt(v)' : LClean[i].to = v
             /\ Needs(x, v) \subseteq Kept(v)' /\ Kept(v)' \subseteq Found(v)'
             /\ Gpu!Cleaned(v)' # {} => LHybrid'[v] = <<>>
  <2>1. CASE v < first
    BY <1>2, <2>1, ReturnedOutside DEF Working, Settled
  <2>2. CASE ~(v < first)
    <3>1. first <= v /\ v < RangeEnd
      BY <1>2, <1>v, <1>4, <2>2
    <3> QED BY <1>2, <3>1, ReturnedInside
  <2> QED BY <2>1, <2>2
<1>5. Settled(x)'
  BY <1>1, <1>4 DEF Settled
<1>6. OnGpu(x)'
  BY <1>1 DEF OnGpu
<1>7. ASSUME NEW v \in Vertices, v < first'
      PROVE  Found(v)' \subseteq Seen(x, v) /\ Found(v)' \subseteq Given(x, v)
  <2>1. CASE v < first
    BY <1>2, <2>1, ReturnedOutside, FoundGiven DEF Working
  <2>2. CASE ~(v < first)
    <3>1. first <= v /\ v < RangeEnd
      BY <1>2, <1>v, <1>7, <2>2
    <3> QED BY <2>2, <3>1, ReturnedInside DEF Seen
  <2> QED BY <2>1, <2>2
<1>8. ASSUME NEW v \in Vertices, v < first', NEW l \in Gpu!Cleaned(v)',
             NEW b \in Found(l.hub)', NEW a \in Given(x, v), Meet(a, b, l)
      PROVE  a = l
  <2>0. l \in Given(x, v) /\ l.hub \in Vertices /\ l.hub <= v
    <3>1. l \in Kept(v)'
      BY DEF Kept
    <3>2. l \in Given(x, v)
      BY <1>4, <1>7, <1>8, <3>1
    <3> QED BY <3>2, GivenSound DEF Label
  <2>1. l.hub < first'
    BY <1>2, <1>v, <1>8, <2>0
  <2>2. CASE v < first
    <3>1. l.hub < first
      BY <1>2, <1>v, <2>0, <2>2
    <3>2. l \in Gpu!Cleaned(v) /\ b \in Found(l.hub)
      BY <2>0, <2>2, <3>1, ReturnedOutside
    <3> QED BY <1>8, <2>2, <3>2 DEF Working, LeanCleaned
  <2>3. CASE ~(v < first)
    <3>1. first <= v /\ v < RangeEnd
      BY <1>2, <1>v, <1>8, <2>3
    <3>2. PICK y \in AllWords(x) : y.to = v /\ l = LabelIn(y) /\ LeanWord(x, y)
      BY <3>1, ReturnedInside
    <3>3. l.hub = y.hub /\ Meet(a, b, y)
      BY <1>8, <3>2 DEF LabelIn, Meet
    <3>4. b \in Seen(x, y.hub)
      BY <1>7, <2>0, <2>1, <3>3
    <3> QED BY <3>2, <3>3, <3>4 DEF LeanWord
  <2> QED BY <2>2, <2>3
<1>9. LeanCleaned(x)'
  BY <1>8 DEF LeanCleaned
<1> QED BY <1>3, <1>5, <1>6, <1>9, GpuReturnsCpu DEF Working

LEMMA GpuStep ==
  ASSUME NEW x \in Indexes, Working(x), GpuCleans
  PROVE  Working(x)'
<1>1. Gpu!Prune \/ Gpu!ClearHash \/ Gpu!Select
  BY DEF GpuCleans, Gpu!Step
<1> QED BY <1>1, PruneStep, ClearHashStep, SelectStep
-----------------------------------------------------------------------------
(***************************************************************************)
(* 8. The end of the loop.                                                 *)
(***************************************************************************)
(* Of one kind of executors, nothing that is kept is answered.             *)
LEMMA KeptIs ==
  ASSUME NEW x \in Indexes, Working(x), NEW v \in Vertices, v < first
  PROVE  /\ Needs(x, v) \subseteq Kept(v) /\ Kept(v) \subseteq Found(v)
         /\ Found(v) \subseteq Given(x, v) /\ \A i \in FoundAt(v) : LClean[i].to = v
<1>1. first \in Nat
  BY DEF Working, Control
<1> QED BY <1>1, FoundGiven DEF Working, Settled

LEMMA KeptMinimal ==
  ASSUME NEW x \in Indexes, Working(x), turn = "pick", first >= N, OneKind
  PROVE  \A v \in Vertices : \A l, a \in Kept(v) : \A b \in Kept(l.hub) : Meet(a, b, l) => a = l
<1>0. first \in Nat /\ \A v \in Vertices : v < first /\ v \in Nat
  BY Sizes DEF Working, Control, Vertices
<1> SUFFICES ASSUME NEW v \in Vertices, NEW l \in Kept(v), NEW a \in Kept(v),
                    NEW b \in Kept(l.hub), Meet(a, b, l)
             PROVE  a = l
  OBVIOUS
<1>1. /\ l \in Given(x, v) /\ a \in Given(x, v) /\ l.hub \in Vertices
      /\ l \in Label /\ a \in Label
  BY <1>0, KeptIs, GivenSound DEF Label
<1>2. b \in Given(x, l.hub) /\ b \in Found(l.hub) /\ b \in Label
  BY <1>0, <1>1, KeptIs, GivenSound
<1>3. CASE \A u \in Vertices : Gpu!Cleaned(u) # {}
  <2>1. LHybrid[v] = <<>>
    BY <1>0, <1>3 DEF Working, Settled
  <2>2. l \in Gpu!Cleaned(v)
    BY <2>1 DEF Kept, ToSet
  <2> QED BY <1>0, <1>1, <1>2, <2>2 DEF Working, LeanCleaned
<1>4. CASE ranges = <<>>
  <2>1. \A u : Gpu!Cleaned(u) = {} /\ Kept(u) = ToSet(LHybrid[u])
    <3>1. Gpu!InRanges = {}
      BY <1>4 DEF Gpu!InRanges, Gpu!ToSet
    <3> QED BY <3>1 DEF Kept, Gpu!Cleaned
  <2>2. Lean(LHybrid, LHybrid[v])
    <3>1. ~Pending(v)
      BY <1>0 DEF Pending
    <3> QED BY <1>4, <3>1 DEF Working, Leaner
  <2>3. ~LabelLess(a, l)
    BY <2>1, <2>2 DEF Lean
  <2>4. /\ a.hub = b.hub /\ a.hop + b.hop <= l.hop
        /\ b.hub <= l.hub /\ (b.hub = l.hub => b.hop = 0)
    BY <1>1, <1>2, GivenSound DEF Meet
  <2>5. /\ a.hub \in Nat /\ l.hub \in Nat /\ a.hop \in Nat /\ b.hop \in Nat /\ l.hop \in Nat
    BY <1>1, <1>2, Sizes DEF Label, Vertices
  <2>6. a.hub = l.hub /\ a.hop = l.hop
    BY <2>3, <2>4, <2>5 DEF LabelLess
  <2> QED BY <1>1, <2>6, GivenIs
<1> QED BY <1>3, <1>4 DEF OneKind

LEMMA NothingHeld ==
  ASSUME Scratch
  PROVE  Cpu!NothingLeft
<1>1. ASSUME NEW i \in DOMAIN Qid
      PROVE  T[Qid[i]] = [m \in Vertices |-> {}]
  <2>1. Qid[i] \in Cpu!Slots
    BY DEF Scratch
  <2>2. \A t \in Testing : used[t] # Qid[i]
    BY DEF Scratch, Testing, Held
  <2> QED BY <2>1, <2>2 DEF Scratch
<1> QED BY <1>1, SameCpu DEF Cpu!NothingLeft

(* The rows are sorted again, with what the GPUs kept in them.             *)
LEMMA ConvertIs ==
  ASSUME NEW x \in Indexes, Working(x), Convert, NEW v \in Vertices
  PROVE  ToSet(LHybrid'[v]) = Kept(v)
<1>1. /\ turn = "pick" /\ first >= N
      /\ LHybrid' = [u \in Vertices |-> SortLabels(ToSet(LHybrid[u]) \cup Gpu!Cleaned(u))]
  BY SameGpu, SameSort DEF Convert, Gpu!Convert
<1>2. v < first
  BY <1>1, Sizes DEF Working, Control, Vertices
<1>3. IsFiniteSet(Kept(v)) /\ Kept(v) \subseteq Label
  <2>1. Kept(v) \subseteq Given(x, v) /\ IsFiniteSet(Given(x, v)) /\ Given(x, v) \subseteq Label
    BY <1>2, KeptIs, GivenIs
  <2> QED BY <2>1, FS_Subset
<1>4. LHybrid'[v] = SortLabels(Kept(v))
  BY <1>1 DEF Kept
<1> QED BY <1>3, <1>4, Sorting

LEMMA ConvertStep ==
  ASSUME NEW x \in Indexes, Working(x), Convert
  PROVE  Over(x)'
<1>1. /\ turn = "pick" /\ first >= N /\ turn' = "done" /\ first' = first /\ UNCHANGED cpuVars
      /\ LClean' = LClean /\ start' = start /\ end' = end /\ ranges' = ranges
      /\ LHybrid' = [v \in Vertices |-> SortLabels(ToSet(LHybrid[v]) \cup Gpu!Cleaned(v))]
  BY SameGpu, SameSort DEF Convert, Gpu!Convert
<1>2. first \in Nat /\ \A v \in Vertices : v < first
  BY <1>1, Sizes DEF Working, Control, Vertices
<1>3. \A v : FoundAt(v)' = FoundAt(v) /\ Found(v)' = Found(v) /\ Gpu!Cleaned(v)' = Gpu!Cleaned(v)
  BY <1>1 DEF FoundAt, Found, Gpu!Cleaned, Gpu!InRanges
<1>4. \A v \in Vertices : ToSet(LHybrid'[v]) = Kept(v)
  BY ConvertIs
<1>5. ASSUME NEW v \in Vertices
      PROVE  /\ Needs(x, v) \subseteq ToSet(LHybrid'[v]) /\ ToSet(LHybrid'[v]) \subseteq Given(x, v)
             /\ \A i \in FoundAt(v)' : LClean'[i].to = v /\ Gpu!LabelOf(LClean'[i]) \in Given(x, v)
             /\ ToSet(LHybrid'[v]) \subseteq Found(v)'
  <2>1. \A i \in FoundAt(v) : Gpu!LabelOf(LClean[i]) \in Given(x, v)
    BY <1>2, KeptIs DEF Found
  <2> QED BY <1>1, <1>2, <1>3, <1>4, <2>1, KeptIs
<1>6. ASSUME OneKind'
      PROVE  Minimal([v \in Vertices |-> ToSet(LHybrid'[v])])
  <2>1. OneKind
    BY <1>1, <1>3, <1>6 DEF OneKind
  <2>2. [v \in Vertices |-> ToSet(LHybrid'[v])] = [v \in Vertices |-> Kept(v)]
    BY <1>4
  <2> DEFINE rows == [v \in Vertices |-> Kept(v)]
  <2>3. ASSUME NEW v \in Vertices, NEW l \in rows[v], Redundant(rows, v, l)
        PROVE  FALSE
    <3>1. PICK a \in rows[v] \ {l}, b \in rows[l.hub] : Meet(a, b, l)
      BY <2>3 DEF Redundant, Meet
    <3>2. l \in Kept(v) /\ a \in Kept(v) /\ a # l
      BY <3>1
    <3>3. l.hub \in Vertices
      BY <1>2, <3>2, KeptIs, GivenSound DEF Label
    <3>4. b \in Kept(l.hub)
      BY <3>1, <3>3
    <3> QED BY <1>1, <2>1, <3>1, <3>2, <3>4, KeptMinimal
  <2> QED BY <2>2, <2>3 DEF Minimal
<1>7. Cpu!NothingLeft'
  <2>1. Qid' = Qid /\ T' = T
    BY <1>1 DEF cpuVars
  <2>2. Cpu!NothingLeft
    BY NothingHeld DEF Working
  <2> QED BY <2>1, <2>2 DEF Cpu!NothingLeft
<1> QED BY <1>1, <1>2, <1>5, <1>6, <1>7 DEF Over


LEMMA CleanNext == CleanInv /\ [Next]_vars => CleanInv'
<1> SUFFICES ASSUME NEW x \in Indexes, Right(x), [Next]_vars PROVE Right(x)'
  BY DEF CleanInv
<1>1. w' = w /\ given' = given
  BY DEF Next, PickCpu, CpuReturns, CpuCleans, PickGpu, GpuCleans, GpuReturns, Convert, Done, vars, loop
<1>2. CASE Working(x)
  <2>1. CASE UNCHANGED vars
    <3>1. Working(x)'
      <4>1. /\ UNCHANGED loop /\ UNCHANGED cpuVars /\ UNCHANGED gpuVars /\ LHybrid' = LHybrid
        BY <2>1 DEF vars
      <4>2. first' = first /\ turn' = turn /\ ranges' = ranges
        BY <4>1 DEF loop, gpuVars
      <4>3. Tasks' /\ Scratch' /\ Rows(x)' /\ Tests(x)' /\ Leaner'
        BY <1>2, <4>1, <4>2, CpuStays DEF Working
      <4>4. Control'
        <5>1. driver' = driver /\ tasks' = tasks /\ finished' = finished /\ Busy' = Busy
          BY <4>1 DEF cpuVars, Busy
        <5> QED BY <1>2, <4>2, <5>1 DEF Working, Control
      <4>5. /\ kernel' = kernel /\ LClean' = LClean /\ start' = start /\ end' = end /\ lo' = lo
            /\ hi' = hi /\ mark' = mark /\ has' = has
        BY <4>1 DEF gpuVars
      <4>6. /\ Past(x)' = Past(x) /\ Current(x)' = Current(x) /\ Gpu!InRanges' = Gpu!InRanges
            /\ RangeEnd' = RangeEnd /\ Gpu!Selected' = Gpu!Selected
            /\ \A v : /\ FoundAt(v)' = FoundAt(v) /\ Found(v)' = Found(v)
                      /\ Gpu!Cleaned(v)' = Gpu!Cleaned(v) /\ Kept(v)' = Kept(v)
                      /\ Seen(x, v)' = Seen(x, v)
        BY <4>1, <4>2, <4>5, SelectedStays
           DEF Past, Current, Gpu!InRanges, RangeEnd, FoundAt, Found, Gpu!Cleaned, Kept, Seen
      <4>7. Array(x)' /\ Settled(x)' /\ LeanCleaned(x)'
        BY <1>2, <4>1, <4>2, <4>5, <4>6 DEF Working, Array, Settled, LeanCleaned
      <4>8. \A y : LeanWord(x, y)' <=> LeanWord(x, y)
        BY <4>6 DEF LeanWord
      <4>9. Compact(x)' <=> Compact(x)
        BY <4>5, <4>6 DEF Compact
      <4>10. OnGpu(x)'
        BY <1>2, <4>2, <4>5, <4>6, <4>8, <4>9 DEF Working, OnGpu
      <4> QED BY <4>3, <4>4, <4>7, <4>10 DEF Working
    <3> QED BY <1>1, <3>1 DEF Right
  <2>2. CASE PickCpu
    BY <1>1, <1>2, <2>2, PickCpuStep DEF Right
  <2>3. CASE CpuReturns
    BY <1>1, <1>2, <2>3, CpuReturnsStep DEF Right
  <2>4. ASSUME NEW t \in Workers, CpuCleans(t) PROVE Right(x)'
    BY <1>1, <1>2, <2>4, CpuStep DEF Right
  <2>5. CASE PickGpu
    BY <1>1, <1>2, <2>5, PickGpuStep DEF Right
  <2>6. CASE GpuCleans
    BY <1>1, <1>2, <2>6, GpuStep DEF Right
  <2>7. CASE GpuReturns
    BY <1>1, <1>2, <2>7, GpuReturnsStep DEF Right
  <2>8. CASE Convert
    BY <1>1, <1>2, <2>8, ConvertStep DEF Right
  <2>9. CASE Done
    BY <1>2, <2>9 DEF Done, Working, Control
  <2> QED BY <2>1, <2>2, <2>3, <2>4, <2>5, <2>6, <2>7, <2>8, <2>9 DEF Next
<1>3. CASE Over(x)
  <2>1. UNCHANGED vars
    <3>1. turn = "done"
      BY <1>3 DEF Over
    <3> QED BY <3>1 DEF Next, PickCpu, CpuReturns, CpuCleans, PickGpu, GpuCleans, GpuReturns, Convert, Done
  <2>2. /\ first' = first /\ turn' = turn /\ LHybrid' = LHybrid /\ Qid' = Qid /\ T' = T
        /\ LClean' = LClean /\ start' = start /\ end' = end /\ ranges' = ranges
    BY <2>1 DEF vars, loop, cpuVars, gpuVars
  <2>3. /\ \A v : FoundAt(v)' = FoundAt(v) /\ Found(v)' = Found(v) /\ Gpu!Cleaned(v)' = Gpu!Cleaned(v)
        /\ (OneKind' <=> OneKind) /\ (Cpu!NothingLeft' <=> Cpu!NothingLeft)
    BY <2>2 DEF FoundAt, Found, Gpu!Cleaned, Gpu!InRanges, OneKind, Cpu!NothingLeft
  <2>4. Over(x)'
    BY <1>3, <2>2, <2>3 DEF Over
  <2> QED BY <1>1, <2>4 DEF Right
<1> QED BY <1>2, <1>3 DEF Right

(* Whatever executors take the ranges and whatever their steps interleave  *)
(* with, the invariant holds.                                              *)
THEOREM CleanInvariant == Spec => []CleanInv
<1> QED BY CleanInit, CleanNext, PTL DEF Spec

(* What is left of a vertex at any moment: all that is needed of it, and   *)
(* only labels it was given.                                               *)
LEMMA IndexIs ==
  ASSUME NEW x \in Indexes, Right(x), NEW v \in Vertices
  PROVE  /\ Needs(x, v) \subseteq Index[v] /\ Index[v] \subseteq Given(x, v)
         /\ v < first => /\ Index[v] \subseteq Found(v)
                         /\ \A i \in FoundAt(v) : /\ LClean[i].to = v
                                                  /\ Gpu!LabelOf(LClean[i]) \in Given(x, v)
<1>1. Index[v] = IF turn = "done" THEN ToSet(LHybrid[v]) ELSE Kept(v)
  BY DEF Index, Kept
<1>2. CASE Working(x)
  <2>1. turn # "done" /\ first \in Nat
    BY <1>2 DEF Working, Control
  <2>2. CASE v < first
    <3>1. /\ Needs(x, v) \subseteq Kept(v) /\ Kept(v) \subseteq Found(v)
          /\ Found(v) \subseteq Given(x, v) /\ \A i \in FoundAt(v) : LClean[i].to = v
      BY <1>2, <2>2, KeptIs
    <3> QED BY <1>1, <2>1, <3>1 DEF Found
  <2>3. CASE ~(v < first)
    <3>1. first <= v
      BY <2>1, <2>3, Sizes DEF Vertices
    <3>2. Gpu!Cleaned(v) = {}
      BY <1>2, <2>1, <3>1, Untouched DEF Working
    <3>3. Kept(v) = ToSet(LHybrid[v])
      BY <3>2 DEF Kept
    <3> QED BY <1>1, <1>2, <2>1, <2>3, <3>1, <3>3 DEF Working, Rows
  <2> QED BY <2>2, <2>3
<1>3. CASE Over(x)
  BY <1>1, <1>3 DEF Over
<1> QED BY <1>2, <1>3 DEF Right

(***************************************************************************)
(* 9. The properties the runs check, for every instance.                   *)
(***************************************************************************)
(* OffsetsFindLabels: where clean_update_labels leaves an end offset alone *)
(* because of the stale word behind the range, the tail it lets in is the  *)
(* vertex's own.                                                           *)
THEOREM OffsetsRight == Spec => []OffsetsFindLabels
<1>1. CleanInv => OffsetsFindLabels
  <2> SUFFICES ASSUME NEW x \in Indexes, Right(x), NEW v \in 0 .. Min({first, N}) - 1
               PROVE  /\ \A y \in {LClean[i] : i \in start[v] .. end[v] - 1} :
                           y.to = v /\ Gpu!LabelOf(y) \in given[v]
                      /\ Index[v] \subseteq
                           {Gpu!LabelOf(y) : y \in {LClean[i] : i \in start[v] .. end[v] - 1}}
    BY DEF CleanInv, OffsetsFindLabels
  <2>1. first \in Nat /\ given[v] = Given(x, v)
    BY DEF Right, Working, Over, Control, Given
  <2>2. v \in Vertices /\ v < first
    <3> DEFINE S == {first, N}
    <3>1. S \subseteq Nat /\ S # {}
      BY <2>1, Sizes
    <3> HIDE DEF S
    <3>2. Min(S) \in S /\ \A k \in S : Min(S) <= k
      BY <3>1, MinNatural
    <3>3. Min(S) \in Nat /\ Min(S) <= first /\ Min(S) <= N
      BY <3>1, <3>2 DEF S
    <3>4. v \in 0 .. Min(S) - 1
      BY DEF S
    <3> QED BY <2>1, <3>3, <3>4, Sizes DEF Vertices
  <2>3. /\ Index[v] \subseteq Found(v)
        /\ \A i \in FoundAt(v) : LClean[i].to = v /\ Gpu!LabelOf(LClean[i]) \in Given(x, v)
    BY <2>2, IndexIs
  <2> QED BY <2>1, <2>3 DEF Found, FoundAt
<1> QED BY <1>1, CleanInvariant, PTL

(* ScratchClean: a task that clears only the rows of the hubs it kept      *)
(* returns an empty table.                                                 *)
THEOREM ScratchEmpty == Spec => []ScratchClean
<1>1. CleanInv => ScratchClean
  BY NothingHeld DEF CleanInv, Right, Working, Over, ScratchClean
<1> QED BY <1>1, CleanInvariant, PTL

(* MinimalAtEnd: executors of one kind leave nothing redundant, in         *)
(* whatever order the tasks of a range and the ranges themselves ran.      *)
THEOREM NothingRedundantAtEnd == Spec => []MinimalAtEnd
<1>1. CleanInv => MinimalAtEnd
  <2> SUFFICES ASSUME NEW x \in Indexes, Right(x), turn = "done", OneKind
               PROVE  Minimal([v \in Vertices |-> ToSet(LHybrid[v])])
    BY DEF CleanInv, MinimalAtEnd
  <2>1. Over(x)
    BY DEF Right, Working, Control
  <2> QED BY <2>1 DEF Over
<1> QED BY <1>1, CleanInvariant, PTL

LEMMA SameCovers == \A labels, g : Cleaning!Covers(labels, g) <=> Covers(labels, g)
<1>0. Cleaning!Vertices = Vertices /\ Cleaning!Inf = Inf
  BY DEF Cleaning!Vertices, Vertices, Cleaning!Inf, Inf
<1>m. \A S : Cleaning!Min(S) = Min(S)
  BY Zenon DEF Cleaning!Min, Min
<1>1. \A g : Cleaning!HopDist(g) = HopDist(g)
  BY SMT DEF Cleaning!HopDist, HopDist, Cleaning!NoHops, NoHops, Cleaning!OneHopMore, OneHopMore,
             Cleaning!Vertices, Vertices, Cleaning!Inf, Inf, Cleaning!Nbrs, Nbrs, Cleaning!Min, Min
<1>2. \A a, b, k : Cleaning!QueryDist(a, b, k) = QueryDist(a, b, k)
  BY <1>0, <1>m, Zenon DEF Cleaning!QueryDist, QueryDist
<1> QED BY <1>0, <1>1, <1>2, Zenon DEF Cleaning!Covers, Covers

LEMMA IndexCovers ==
  ASSUME NEW x \in Indexes, Right(x)
  PROVE  Covers(Index, w)
<1>1. \A v \in Vertices : Needs(x, v) \subseteq Index[v] /\ Index[v] \subseteq Given(x, v)
  BY IndexIs
<1>2. w = x.w
  BY DEF Right
<1> QED BY <1>1, <1>2, NeedsCover

(* The select moves nothing that is done.                                  *)
LEMMA SelectMoves ==
  ASSUME NEW x \in Indexes, Working(x), GpuCleans, Gpu!Select
  PROVE  \A i \in Past(x) : LClean'[i] = LClean[i]
<1>1. turn = "gpu"
  BY DEF GpuCleans
<1>2. \A i \in Past(x) : i < lo /\ i \in Nat /\ lo \in Nat /\ i \in DOMAIN LClean
  <2>1. DOMAIN LClean = 0 .. Count(x) /\ Count(x) \in Nat
    BY RowIs DEF Working, Array
  <2>2. \A i \in Past(x) : i \in 1 .. Count(x)
    BY DEF Past
  <2> QED BY <1>1, <2>1, <2>2, CurrentIs
<1>3. \A i \in Past(x) : i \notin lo .. lo + Len(Gpu!Selected) - 1
  BY <1>2
<1>4. LClean' = [i \in DOMAIN LClean |->
                   IF i \in lo .. lo + Len(Gpu!Selected) - 1 THEN LClean[Gpu!Selected[i - lo + 1]]
                   ELSE LClean[i]]
  BY DEF Gpu!Select
<1> QED BY <1>2, <1>3, <1>4

(* Labels only go: what a step leaves of a vertex it had before.           *)
LEMMA IndexShrinks ==
  ASSUME NEW x \in Indexes, Right(x), [Next]_vars, NEW v \in Vertices
  PROVE  Index'[v] \subseteq Index[v]
<1> DEFINE now(u) == IF turn = "done" THEN ToSet(LHybrid[u]) ELSE Kept(u)
           then(u) == IF turn' = "done" THEN ToSet(LHybrid'[u]) ELSE Kept(u)'
<1>1. Index[v] = now(v)
  BY DEF Index, Kept
<1>2. Index'[v] = then(v)
  BY DEF Index, Kept
<1> SUFFICES then(v) \subseteq now(v)
  BY <1>1, <1>2
<1>3. ASSUME LHybrid'[v] = LHybrid[v], UNCHANGED gpuVars, turn' = "done" <=> turn = "done"
      PROVE  then(v) \subseteq now(v)
  <2>1. LClean' = LClean /\ ranges' = ranges
    BY <1>3 DEF gpuVars
  <2>2. Kept(v)' = Kept(v)
    BY <1>3, <2>1 DEF Kept, Gpu!Cleaned, Gpu!InRanges
  <2> QED BY <1>3, <2>2
<1>4. CASE UNCHANGED vars \/ Done
  BY <1>3, <1>4 DEF Done, vars, loop
<1>5. CASE PickCpu
  BY <1>3, <1>5 DEF PickCpu, Cpu!StartRange
<1>6. CASE CpuReturns
  BY <1>3, <1>6 DEF CpuReturns, Cpu!CollectRange
<1>7. CASE Over(x)
  <2>1. turn = "done"
    BY <1>7 DEF Over
  <2>2. UNCHANGED vars \/ Done
    BY <2>1 DEF Next, PickCpu, CpuReturns, CpuCleans, PickGpu, GpuCleans, GpuReturns, Convert
  <2> QED BY <1>4, <2>2
<1>8. ASSUME Working(x), NEW t \in Workers, CpuCleans(t)
      PROVE  then(v) \subseteq now(v)
  <2>0. turn = "cpu" /\ turn' = "cpu" /\ UNCHANGED gpuVars
    BY <1>8 DEF CpuCleans, loop
  <2>1. CASE LHybrid'[v] = LHybrid[v]
    BY <1>3, <2>0, <2>1
  <2>2. CASE LHybrid'[v] # LHybrid[v]
    <3>1. Cpu!Write(t)
      BY <1>8, <2>2
         DEF CpuCleans, Cpu!Step, Cpu!TakeTask, Cpu!TakeSlot, Cpu!Copy, Cpu!Test, Cpu!ReturnSlot
    <3>2. pc[t] = "test" /\ LHybrid' = [LHybrid EXCEPT ![vertex[t]] = final[t]]
      BY <3>1 DEF Cpu!Write
    <3>3. vertex[t] = v /\ LHybrid'[v] = final[t]
      BY <1>8, <2>2, <3>2 DEF Working, Rows
    <3>4. ToSet(final[t]) \subseteq ToSet(LHybrid[v])
      BY <1>8, <3>2, <3>3 DEF Working, Tests, Testing
    <3>5. Gpu!Cleaned(v)' = Gpu!Cleaned(v)
      BY <2>0 DEF gpuVars, Gpu!Cleaned, Gpu!InRanges
    <3> QED BY <2>0, <3>3, <3>4, <3>5 DEF Kept
  <2> QED BY <2>1, <2>2
<1>9. CASE Working(x) /\ PickGpu
  <2>1. LHybrid' = LHybrid /\ LClean' = LClean /\ ranges' = ranges /\ turn = "pick" /\ turn' = "gpu"
    BY <1>9 DEF PickGpu, Gpu!InitHash
  <2>2. Kept(v)' = Kept(v)
    BY <2>1 DEF Kept, Gpu!Cleaned, Gpu!InRanges
  <2> QED BY <2>1, <2>2
<1>10. CASE Working(x) /\ GpuCleans
  <2>1. turn = "gpu" /\ turn' = "gpu" /\ LHybrid' = LHybrid /\ Gpu!InRanges' = Gpu!InRanges
    BY <1>10, KernelStays
  <2>2. \A i \in Gpu!InRanges : LClean'[i] = LClean[i]
    <3>1. \A i \in Gpu!InRanges : i \in Past(x)
      BY <1>10 DEF Working, Array
    <3>2. CASE Gpu!Select
      BY <1>10, <3>1, <3>2, SelectMoves
    <3>3. CASE ~Gpu!Select
      BY <1>10, <3>3 DEF GpuCleans, Gpu!Step, Gpu!Prune, Gpu!ClearHash
    <3> QED BY <3>2, <3>3
  <2>3. Gpu!Cleaned(v)' = Gpu!Cleaned(v)
    <3>1. {j \in Gpu!InRanges : LClean'[j].to = v} = {j \in Gpu!InRanges : LClean[j].to = v}
      BY <2>2
    <3>2. {Gpu!LabelOf(LClean'[i]) : i \in {j \in Gpu!InRanges : LClean[j].to = v}}
          = {Gpu!LabelOf(LClean[i]) : i \in {j \in Gpu!InRanges : LClean[j].to = v}}
      BY <2>2
    <3> QED BY <2>1, <3>1, <3>2 DEF Gpu!Cleaned
  <2> QED BY <2>1, <2>3 DEF Kept
<1>11. CASE Working(x) /\ GpuReturns
  <2>1. turn = "gpu" /\ turn' = "pick" /\ UNCHANGED cpuVars
    BY <1>11, UpdateIs
  <2>2. CASE v < first \/ RangeEnd <= v
    BY <1>11, <2>1, <2>2, ReturnedOutside
  <2>3. CASE ~(v < first \/ RangeEnd <= v)
    <3>1. first <= v /\ v < RangeEnd
      BY <1>11, <2>3, ReturnedRange, Sizes DEF Vertices
    <3>2. Pending(v)
      BY <1>11, <2>1, <3>1 DEF Pending, Working, Control, Busy
    <3>3. ToSet(LHybrid[v]) = Given(x, v)
      BY <1>11, <3>2 DEF Working, Rows
    <3>4. Kept(v)' \subseteq Given(x, v)
      BY <1>11, <3>1, ReturnedInside
    <3> QED BY <2>1, <3>3, <3>4 DEF Kept
  <2> QED BY <2>2, <2>3
<1>12. CASE Working(x) /\ Convert
  <2>1. turn = "pick" /\ turn' = "done"
    BY <1>12 DEF Convert
  <2> QED BY <1>12, <2>1, ConvertIs
<1>13. Working(x) \/ Over(x)
  BY DEF Right
<1> QED BY <1>4, <1>5, <1>6, <1>7, <1>8, <1>9, <1>10, <1>11, <1>12, <1>13 DEF Next

(* The refinement: every step of the loop, of whatever executor, is a Drop *)
(* of LabelIndex or leaves the index as it was.                            *)
THEOREM CleaningNeverLies == Spec => IndexNeverLies
<1>1. CleanInv => Covers(Index, w)
  BY IndexCovers DEF CleanInv
<1>2. CleanInv' => Covers(Index, w)'
  BY <1>1, PTL
<1>3. CleanInv => Cleaning!Init
  BY <1>1, SameCovers DEF Cleaning!Init
<1>4. CleanInv /\ CleanInv' /\ [Next]_vars => [Cleaning!Drop]_<<w, Index>>
  <2> SUFFICES ASSUME CleanInv, CleanInv', [Next]_vars, ~(UNCHANGED <<w, Index>>)
               PROVE  Cleaning!Drop
    OBVIOUS
  <2>1. PICK x \in Indexes : Right(x)
    BY DEF CleanInv
  <2>2. w' = w
    BY DEF Next, PickCpu, CpuReturns, CpuCleans, PickGpu, GpuCleans, GpuReturns, Convert, Done, vars, loop
  <2>3. \A v \in Vertices : Index'[v] \subseteq Index[v]
    BY <2>1, IndexShrinks
  <2>4. Cleaning!Covers(Index', w)
    BY <1>2, <2>2, SameCovers
  <2>5. Index' # Index
    BY <2>2
  <2>6. Cleaning!Vertices = Vertices
    BY DEF Cleaning!Vertices, Vertices
  <2> QED BY <2>2, <2>3, <2>4, <2>5, <2>6, Zenon DEF Cleaning!Drop
<1> QED BY <1>3, <1>4, CleanInit, CleanInvariant, PTL DEF Spec, IndexNeverLies, Cleaning!Spec
=============================================================================
