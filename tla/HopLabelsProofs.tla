-------------------------- MODULE HopLabelsProofs --------------------------
(***************************************************************************)
(* The mathematics the label generators rest on.  The distance over walks  *)
(* of at most h edges is the least over the walks by one edge fewer, is    *)
(* symmetric and obeys the triangle law.  A label (t -> v, h) is canonical *)
(* if its distance is the least within h hops, no fewer hops reach it and  *)
(* no vertex above t lies on such a way.  CanonicalCovers: whatever else a *)
(* set of labels holds, if each is at least the distance and the canonical *)
(* ones are there, then every query within K hops is answered right.       *)
(***************************************************************************)
EXTENDS HopLabels, Ordering, FiniteSetTheorems, FunctionTheorems,
        WellFoundedInduction, TLAPS

(***************************************************************************)
(* Induction, stated about sets: every set of natural numbers has a least  *)
(* element.                                                                *)
(***************************************************************************)
LEMMA LeastNatural ==
  ASSUME NEW S, S \subseteq Nat, S # {}
  PROVE  \E m \in S : \A k \in S : m <= k
<1>1. \E R : /\ IsWellFoundedOn(R, Nat)
             /\ \A x, y \in Nat : y < x => <<y, x>> \in R
  <2>1. IsWellFoundedOn(OpToRel(<, Nat), Nat)
    BY NatLessThanWellFounded, Zenon
  <2>2. \A x, y \in Nat : y < x => <<y, x>> \in OpToRel(<, Nat)
    BY Zenon DEF OpToRel
  <2> QED BY <2>1, <2>2, Zenon
<1>2. PICK R : /\ IsWellFoundedOn(R, Nat)
               /\ \A x, y \in Nat : y < x => <<y, x>> \in R
  BY <1>1
<1>3. \E x \in S : \A y \in S : ~ (<<y, x>> \in R)
  BY <1>2, WFMin
<1>4. \E x \in S : \A y \in S : ~ (y < x)
  BY <1>2, <1>3, Zenon
<1> QED BY <1>4

(* Induction up to a bound: what holds of 0 and goes on to the next number *)
(* holds of all.                                                           *)
LEMMA UpTo ==
  ASSUME NEW n \in Nat, NEW S, 0 \in S,
         \A i \in 0 .. n - 1 : i \in S => i + 1 \in S
  PROVE  0 .. n \subseteq S
<1> DEFINE Bad == {i \in 0 .. n : i \notin S}
<1> SUFFICES ASSUME Bad # {} PROVE FALSE
  OBVIOUS
<1>1. \E m \in Bad : \A k \in Bad : m <= k
  <2>1. Bad \subseteq Nat
    OBVIOUS
  <2> HIDE DEF Bad
  <2> QED BY <2>1, LeastNatural
<1>1a. PICK m \in Bad : \A k \in Bad : m <= k
  BY <1>1
<1>2. m # 0 /\ m - 1 \in 0 .. n - 1 /\ m - 1 \notin Bad
  BY <1>1a
<1>3. m - 1 \in S
  BY <1>2
<1> QED BY <1>2, <1>3

LEMMA AllNaturals ==
  ASSUME NEW S, 0 \in S, \A i \in Nat : i \in S => i + 1 \in S
  PROVE  Nat \subseteq S
<1> SUFFICES ASSUME NEW n \in Nat PROVE n \in S
  OBVIOUS
<1>1. 0 .. n \subseteq S
  BY UpTo
<1> QED BY <1>1

(* Induction over a finite set: a family that has the empty set, and with  *)
(* a part of the set the part that has one element more, has the set.      *)
LEMMA OneByOne ==
  ASSUME NEW S, IsFiniteSet(S), NEW F, {} \in F,
         \A P \in SUBSET S, x \in S : P \in F /\ x \notin P => P \cup {x} \in F
  PROVE  S \in F
<1> DEFINE Sizes == {c \in Nat : \A P \in SUBSET S : Cardinality(P) = c => P \in F}
<1>0. \A P \in SUBSET S : IsFiniteSet(P) /\ Cardinality(P) \in Nat
  BY FS_Subset, FS_CardinalityType
<1>1. 0 \in Sizes
  BY <1>0, FS_EmptySet
<1>2. ASSUME NEW c \in Nat, c \in Sizes PROVE c + 1 \in Sizes
  <2> SUFFICES ASSUME NEW P \in SUBSET S, Cardinality(P) = c + 1 PROVE P \in F
    OBVIOUS
  <2>0. IsFiniteSet(P) /\ P # {}
    BY <1>0, FS_EmptySet
  <2>1. PICK x : x \in P
    BY <2>0
  <2>2. Cardinality(P \ {x}) = c
    <3>1. Cardinality(P \ {x}) = Cardinality(P) - 1
      BY <2>0, <2>1, FS_RemoveElement
    <3> QED BY <3>1
  <2>3. P \ {x} \in F
    BY <1>2, <2>1, <2>2
  <2>4. (P \ {x}) \cup {x} = P
    BY <2>1
  <2>5. (P \ {x}) \cup {x} \in F
    BY <2>1, <2>3
  <2> QED BY <2>4, <2>5
<1>3. Nat \subseteq Sizes
  <2> HIDE DEF Sizes
  <2> QED BY <1>1, <1>2, AllNaturals
<1>4. Cardinality(S) \in Sizes
  BY <1>0, <1>3
<1> QED BY <1>4

(* What a recursive function computes step by step exists.                 *)
Iterate(n, base, step) ==
  CHOOSE f : f = [i \in 0 .. n |-> IF i = 0 THEN base ELSE step[<<f[i - 1], i>>]]

Steps(n, R) == [R \X (1 .. n) -> R]

LEMMA Iterates ==
  ASSUME NEW n \in Nat, NEW R, NEW base \in R, NEW step \in Steps(n, R)
  PROVE  /\ Iterate(n, base, step) \in [0 .. n -> R]
         /\ Iterate(n, base, step)[0] = base
         /\ \A j \in 1 .. n : Iterate(n, base, step)[j]
                                = step[<<Iterate(n, base, step)[j - 1], j>>]
<1> USE DEF Steps
<1> DEFINE Fits(m, f) == f[0] = base /\ \A i \in 1 .. m : f[i] = step[<<f[i - 1], i>>]
           S == {m \in 0 .. n : \E f \in [0 .. m -> R] : Fits(m, f)}
<1>1. 0 \in S
  <2> DEFINE g == [i \in 0 .. 0 |-> base]
  <2>1. g \in [0 .. 0 -> R]
    OBVIOUS
  <2>2. Fits(0, g)
    OBVIOUS
  <2> HIDE DEF g, Fits
  <2> QED BY <2>1, <2>2
<1>2. ASSUME NEW m \in 0 .. n - 1, m \in S PROVE m + 1 \in S
  <2>1. PICK f \in [0 .. m -> R] : Fits(m, f)
    BY <1>2
  <2> DEFINE next == step[<<f[m], m + 1>>]
             g == [i \in 0 .. m + 1 |-> IF i = m + 1 THEN next ELSE f[i]]
  <2>2. next \in R
    <3>1. m \in 0 .. m /\ m + 1 \in 1 .. n
      OBVIOUS
    <3>2. <<f[m], m + 1>> \in R \X (1 .. n)
      BY <3>1
    <3> QED BY <3>2
  <2>3. g \in [0 .. m + 1 -> R]
    <3> HIDE DEF next
    <3> QED BY <2>2
  <2>4. Fits(m + 1, g)
    <3>1. g[0] = base /\ g[m + 1] = step[<<g[m], m + 1>>]
      <4>1. 0 \in 0 .. m + 1 /\ m \in 0 .. m + 1 /\ m + 1 \in 0 .. m + 1
            /\ 0 # m + 1 /\ m # m + 1
        OBVIOUS
      <4>2. g[0] = f[0] /\ g[m] = f[m] /\ g[m + 1] = next
        BY <4>1, Zenon
      <4> QED BY <2>1, <4>2
    <3>2. ASSUME NEW i \in 1 .. m PROVE g[i] = step[<<g[i - 1], i>>]
      <4>1. i \in 0 .. m + 1 /\ i # m + 1 /\ i - 1 \in 0 .. m + 1 /\ i - 1 # m + 1
        OBVIOUS
      <4>2. g[i] = f[i] /\ g[i - 1] = f[i - 1]
        <5> HIDE DEF next
        <5> QED BY <4>1
      <4>3. f[i] = step[<<f[i - 1], i>>]
        BY <2>1
      <4> HIDE DEF g
      <4> QED BY <4>2, <4>3
    <3>3. \A i \in 1 .. m + 1 : i = m + 1 \/ i \in 1 .. m
      OBVIOUS
    <3>4. (m + 1) - 1 = m
      OBVIOUS
    <3> HIDE DEF g
    <3> QED BY <3>1, <3>2, <3>3, <3>4
  <2>5. m + 1 \in 0 .. n
    OBVIOUS
  <2> HIDE DEF g, Fits
  <2> QED BY <2>3, <2>4, <2>5
<1>3. 0 .. n \subseteq S
  <2> HIDE DEF S
  <2> QED BY <1>1, <1>2, UpTo
<1>4. n \in S
  <2>1. n \in 0 .. n
    OBVIOUS
  <2> HIDE DEF S
  <2> QED BY <1>3, <2>1
<1> HIDE DEF Fits
<1>5. \E f \in [0 .. n -> R] : Fits(n, f)
  BY <1>4
<1>6. PICK g \in [0 .. n -> R] : g[0] = base /\ \A i \in 1 .. n : g[i] = step[<<g[i - 1], i>>]
  BY <1>5 DEF Fits
<1>7. g = [i \in 0 .. n |-> IF i = 0 THEN base ELSE step[<<g[i - 1], i>>]]
  <2>1. \A i \in 0 .. n : g[i] = IF i = 0 THEN base ELSE step[<<g[i - 1], i>>]
    <3>1. \A i \in 0 .. n : i = 0 \/ i \in 1 .. n
      OBVIOUS
    <3> QED BY <1>6, <3>1
  <2> QED BY <1>6, <2>1
<1> DEFINE f == Iterate(n, base, step)
<1>8. f = [i \in 0 .. n |-> IF i = 0 THEN base ELSE step[<<f[i - 1], i>>]]
  BY <1>7, Zenon DEF Iterate
<1> HIDE DEF f
<1>9. f[0] = base /\ \A j \in 1 .. n : f[j] = step[<<f[j - 1], j>>]
  <2>1. \A i \in 0 .. n : f[i] = IF i = 0 THEN base ELSE step[<<f[i - 1], i>>]
    BY <1>8
  <2>2. 0 \in 0 .. n /\ \A j \in 1 .. n : j \in 0 .. n /\ j # 0
    OBVIOUS
  <2> QED BY <2>1, <2>2
<1>10. f \in [0 .. n -> R]
  <2> DEFINE In == {j \in 0 .. n : f[j] \in R}
  <2>1. 0 \in In
    BY <1>9
  <2>2. ASSUME NEW i \in 0 .. n - 1, i \in In PROVE i + 1 \in In
    <3>1. i + 1 \in 1 .. n /\ (i + 1) - 1 = i /\ i + 1 \in 0 .. n
      OBVIOUS
    <3>2. f[i + 1] = step[<<f[i], i + 1>>] /\ f[i] \in R
      BY <1>9, <2>2, <3>1
    <3>3. <<f[i], i + 1>> \in R \X (1 .. n)
      BY <3>1, <3>2
    <3>4. f[i + 1] \in R
      BY <3>2, <3>3
    <3> QED BY <3>1, <3>4
  <2>3. 0 .. n \subseteq In
    <3> HIDE DEF In
    <3> QED BY <2>1, <2>2, UpTo
  <2>4. \A i \in 0 .. n : f[i] \in R
    BY <2>3
  <2> QED BY <1>8, <2>4
<1> QED BY <1>9, <1>10 DEF f

(* A sum that a recursive function forms exists and is a number.           *)
LEMMA Sums ==
  ASSUME NEW n \in Nat, NEW d \in [1 .. n -> Int]
  PROVE  /\ \E f \in [0 .. n -> Int] : f[0] = 0 /\ \A j \in 1 .. n : f[j] = f[j - 1] + d[j]
         /\ \A f : f[0] = 0 /\ (\A j \in 1 .. n : f[j] = f[j - 1] + d[j]) => f[n] \in Int
<1>1. \E f \in [0 .. n -> Int] : f[0] = 0 /\ \A j \in 1 .. n : f[j] = f[j - 1] + d[j]
  <2> DEFINE step == [p \in Int \X (1 .. n) |-> p[1] + d[p[2]]]
  <2>1. step \in Steps(n, Int)
    BY DEF Steps
  <2> DEFINE f == Iterate(n, 0, step)
  <2>2. /\ f \in [0 .. n -> Int]
        /\ f[0] = 0 /\ \A j \in 1 .. n : f[j] = step[<<f[j - 1], j>>]
    <3> DEFINE R == Int
               z == 0
    <3>1. n \in Nat /\ z \in R /\ step \in Steps(n, R)
      BY <2>1
    <3> HIDE DEF step, R, z
    <3>2. Iterate(n, z, step) \in [0 .. n -> R]
      BY <3>1, Iterates
    <3>3. Iterate(n, z, step)[0] = z
      BY <3>1, Iterates
    <3>4. \A j \in 1 .. n : Iterate(n, z, step)[j]
                                 = step[<<Iterate(n, z, step)[j - 1], j>>]
      BY <3>1, Iterates
    <3> QED BY <3>2, <3>3, <3>4 DEF R, z
  <2> HIDE DEF f
  <2>3. \A j \in 1 .. n : f[j] = f[j - 1] + d[j]
    <3> SUFFICES ASSUME NEW j \in 1 .. n PROVE f[j] = f[j - 1] + d[j]
      OBVIOUS
    <3>1. <<f[j - 1], j>> \in Int \X (1 .. n)
      BY <2>2
    <3>2. step[<<f[j - 1], j>>] = f[j - 1] + d[j]
      BY <3>1
    <3> QED BY <2>2, <3>2
  <2> QED BY <2>2, <2>3
<1>2. ASSUME NEW f, f[0] = 0, \A j \in 1 .. n : f[j] = f[j - 1] + d[j]
      PROVE  f[n] \in Int
  <2> DEFINE S == {j \in 0 .. n : f[j] \in Int}
  <2>1. 0 \in S
    BY <1>2
  <2>2. ASSUME NEW i \in 0 .. n - 1, i \in S PROVE i + 1 \in S
    <3>1. i + 1 \in 1 .. n /\ (i + 1) - 1 = i /\ i + 1 \in 0 .. n
      OBVIOUS
    <3>2. f[i + 1] = f[i] + d[i + 1] /\ f[i] \in Int /\ d[i + 1] \in Int
      BY <1>2, <2>2, <3>1
    <3>3. f[i + 1] \in Int
      BY ONLY <3>2
    <3> QED BY <3>1, <3>3
  <2>3. 0 .. n \subseteq S
    <3> HIDE DEF S
    <3> QED BY <2>1, <2>2, UpTo
  <2> QED BY <2>3
<1> QED BY <1>1, <1>2
-----------------------------------------------------------------------------
LEMMA MinNatural ==
  ASSUME NEW S, S \subseteq Nat, S # {}
  PROVE  Min(S) \in S /\ \A k \in S : Min(S) <= k
BY LeastNatural DEF Min

(* A finite set of numbers has a greatest one.                             *)
LEMMA MaxFinite ==
  ASSUME NEW S, IsFiniteSet(S), S \subseteq Int, S # {}
  PROVE  Max(S) \in S /\ \A k \in S : Max(S) >= k
<1> DEFINE F == {P \in SUBSET S : P # {} => \E m \in P : \A k \in P : m >= k}
<1>1. {} \in F
  OBVIOUS
<1>2. ASSUME NEW P \in SUBSET S, NEW x \in S, P \in F PROVE P \cup {x} \in F
  <2>1. CASE P = {}
    BY <2>1
  <2>2. CASE P # {}
    <3>1. PICK m \in P : \A k \in P : m >= k
      BY <1>2, <2>2
    <3>2. m \in Int /\ x \in Int /\ P \subseteq Int
      OBVIOUS
    <3>3. CASE m >= x
      BY <3>1, <3>3
    <3>4. CASE x > m
      <4>1. \A k \in P \cup {x} : x >= k
        BY <3>1, <3>2, <3>4
      <4> QED BY <4>1
    <3> QED BY <3>2, <3>3, <3>4
  <2> QED BY <2>1, <2>2
<1>3. S \in F
  <2> HIDE DEF F
  <2> QED BY <1>1, <1>2, OneByOne
<1> QED BY <1>3 DEF Max

(* Ranks enumerate a finite set in its order, which is given by the set of *)
(* the elements below each.                                                *)
LEMMA Ranked ==
  ASSUME NEW S, IsFiniteSet(S), NEW below \in [S -> SUBSET S],
         \A x, y \in S : x = y \/ x \in below[y] \/ y \in below[x],
         \A x \in S : x \notin below[x],
         \A x, y, z \in S : x \in below[y] /\ y \in below[z] => x \in below[z],
         NEW s, s = [i \in 1 .. Cardinality(S) |-> s[i]],
         \A i \in 1 .. Cardinality(S) :
           (\E x \in S : Cardinality(below[x]) = i - 1) =>
             s[i] \in S /\ Cardinality(below[s[i]]) = i - 1
  PROVE  /\ Cardinality(S) \in Nat
         /\ s \in [1 .. Cardinality(S) -> S]
         /\ \A x \in S : \E i \in 1 .. Cardinality(S) : s[i] = x
         /\ \A i, j \in 1 .. Cardinality(S) : i < j => s[i] \in below[s[j]]
         /\ \A i, j \in 1 .. Cardinality(S) : s[i] = s[j] => i = j
<1> DEFINE n == Cardinality(S)
           rank == [x \in S |-> Cardinality(below[x])]
<1>1. n \in Nat
  BY FS_CardinalityType
<1>2. ASSUME NEW x \in S
      PROVE  /\ IsFiniteSet(below[x]) /\ Cardinality(below[x]) \in 0 .. n - 1
  <2> DEFINE rest == S \ {x}
  <2>1. IsFiniteSet(rest) /\ Cardinality(rest) = n - 1
    BY FS_RemoveElement
  <2>2. below[x] \in SUBSET rest
    OBVIOUS
  <2> HIDE DEF rest
  <2>3. IsFiniteSet(below[x]) /\ Cardinality(below[x]) <= n - 1
    BY <2>1, <2>2, FS_Subset
  <2>4. Cardinality(below[x]) \in Nat
    BY <2>3, FS_CardinalityType
  <2> QED BY <1>1, <2>3, <2>4
<1>3. ASSUME NEW x \in S, NEW y \in S, x \in below[y]
      PROVE  rank[x] < rank[y]
  <2> DEFINE more == below[x] \cup {x}
  <2>1. more \in SUBSET below[y] /\ x \notin below[x]
    BY <1>3
  <2>2. Cardinality(more) = Cardinality(below[x]) + 1
    BY <1>2, <2>1, FS_AddElement
  <2> HIDE DEF more
  <2>3. Cardinality(more) <= Cardinality(below[y])
    BY <1>2, <2>1, FS_Subset
  <2>4. Cardinality(below[x]) \in Int /\ Cardinality(below[y]) \in Int
    <3>1. Cardinality(below[x]) \in 0 .. n - 1 /\ Cardinality(below[y]) \in 0 .. n - 1
      BY <1>2
    <3> HIDE DEF n
    <3> QED BY <1>1, <3>1
  <2> QED BY <2>2, <2>3, <2>4
<1>4. rank \in [S -> 0 .. n - 1]
  BY <1>2
<1>5. \A x, y \in S : rank[x] = rank[y] => x = y
  <2>1. \A x \in S : rank[x] \in Int
    BY <1>1, <1>4
  <2> HIDE DEF rank
  <2>2. SUFFICES ASSUME NEW x \in S, NEW y \in S, rank[x] = rank[y], x # y
                 PROVE  FALSE
    OBVIOUS
  <2>3. ~ (rank[x] < rank[y]) /\ ~ (rank[y] < rank[x])
    BY <2>1, <2>2
  <2>4. x \notin below[y] /\ y \notin below[x]
    BY <1>3, <2>3
  <2> QED BY <2>2, <2>4
<1>6. \A k \in 0 .. n - 1 : \E x \in S : rank[x] = k
  <2> HIDE DEF rank
  <2>1. rank \in Injection(S, 0 .. n - 1)
    BY <1>4, <1>5, Fun_IsInj
  <2>2. IsFiniteSet(0 .. n - 1) /\ Cardinality(0 .. n - 1) = n
    <3> HIDE DEF n
    <3>1. 0 \in Int /\ n - 1 \in Int /\ (0 > n - 1 => n = 0)
      BY <1>1
    <3>2. /\ IsFiniteSet(0 .. n - 1)
          /\ Cardinality(0 .. n - 1) = IF 0 > n - 1 THEN 0 ELSE (n - 1) - 0 + 1
      BY <3>1, FS_Interval, Zenon
    <3> QED BY <1>1, <3>1, <3>2
  <2>3. rank \in Surjection(S, 0 .. n - 1)
    BY <2>1, <2>2, FS_Injection
  <2> DEFINE T == 0 .. n - 1
  <2>4. rank \in Surjection(S, T)
    BY <2>3
  <2> HIDE DEF T
  <2>5. \A k \in T : \E x \in S : rank[x] = k
    BY <2>4, Fun_SurjectionProperties
  <2> QED BY <2>5 DEF T
<1>7. ASSUME NEW i \in 1 .. n
      PROVE  s[i] \in S /\ rank[s[i]] = i - 1
  <2>1. i - 1 \in 0 .. n - 1
    BY <1>1
  <2>2. \E x \in S : Cardinality(below[x]) = i - 1
    BY <1>6, <2>1
  <2> QED BY <2>2
<1>8. ASSUME NEW x \in S PROVE \E i \in 1 .. n : s[i] = x
  <2>1. rank[x] \in 0 .. n - 1
    BY <1>4
  <2>2. rank[x] + 1 \in 1 .. n /\ (rank[x] + 1) - 1 = rank[x]
    BY <1>1, <2>1
  <2>3. s[rank[x] + 1] \in S /\ rank[s[rank[x] + 1]] = rank[x]
    BY <1>7, <2>2
  <2> HIDE DEF rank
  <2> QED BY <1>5, <2>2, <2>3
<1>9. ASSUME NEW i \in 1 .. n, NEW j \in 1 .. n, i < j
      PROVE  s[i] \in below[s[j]]
  <2>1. /\ s[i] \in S /\ rank[s[i]] = i - 1
        /\ s[j] \in S /\ rank[s[j]] = j - 1
    BY <1>7
  <2> HIDE DEF rank
  <2>2. ~ (rank[s[j]] < rank[s[i]]) /\ rank[s[i]] # rank[s[j]]
    BY <1>1, <1>9, <2>1
  <2>3. s[i] # s[j] /\ s[j] \notin below[s[i]]
    BY <1>3, <2>1, <2>2
  <2> QED BY <2>1, <2>3
<1>10. ASSUME NEW i \in 1 .. n, NEW j \in 1 .. n, s[i] = s[j] PROVE i = j
  <2>1. i < j \/ j < i \/ i = j
    BY <1>1
  <2>2. s[i] \in S /\ s[j] \in S
    BY <1>7
  <2> QED BY <1>9, <1>10, <2>1, <2>2
<1>11. s \in [1 .. n -> S]
  BY <1>7
<1> QED BY <1>1, <1>8, <1>9, <1>10, <1>11
(* What a function makes of a finite set is finite.                        *)
LEMMA FiniteImage ==
  ASSUME NEW S, IsFiniteSet(S), NEW f, NEW T, \A y \in T : \E x \in S : y = f[x]
  PROVE  IsFiniteSet(T)
<1> DEFINE U == {f[x] : x \in S}
           g == [x \in S |-> f[x]]
<1>1. g \in [S -> U] /\ \A y \in U : \E x \in S : g[x] = y
  OBVIOUS
<1>2. T \in SUBSET U
  OBVIOUS
<1> HIDE DEF U, g
<1>3. g \in Surjection(S, U)
  BY <1>1, Fun_IsSurj
<1>4. IsFiniteSet(U)
  BY <1>3, FS_Surjection
<1> QED BY <1>2, <1>4, FS_Subset

(* What Ordered gives: every element of the set at one place.              *)
Lists(s, S) ==
  /\ Cardinality(S) \in Nat
  /\ s \in [1 .. Cardinality(S) -> S]
  /\ \A x \in S : \E i \in 1 .. Cardinality(S) : s[i] = x
  /\ \A i, j \in 1 .. Cardinality(S) : s[i] = s[j] => i = j

(* The same with names for its parts.                                      *)
RankOrder(S, below) ==
  /\ below \in [S -> SUBSET S]
  /\ \A x, y \in S : x = y \/ x \in below[y] \/ y \in below[x]
  /\ \A x \in S : x \notin below[x]
  /\ \A x, y, z \in S : x \in below[y] /\ y \in below[z] => x \in below[z]
AtRanks(s, S, below) ==
  /\ s = [i \in 1 .. Cardinality(S) |-> s[i]]
  /\ \A i \in 1 .. Cardinality(S) :
       (\E x \in S : Cardinality(below[x]) = i - 1) =>
         s[i] \in S /\ Cardinality(below[s[i]]) = i - 1

LEMMA RanksList ==
  ASSUME NEW S, IsFiniteSet(S), NEW below, RankOrder(S, below), NEW s, AtRanks(s, S, below)
  PROVE  Lists(s, S)
<1>1. /\ below \in [S -> SUBSET S]
      /\ \A x, y \in S : x = y \/ x \in below[y] \/ y \in below[x]
      /\ \A x \in S : x \notin below[x]
      /\ \A x, y, z \in S : x \in below[y] /\ y \in below[z] => x \in below[z]
  BY DEF RankOrder
<1>2. /\ s = [i \in 1 .. Cardinality(S) |-> s[i]]
      /\ \A i \in 1 .. Cardinality(S) :
           (\E x \in S : Cardinality(below[x]) = i - 1) =>
             s[i] \in S /\ Cardinality(below[s[i]]) = i - 1
  BY Zenon DEF AtRanks
<1>3. /\ Cardinality(S) \in Nat
      /\ s \in [1 .. Cardinality(S) -> S]
      /\ \A x \in S : \E i \in 1 .. Cardinality(S) : s[i] = x
      /\ \A i, j \in 1 .. Cardinality(S) : i < j => s[i] \in below[s[j]]
      /\ \A i, j \in 1 .. Cardinality(S) : s[i] = s[j] => i = j
  BY ONLY IsFiniteSet(S), <1>1, <1>2, Ranked
<1> QED BY <1>3, Zenon DEF Lists

LEMMA OrderedNumbers ==
  ASSUME NEW S, IsFiniteSet(S), S \subseteq Int
  PROVE  /\ Lists(Ordered(S, <), S)
         /\ \A i, j \in 1 .. Cardinality(S) :
              i < j => Ordered(S, <)[i] < Ordered(S, <)[j]
<1> DEFINE ByRank(t) == Lists(t, S) /\ \A i, j \in 1 .. Cardinality(S) : i < j => t[i] < t[j]
<1> SUFFICES ASSUME NEW s, s = Ordered(S, <) PROVE ByRank(s)
  BY Zenon
<1> DEFINE below == [x \in S |-> {y \in S : y < x}]
           e(i) == CHOOSE x \in S : Cardinality({y \in S : y < x}) = i - 1
<1>1. s = [i \in 1 .. Cardinality(S) |-> e(i)]
  BY DEF Ordered
<1>2. below \in [S -> SUBSET S] /\ \A x, y \in S : y \in below[x] <=> y < x
  OBVIOUS
<1>3. s = [i \in 1 .. Cardinality(S) |-> s[i]]
  <2> HIDE DEF e
  <2> QED BY ONLY <1>1
<1>4. ASSUME NEW i \in 1 .. Cardinality(S),
             \E x \in S : Cardinality(below[x]) = i - 1
      PROVE  s[i] \in S /\ Cardinality(below[s[i]]) = i - 1
  <2>1. \E x \in S : Cardinality({y \in S : y < x}) = i - 1
    BY <1>4
  <2>2. e(i) \in S /\ Cardinality({y \in S : y < e(i)}) = i - 1
    BY <2>1, Zenon
  <2>3. s[i] = e(i)
    <3> HIDE DEF e
    <3> QED BY <1>1
  <2> HIDE DEF e
  <2> QED BY <2>2, <2>3
<1> HIDE DEF below
<1>6. /\ \A x, y \in S : x = y \/ x \in below[y] \/ y \in below[x]
      /\ \A x \in S : x \notin below[x]
      /\ \A x, y, z \in S : x \in below[y] /\ y \in below[z] => x \in below[z]
  BY ONLY <1>2, S \subseteq Int
<1>7. /\ Cardinality(S) \in Nat
      /\ s \in [1 .. Cardinality(S) -> S]
      /\ \A x \in S : \E i \in 1 .. Cardinality(S) : s[i] = x
      /\ \A i, j \in 1 .. Cardinality(S) : i < j => s[i] \in below[s[j]]
      /\ \A i, j \in 1 .. Cardinality(S) : s[i] = s[j] => i = j
  BY ONLY <1>2, <1>3, <1>4, <1>6, IsFiniteSet(S), Ranked
<1>8. \A i, j \in 1 .. Cardinality(S) : i < j => s[i] < s[j]
  <2> DEFINE n == Cardinality(S)
  <2>1. \A i \in 1 .. n : s[i] \in S
    BY <1>7
  <2> HIDE DEF n
  <2> QED BY <1>2, <1>7, <2>1 DEF n
<1> QED BY ONLY <1>7, <1>8 DEF Lists
-----------------------------------------------------------------------------

(* A graph whose walks within K edges stay below Inf.                      *)
Undirected(w) ==
  /\ w \in [Vertices \X Vertices -> Nat]
  /\ \A u, v \in Vertices : w[<<u, v>>] = w[<<v, u>>] /\ K * w[<<u, v>>] < Inf

LEMMA Sizes == K \in Nat /\ K > 0 /\ N \in Nat /\ N > 0 /\ 0 \in Vertices /\ Inf \in Nat /\ Inf > 0
BY SizeAssumption DEF Vertices, Inf

LEMMA VerticesFinite == Vertices \subseteq Int /\ IsFiniteSet(Vertices)
<1>1. 0 \in Int /\ N - 1 \in Int
  BY Sizes
<1> QED BY <1>1, FS_Interval DEF Vertices

(* Walk lengths by one edge more.                                          *)
LEMMA WalkRecursion ==
  ASSUME NEW w, Undirected(w), NEW s \in Vertices
  PROVE  /\ WalkLengths(w, s) \in [0 .. K -> [Vertices -> SUBSET Nat]]
         /\ WalkLengths(w, s)[0] = StandStill(s)
         /\ \A h \in 1 .. K :
              WalkLengths(w, s)[h] = OneEdgeMore(w, s, WalkLengths(w, s)[h - 1])
<1> DEFINE R == [Vertices -> SUBSET Nat]
           step == [p \in R \X (1 .. K) |-> OneEdgeMore(w, s, p[1])]
           g == Iterate(K, StandStill(s), step)
           Total(f) == f = [h \in 0 .. K |-> IF h = 0 THEN StandStill(s)
                                             ELSE OneEdgeMore(w, s, f[h - 1])]
<1>1. StandStill(s) \in R /\ K \in Nat
  BY Sizes DEF StandStill
<1>2. \A r \in R : OneEdgeMore(w, s, r) \in R
  <2> SUFFICES ASSUME NEW r \in R PROVE OneEdgeMore(w, s, r) \in R
    OBVIOUS
  <2>1. \A v \in Vertices :
          UNION {{d + w[<<x, v>>] : d \in r[x]} : x \in Nbrs(w, v)} \in SUBSET Nat
    <3>1. ASSUME NEW v \in Vertices, NEW x \in Nbrs(w, v), NEW d \in r[x]
          PROVE  d + w[<<x, v>>] \in Nat
      <4>1. x \in Vertices /\ w[<<x, v>>] \in Nat /\ d \in Nat
        BY DEF Nbrs, Undirected
      <4> QED BY <4>1
    <3> SUFFICES ASSUME NEW v \in Vertices,
                        NEW y \in UNION {{d + w[<<x, v>>] : d \in r[x]} : x \in Nbrs(w, v)}
                 PROVE  y \in Nat
      OBVIOUS
    <3>2. PICK x \in Nbrs(w, v) : y \in {d + w[<<x, v>>] : d \in r[x]}
      OBVIOUS
    <3> QED BY <3>1, <3>2
  <2> QED BY <2>1 DEF OneEdgeMore
<1>3. step \in Steps(K, R)
  BY <1>2 DEF Steps
<1>4. g \in [0 .. K -> R]
  <2> HIDE DEF step, R
  <2> QED BY <1>1, <1>3, Iterates
<1>5. g[0] = StandStill(s)
  <2> HIDE DEF step, R
  <2> QED BY <1>1, <1>3, Iterates
<1>6. \A j \in 1 .. K : g[j] = step[<<g[j - 1], j>>]
  <2> HIDE DEF step, R
  <2> QED BY <1>1, <1>3, Iterates
<1> HIDE DEF g, R
<1>7. \A j \in 1 .. K : g[j] = OneEdgeMore(w, s, g[j - 1])
  <2> SUFFICES ASSUME NEW j \in 1 .. K PROVE g[j] = OneEdgeMore(w, s, g[j - 1])
    OBVIOUS
  <2>1. g[j - 1] \in R
    BY <1>1, <1>4
  <2>2. step[<<g[j - 1], j>>] = OneEdgeMore(w, s, g[j - 1])
    BY <2>1
  <2> QED BY <1>6, <2>2
<1>8. Total(g)
  BY <1>1, <1>4, <1>5, <1>7
<1>9. PICK f : Total(f) /\ WalkLengths(w, s) = [h \in 0 .. K |-> f[h]]
  BY <1>8 DEF WalkLengths
<1>10. WalkLengths(w, s) = f
  BY <1>9
<1>11. \A h \in 1 .. K : f[h] = OneEdgeMore(w, s, f[h - 1])
  BY <1>9, Sizes
<1>12. f[0] = StandStill(s)
  BY <1>9, Sizes
<1> DEFINE Q == {j \in 0 .. K : f[j] \in R}
<1>13. 0 \in Q
  BY <1>1, <1>12
<1>14. ASSUME NEW j \in 0 .. K - 1, j \in Q PROVE j + 1 \in Q
  <2>1. f[j + 1] = OneEdgeMore(w, s, f[j]) /\ j + 1 \in 0 .. K
    BY <1>1, <1>11
  <2> QED BY <1>2, <1>14, <2>1
<1>15. 0 .. K \subseteq Q
  <2> HIDE DEF Q
  <2> QED BY <1>1, <1>13, <1>14, UpTo
<1>16. f \in [0 .. K -> R]
  <2>1. f = [h \in 0 .. K |-> f[h]]
    BY <1>9, <1>10
  <2> QED BY <1>15, <2>1
<1> QED BY <1>10, <1>11, <1>12, <1>16 DEF R
(* A walk of one edge more, and what a walk's length says of its ends.     *)
LEMMA WalkExtends ==
  ASSUME NEW w, Undirected(w), NEW s \in Vertices, NEW h \in 0 .. K - 1,
         NEW x \in Vertices, NEW v \in Nbrs(w, x), s < v,
         NEW d \in WalkLengths(w, s)[h][x]
  PROVE  d + w[<<x, v>>] \in WalkLengths(w, s)[h + 1][v]
<1>1. WalkLengths(w, s)[h + 1] = OneEdgeMore(w, s, WalkLengths(w, s)[h])
  BY WalkRecursion, Sizes
<1>2. v \in Vertices /\ x \in Nbrs(w, v) /\ ~(v <= s)
  BY DEF Nbrs, Undirected, Vertices
<1>3. d + w[<<x, v>>] \in
        UNION {{e + w[<<y, v>>] : e \in WalkLengths(w, s)[h][y]} : y \in Nbrs(w, v)}
  BY <1>2
<1> QED BY <1>1, <1>2, <1>3 DEF OneEdgeMore

LEMMA WalkBounds ==
  ASSUME NEW w, Undirected(w), NEW s \in Vertices, NEW h \in 0 .. K
  PROVE  \A v \in Vertices : \A d \in WalkLengths(w, s)[h][v] :
           /\ d \in 0 .. Inf - 1
           /\ h = 0 => v = s /\ d = 0
           /\ h > 0 => s < v
<1> DEFINE W == WalkLengths(w, s)
           Short(j, d) == d \in Nat /\ K * d <= j * (Inf - 1)
           Q == {j \in 0 .. K : \A v \in Vertices : \A d \in W[j][v] : Short(j, d)}
<1>0. K \in Nat /\ K > 0 /\ s \in Int /\ \A v \in Vertices : v \in Int
  BY Sizes DEF Vertices
<1>1. /\ W \in [0 .. K -> [Vertices -> SUBSET Nat]]
      /\ W[0] = StandStill(s)
      /\ \A j \in 1 .. K : W[j] = OneEdgeMore(w, s, W[j - 1])
  BY WalkRecursion
<1>2. \A v \in Vertices : \A d \in W[0][v] : v = s /\ d = 0
  BY <1>1 DEF StandStill
<1>3. ASSUME NEW j \in 1 .. K, NEW v \in Vertices, NEW d \in W[j][v]
      PROVE  s < v /\ \E x \in Nbrs(w, v) : \E e \in W[j - 1][x] : d = e + w[<<x, v>>]
  <2> HIDE DEF W
  <2>1. d \in OneEdgeMore(w, s, W[j - 1])[v]
    BY <1>1, <1>3
  <2>2. ~(v <= s)
    BY <2>1 DEF OneEdgeMore
  <2>3. d \in UNION {{e + w[<<x, v>>] : e \in W[j - 1][x]} : x \in Nbrs(w, v)}
    BY <2>1, <2>2 DEF OneEdgeMore
  <2> QED BY <1>0, <2>2, <2>3
<1> HIDE DEF W
<1>4. 0 \in Q
  <2>1. K * 0 <= 0 * (Inf - 1) /\ 0 \in Nat /\ 0 \in 0 .. K
    BY <1>0 DEF Inf
  <2>2. Short(0, 0)
    BY <2>1
  <2> HIDE DEF Short
  <2> QED BY <1>2, <2>1, <2>2
<1>5. ASSUME NEW j \in 0 .. K - 1, j \in Q PROVE j + 1 \in Q
  <2>1. j + 1 \in 1 .. K /\ (j + 1) - 1 = j
    BY <1>0
  <2>2. ASSUME NEW v \in Vertices, NEW d \in W[j + 1][v] PROVE Short(j + 1, d)
    <3>0. PICK x \in Nbrs(w, v) : \E e \in W[j][x] : d = e + w[<<x, v>>]
      BY <1>3, <2>1
    <3>1. PICK e \in W[j][x] : d = e + w[<<x, v>>]
      BY <3>0
    <3>2. x \in Vertices /\ w[<<x, v>>] \in Nat /\ K * w[<<x, v>>] < Inf
      BY DEF Nbrs, Undirected
    <3>3. e \in Nat /\ K * e <= j * (Inf - 1)
      BY <1>5, <3>1, <3>2
    <3> DEFINE y == w[<<x, v>>]
    <3> HIDE DEF y
    <3>4. K * (e + y) = K * e + K * y /\ (j + 1) * (Inf - 1) = j * (Inf - 1) + (Inf - 1)
      BY <1>0, <3>2, <3>3, Sizes DEF y
    <3>5. K * e \in Int /\ K * y \in Int /\ j * (Inf - 1) \in Int
      BY <1>0, <3>2, <3>3, Sizes DEF y
    <3>6. K * (e + y) <= (j + 1) * (Inf - 1)
      BY <3>2, <3>3, <3>4, <3>5, Sizes DEF y
    <3> QED BY <3>1, <3>2, <3>3, <3>6 DEF y
  <2> QED BY <2>1, <2>2
<1>6. 0 .. K \subseteq Q
  <2> HIDE DEF Q
  <2> QED BY <1>0, <1>4, <1>5, UpTo
<1>7. ASSUME NEW v \in Vertices, NEW d \in W[h][v] PROVE d \in 0 .. Inf - 1
  <2>1. d \in Nat /\ K * d <= h * (Inf - 1)
    BY <1>6
  <2>2. h * (Inf - 1) <= K * (Inf - 1)
    BY <1>0 DEF Inf
  <2>3. d <= Inf - 1
    <3> SUFFICES ASSUME d >= Inf PROVE FALSE
      BY <2>1 DEF Inf
    <3>1. K * d >= K * Inf
      BY <1>0, <2>1 DEF Inf
    <3> QED BY <1>0, <2>1, <2>2, <3>1 DEF Inf
  <2>4. d \in Nat
    BY <2>1
  <2>5. Inf - 1 \in Int
    BY DEF Inf
  <2> QED BY <2>3, <2>4, <2>5
<1>8. \A v \in Vertices : \A d \in W[h][v] : h > 0 => s < v
  BY <1>0, <1>3
<1> QED BY <1>2, <1>7, <1>8 DEF W
----------------------------------------------------------------------------
(***************************************************************************)
(* The hop-constrained distances are a distance: what the recursion over   *)
(* the hops gives is symmetric, obeys the triangle inequality with the     *)
(* hops added up, and is the least length of the walks.                    *)
(***************************************************************************)
Pairs == Vertices \X Vertices
Distances == [Pairs -> 0 .. Inf]

(* One more hop, pair by pair.                                             *)
LEMMA OneHop ==
  ASSUME NEW w, Undirected(w), NEW r \in Distances
  PROVE  /\ OneHopMore(w, r) \in Distances
         /\ \A u, v \in Vertices : OneHopMore(w, r)[<<u, v>>] <= r[<<u, v>>]
         /\ \A u, v \in Vertices : \A x \in Nbrs(w, v) :
              OneHopMore(w, r)[<<u, v>>] <= r[<<u, x>>] + w[<<x, v>>]
         /\ \A u, v \in Vertices :
              \/ OneHopMore(w, r)[<<u, v>>] = r[<<u, v>>]
              \/ OneHopMore(w, r)[<<u, v>>] = Inf
              \/ \E x \in Nbrs(w, v) : OneHopMore(w, r)[<<u, v>>] = r[<<u, x>>] + w[<<x, v>>]
<1> DEFINE via(u, v) == {Min({Inf, r[<<u, x>>] + w[<<x, v>>]}) : x \in Nbrs(w, v)}
           all(u, v) == {r[<<u, v>>]} \cup via(u, v)
           d == OneHopMore(w, r)
<1>1. \A u, v \in Vertices : \A x \in Nbrs(w, v) :
        /\ x \in Vertices /\ <<u, x>> \in Pairs /\ r[<<u, x>>] \in Nat /\ w[<<x, v>>] \in Nat
        /\ r[<<u, x>>] + w[<<x, v>>] \in Nat
  <2> SUFFICES ASSUME NEW u \in Vertices, NEW v \in Vertices, NEW x \in Nbrs(w, v)
               PROVE  /\ x \in Vertices /\ <<u, x>> \in Pairs /\ r[<<u, x>>] \in Nat
                      /\ w[<<x, v>>] \in Nat /\ r[<<u, x>>] + w[<<x, v>>] \in Nat
    OBVIOUS
  <2>1. x \in Vertices /\ <<u, x>> \in Pairs
    BY DEF Nbrs, Pairs
  <2>2. w[<<x, v>>] \in Nat
    BY <2>1 DEF Undirected, Pairs
  <2>3. r[<<u, x>>] \in 0 .. Inf
    BY <2>1 DEF Distances
  <2>4. r[<<u, x>>] \in Nat
    BY <2>3, Sizes
  <2> QED BY <2>1, <2>2, <2>4
<1>2. \A a \in Nat : /\ Min({Inf, a}) \in Nat /\ Min({Inf, a}) <= Inf /\ Min({Inf, a}) <= a
                     /\ Min({Inf, a}) = Inf \/ Min({Inf, a}) = a
  <2> TAKE a \in Nat
  <2>1. {Inf, a} \subseteq Nat /\ {Inf, a} # {}
    BY Sizes
  <2>2. Min({Inf, a}) \in {Inf, a} /\ \A x \in {Inf, a} : Min({Inf, a}) <= x
    BY <2>1, MinNatural
  <2> QED BY <2>2, Sizes
<1>3. ASSUME NEW u \in Vertices, NEW v \in Vertices
      PROVE  /\ d[<<u, v>>] \in all(u, v) /\ \A y \in all(u, v) : d[<<u, v>>] <= y
             /\ all(u, v) \subseteq 0 .. Inf
  <2>1. r[<<u, v>>] \in 0 .. Inf
    BY DEF Distances, Pairs
  <2>2. \A y \in via(u, v) : y \in 0 .. Inf
    <3> SUFFICES ASSUME NEW x \in Nbrs(w, v)
                 PROVE  Min({Inf, r[<<u, x>>] + w[<<x, v>>]}) \in 0 .. Inf
      OBVIOUS
    <3> QED BY <1>1, <1>2, Sizes
  <2>3. all(u, v) \subseteq 0 .. Inf
    BY <2>1, <2>2
  <2>4. all(u, v) \subseteq Nat /\ all(u, v) # {}
    <3> HIDE DEF via
    <3> QED BY <2>3, Sizes
  <2>5. d[<<u, v>>] = Min(all(u, v))
    BY DEF OneHopMore
  <2> HIDE DEF all, d
  <2> QED BY <2>3, <2>4, <2>5, MinNatural
<1>4. d \in Distances
  <2>1. \A u, v \in Vertices : d[<<u, v>>] \in 0 .. Inf
    <3> HIDE DEF all, d
    <3> QED BY <1>3
  <2>2. \A p \in Pairs : d[p] \in 0 .. Inf
    <3> HIDE DEF d
    <3> QED BY <2>1 DEF Pairs
  <2>3. d = [p \in Pairs |-> d[p]]
    BY DEF OneHopMore, Pairs
  <2> HIDE DEF d
  <2> QED BY <2>2, <2>3 DEF Distances
<1>5. ASSUME NEW u \in Vertices, NEW v \in Vertices, NEW x \in Nbrs(w, v)
      PROVE  d[<<u, v>>] <= r[<<u, x>>] + w[<<x, v>>]
  <2> DEFINE a == r[<<u, x>>] + w[<<x, v>>]
  <2>1. a \in Nat
    BY <1>1
  <2>2. Min({Inf, a}) \in all(u, v)
    OBVIOUS
  <2>3. d[<<u, v>>] \in Int
    BY <1>4 DEF Distances, Pairs
  <2> HIDE DEF a, all, d
  <2>4. d[<<u, v>>] <= Min({Inf, a})
    BY <1>3, <2>2
  <2>5. d[<<u, v>>] <= a
    BY <1>2, <2>1, <2>3, <2>4
  <2> QED BY <2>5 DEF a
<1>6. ASSUME NEW u \in Vertices, NEW v \in Vertices
      PROVE  \/ d[<<u, v>>] = r[<<u, v>>]
             \/ d[<<u, v>>] = Inf
             \/ \E x \in Nbrs(w, v) : d[<<u, v>>] = r[<<u, x>>] + w[<<x, v>>]
  <2>1. d[<<u, v>>] = r[<<u, v>>] \/ d[<<u, v>>] \in via(u, v)
    <3> HIDE DEF d, via
    <3> QED BY <1>3
  <2>2. ASSUME d[<<u, v>>] \in via(u, v)
        PROVE  \/ d[<<u, v>>] = Inf
               \/ \E x \in Nbrs(w, v) : d[<<u, v>>] = r[<<u, x>>] + w[<<x, v>>]
    <3> HIDE DEF d
    <3>1. PICK x \in Nbrs(w, v) : d[<<u, v>>] = Min({Inf, r[<<u, x>>] + w[<<x, v>>]})
      BY <2>2
    <3> QED BY <1>1, <1>2, <3>1
  <2> QED BY <2>1, <2>2
<1>7. \A u, v \in Vertices : d[<<u, v>>] <= r[<<u, v>>]
  <2> TAKE u, v \in Vertices
  <2>1. r[<<u, v>>] \in all(u, v)
    OBVIOUS
  <2> HIDE DEF all, d
  <2> QED BY <1>3, <2>1
<1> HIDE DEF d
<1>8. d \in Distances /\ d = OneHopMore(w, r)
  BY <1>4 DEF d
<1> QED BY <1>5, <1>6, <1>7, <1>8

LEMMA DistRecursion ==
  ASSUME NEW w, Undirected(w)
  PROVE  /\ HopDist(w) \in [0 .. K -> Distances]
         /\ HopDist(w)[0] = NoHops
         /\ \A k \in 1 .. K : HopDist(w)[k] = OneHopMore(w, HopDist(w)[k - 1])
<1> DEFINE R == Distances
           step == [p \in R \X (1 .. K) |-> OneHopMore(w, p[1])]
           g == Iterate(K, NoHops, step)
           Total(f) == f = [k \in 0 .. K |-> IF k = 0 THEN NoHops ELSE OneHopMore(w, f[k - 1])]
<1>1. NoHops \in R /\ K \in Nat
  BY Sizes DEF NoHops, Distances, Pairs
<1>2. \A r \in R : OneHopMore(w, r) \in R
  BY OneHop
<1>3. step \in Steps(K, R)
  BY <1>2 DEF Steps
<1>4. g \in [0 .. K -> R]
  <2> HIDE DEF step, R
  <2> QED BY <1>1, <1>3, Iterates
<1>5. g[0] = NoHops
  <2> HIDE DEF step, R
  <2> QED BY <1>1, <1>3, Iterates
<1>6. \A j \in 1 .. K : g[j] = step[<<g[j - 1], j>>]
  <2> HIDE DEF step, R
  <2> QED BY <1>1, <1>3, Iterates
<1> HIDE DEF g, R
<1>7. \A j \in 1 .. K : g[j] = OneHopMore(w, g[j - 1])
  <2> SUFFICES ASSUME NEW j \in 1 .. K PROVE g[j] = OneHopMore(w, g[j - 1])
    OBVIOUS
  <2>1. g[j - 1] \in R
    BY <1>1, <1>4
  <2>2. step[<<g[j - 1], j>>] = OneHopMore(w, g[j - 1])
    BY <2>1
  <2> QED BY <1>6, <2>2
<1>8. Total(g)
  BY <1>1, <1>4, <1>5, <1>7
<1>9. PICK f : Total(f) /\ HopDist(w) = [k \in 0 .. K |-> f[k]]
  BY <1>8 DEF HopDist
<1>10. HopDist(w) = f
  BY <1>9
<1>11. \A k \in 1 .. K : f[k] = OneHopMore(w, f[k - 1])
  BY <1>9, Sizes
<1>12. f[0] = NoHops
  BY <1>9, Sizes
<1> DEFINE Q == {j \in 0 .. K : f[j] \in R}
<1>13. 0 \in Q
  BY <1>1, <1>12
<1>14. ASSUME NEW j \in 0 .. K - 1, j \in Q PROVE j + 1 \in Q
  <2>1. f[j + 1] = OneHopMore(w, f[j]) /\ j + 1 \in 0 .. K
    BY <1>1, <1>11
  <2> QED BY <1>2, <1>14, <2>1
<1>15. 0 .. K \subseteq Q
  <2> HIDE DEF Q
  <2> QED BY <1>1, <1>13, <1>14, UpTo
<1>16. f \in [0 .. K -> R]
  <2>1. f = [k \in 0 .. K |-> f[k]]
    BY <1>9, <1>10
  <2> QED BY <1>15, <2>1
<1> QED BY <1>10, <1>11, <1>12, <1>16 DEF R

(* The recursion, read off pair by pair.                                   *)
LEMMA DistSteps ==
  ASSUME NEW w, Undirected(w), NEW D, D = HopDist(w)
  PROVE  /\ \A k \in 0 .. K : \A u, v \in Vertices : D[k][<<u, v>>] \in Nat /\ D[k][<<u, v>>] <= Inf
         /\ \A u, v \in Vertices : D[0][<<u, v>>] = IF u = v THEN 0 ELSE Inf
         /\ \A k \in 1 .. K : \A u, v \in Vertices : D[k][<<u, v>>] <= D[k - 1][<<u, v>>]
         /\ \A k \in 1 .. K : \A u, v \in Vertices : \A x \in Nbrs(w, v) :
              D[k][<<u, v>>] <= D[k - 1][<<u, x>>] + w[<<x, v>>]
         /\ \A k \in 1 .. K : \A u, v \in Vertices :
              \/ D[k][<<u, v>>] = D[k - 1][<<u, v>>]
              \/ D[k][<<u, v>>] = Inf
              \/ \E x \in Nbrs(w, v) : D[k][<<u, v>>] = D[k - 1][<<u, x>>] + w[<<x, v>>]
<1>1. /\ D \in [0 .. K -> Distances] /\ D[0] = NoHops
      /\ \A k \in 1 .. K : D[k] = OneHopMore(w, D[k - 1])
  BY DistRecursion
<1>2. \A k \in 0 .. K : \A u, v \in Vertices : D[k][<<u, v>>] \in Nat /\ D[k][<<u, v>>] <= Inf
  BY <1>1, Sizes DEF Distances, Pairs
<1>3. \A u, v \in Vertices : D[0][<<u, v>>] = IF u = v THEN 0 ELSE Inf
  BY <1>1 DEF NoHops
<1>4. ASSUME NEW k \in 1 .. K
      PROVE  D[k - 1] \in Distances /\ D[k] = OneHopMore(w, D[k - 1])
  BY <1>1, Sizes
<1>5. ASSUME NEW k \in 1 .. K, NEW r \in Distances, r = D[k - 1]
      PROVE  /\ \A u, v \in Vertices : D[k][<<u, v>>] <= r[<<u, v>>]
             /\ \A u, v \in Vertices : \A x \in Nbrs(w, v) :
                  D[k][<<u, v>>] <= r[<<u, x>>] + w[<<x, v>>]
             /\ \A u, v \in Vertices :
                  \/ D[k][<<u, v>>] = r[<<u, v>>]
                  \/ D[k][<<u, v>>] = Inf
                  \/ \E x \in Nbrs(w, v) : D[k][<<u, v>>] = r[<<u, x>>] + w[<<x, v>>]
  <2>1. D[k] = OneHopMore(w, r)
    BY <1>4, <1>5
  <2> QED BY <2>1, OneHop
<1> QED BY <1>2, <1>3, <1>4, <1>5

(* More hops never cost more.                                              *)
LEMMA DistMonotone ==
  ASSUME NEW w, Undirected(w), NEW D, D = HopDist(w),
         NEW i \in 0 .. K, NEW j \in 0 .. K, i <= j, NEW u \in Vertices, NEW v \in Vertices
  PROVE  D[j][<<u, v>>] <= D[i][<<u, v>>]
<1> DEFINE Q == {n \in 0 .. K - i : D[i + n][<<u, v>>] <= D[i][<<u, v>>]}
<1>1. \A k \in 0 .. K : D[k][<<u, v>>] \in Nat
  BY DistSteps
<1>2. \A k \in 1 .. K : D[k][<<u, v>>] <= D[k - 1][<<u, v>>]
  BY DistSteps
<1>3. K \in Nat /\ K - i \in Nat
  BY Sizes
<1>4. 0 \in Q
  BY <1>1, <1>3
<1>5. ASSUME NEW n \in 0 .. (K - i) - 1, n \in Q PROVE n + 1 \in Q
  <2>1. i + n + 1 \in 1 .. K /\ i + n \in 0 .. K /\ n + 1 \in 0 .. K - i
    BY <1>3
  <2>2. D[i + n + 1][<<u, v>>] <= D[i + n][<<u, v>>]
    BY <1>2, <2>1
  <2>3. D[i + n + 1][<<u, v>>] <= D[i][<<u, v>>]
    BY <1>1, <1>5, <2>1, <2>2
  <2> QED BY <1>3, <2>1, <2>3
<1>6. 0 .. K - i \subseteq Q
  <2> HIDE DEF Q
  <2> QED BY <1>3, <1>4, <1>5, UpTo
<1>7. j - i \in 0 .. K - i /\ i + (j - i) = j
  BY <1>3
<1> QED BY <1>6, <1>7

LEMMA DistTriangle ==
  ASSUME NEW w, Undirected(w), NEW D, D = HopDist(w),
         NEW i \in 0 .. K, NEW j \in 0 .. K, i + j <= K,
         NEW u \in Vertices, NEW x \in Vertices, NEW v \in Vertices
  PROVE  D[i + j][<<u, v>>] <= D[i][<<u, x>>] + D[j][<<x, v>>]
<1> DEFINE Q == {n \in 0 .. K - i : \A y \in Vertices :
                    D[i + n][<<u, y>>] <= D[i][<<u, x>>] + D[n][<<x, y>>]}
<1>1. /\ \A k \in 0 .. K : \A a, b \in Vertices : D[k][<<a, b>>] \in Nat /\ D[k][<<a, b>>] <= Inf
      /\ \A a, b \in Vertices : D[0][<<a, b>>] = IF a = b THEN 0 ELSE Inf
  BY DistSteps
<1>2. /\ \A k \in 1 .. K : \A a, b \in Vertices : D[k][<<a, b>>] <= D[k - 1][<<a, b>>]
      /\ \A k \in 1 .. K : \A a, b \in Vertices : \A y \in Nbrs(w, b) :
           D[k][<<a, b>>] <= D[k - 1][<<a, y>>] + w[<<y, b>>]
      /\ \A k \in 1 .. K : \A a, b \in Vertices :
           \/ D[k][<<a, b>>] = D[k - 1][<<a, b>>]
           \/ D[k][<<a, b>>] = Inf
           \/ \E y \in Nbrs(w, b) : D[k][<<a, b>>] = D[k - 1][<<a, y>>] + w[<<y, b>>]
  <2>1. \A k \in 1 .. K : \A a, b \in Vertices : D[k][<<a, b>>] <= D[k - 1][<<a, b>>]
    BY DistSteps
  <2>2. \A k \in 1 .. K : \A a, b \in Vertices : \A y \in Nbrs(w, b) :
          D[k][<<a, b>>] <= D[k - 1][<<a, y>>] + w[<<y, b>>]
    BY DistSteps
  <2>3. \A k \in 1 .. K : \A a, b \in Vertices :
          \/ D[k][<<a, b>>] = D[k - 1][<<a, b>>]
          \/ D[k][<<a, b>>] = Inf
          \/ \E y \in Nbrs(w, b) : D[k][<<a, b>>] = D[k - 1][<<a, y>>] + w[<<y, b>>]
    <3> HIDE DEF Q
    <3> TAKE k \in 1 .. K
    <3> TAKE a, b \in Vertices
    <3> QED BY DistSteps
  <2> QED BY <2>1, <2>2, <2>3, Zenon
<1>3. K \in Nat /\ K - i \in Nat /\ Inf \in Nat
  BY Sizes
<1>4. 0 \in Q
  <2>1. \A y \in Vertices : D[i][<<u, y>>] <= D[i][<<u, x>>] + D[0][<<x, y>>]
    <3> TAKE y \in Vertices
    <3>1. D[i][<<u, y>>] \in Nat /\ D[i][<<u, x>>] \in Nat /\ D[i][<<u, y>>] <= Inf
      BY <1>1
    <3>2. CASE x = y
      BY <1>1, <3>1, <3>2
    <3>3. CASE x # y
      <4>1. D[0][<<x, y>>] = Inf
        BY <1>1, <3>3
      <4> QED BY <1>3, <3>1, <4>1
    <3> QED BY <3>2, <3>3
  <2> QED BY <1>3, <2>1
<1>5. ASSUME NEW n \in 0 .. (K - i) - 1, n \in Q PROVE n + 1 \in Q
  <2>1. /\ i + n + 1 \in 1 .. K /\ i + n \in 0 .. K /\ n + 1 \in 0 .. K - i
        /\ n + 1 \in 1 .. K /\ n \in 0 .. K /\ (n + 1) - 1 = n /\ (i + n + 1) - 1 = i + n
    BY <1>3
  <2> SUFFICES ASSUME NEW y \in Vertices
               PROVE  D[i + (n + 1)][<<u, y>>] <= D[i][<<u, x>>] + D[n + 1][<<x, y>>]
    BY <2>1
  <2> DEFINE a == D[i][<<u, x>>]
             new == D[i + n + 1][<<u, y>>]
  <2>2. a \in Nat /\ new \in Nat /\ new <= Inf /\ i + (n + 1) = i + n + 1
    BY <1>1, <2>1
  <2> HIDE DEF a, new
  <2>3. CASE D[n + 1][<<x, y>>] = D[n][<<x, y>>]
    <3>1. new <= D[i + n][<<u, y>>]
      BY <1>2, <2>1 DEF new
    <3>2. D[i + n][<<u, y>>] <= a + D[n][<<x, y>>]
      BY <1>5 DEF a
    <3>3. D[i + n][<<u, y>>] \in Nat /\ D[n][<<x, y>>] \in Nat
      BY <1>1, <2>1
    <3>4. new <= a + D[n + 1][<<x, y>>]
      BY <2>2, <2>3, <3>1, <3>2, <3>3
    <3> QED BY <2>2, <3>4 DEF a, new
  <2>4. CASE D[n + 1][<<x, y>>] = Inf
    <3>1. new <= a + D[n + 1][<<x, y>>]
      BY <1>3, <2>2, <2>4
    <3> QED BY <2>2, <3>1 DEF a, new
  <2>5. ASSUME NEW z \in Nbrs(w, y), D[n + 1][<<x, y>>] = D[n][<<x, z>>] + w[<<z, y>>]
        PROVE  D[i + (n + 1)][<<u, y>>] <= D[i][<<u, x>>] + D[n + 1][<<x, y>>]
    <3>1. z \in Vertices /\ w[<<z, y>>] \in Nat
      BY DEF Nbrs, Undirected
    <3>2. new <= D[i + n][<<u, z>>] + w[<<z, y>>]
      BY <1>2, <2>1 DEF new
    <3>3. D[i + n][<<u, z>>] <= a + D[n][<<x, z>>]
      BY <1>5, <3>1 DEF a
    <3>4. D[i + n][<<u, z>>] \in Nat /\ D[n][<<x, z>>] \in Nat
      BY <1>1, <2>1, <3>1
    <3>5. new <= a + D[n + 1][<<x, y>>]
      BY <2>2, <2>5, <3>1, <3>2, <3>3, <3>4
    <3> QED BY <2>2, <3>5 DEF a, new
  <2>6. \/ D[n + 1][<<x, y>>] = D[n][<<x, y>>]
        \/ D[n + 1][<<x, y>>] = Inf
        \/ \E z \in Nbrs(w, y) : D[n + 1][<<x, y>>] = D[n][<<x, z>>] + w[<<z, y>>]
    <3> DEFINE k == n + 1
    <3>1. k \in 1 .. K /\ k - 1 = n
      BY <2>1
    <3> HIDE DEF k
    <3>2. \/ D[k][<<x, y>>] = D[k - 1][<<x, y>>]
          \/ D[k][<<x, y>>] = Inf
          \/ \E z \in Nbrs(w, y) : D[k][<<x, y>>] = D[k - 1][<<x, z>>] + w[<<z, y>>]
      BY <1>2, <3>1
    <3> QED BY <3>1, <3>2 DEF k
  <2> QED BY <2>3, <2>4, <2>5, <2>6
<1>6. 0 .. K - i \subseteq Q
  <2> HIDE DEF Q
  <2> QED BY <1>3, <1>4, <1>5, UpTo
<1>7. j \in 0 .. K - i
  BY <1>3
<1> QED BY <1>6, <1>7

LEMMA DistSymmetric ==
  ASSUME NEW w, Undirected(w), NEW D, D = HopDist(w),
         NEW k \in 0 .. K, NEW u \in Vertices, NEW v \in Vertices
  PROVE  D[k][<<u, v>>] = D[k][<<v, u>>]
<1> DEFINE Q == {n \in 0 .. K : \A a, b \in Vertices : D[n][<<a, b>>] = D[n][<<b, a>>]}
<1>1. /\ \A n \in 0 .. K : \A a, b \in Vertices : D[n][<<a, b>>] \in Nat /\ D[n][<<a, b>>] <= Inf
      /\ \A a, b \in Vertices : D[0][<<a, b>>] = IF a = b THEN 0 ELSE Inf
  BY DistSteps
<1>2. /\ \A n \in 1 .. K : \A a, b \in Vertices : D[n][<<a, b>>] <= D[n - 1][<<a, b>>]
      /\ \A n \in 1 .. K : \A a, b \in Vertices : \A y \in Nbrs(w, b) :
           D[n][<<a, b>>] <= D[n - 1][<<a, y>>] + w[<<y, b>>]
      /\ \A n \in 1 .. K : \A a, b \in Vertices :
           \/ D[n][<<a, b>>] = D[n - 1][<<a, b>>]
           \/ D[n][<<a, b>>] = Inf
           \/ \E y \in Nbrs(w, b) : D[n][<<a, b>>] = D[n - 1][<<a, y>>] + w[<<y, b>>]
  BY DistSteps
<1>3. K \in Nat /\ K > 0 /\ Inf \in Nat
  BY Sizes
<1>4. 0 \in Q
  BY <1>1, <1>3
<1>5. ASSUME NEW n \in 0 .. K - 1, n \in Q PROVE n + 1 \in Q
  <2>1. n + 1 \in 1 .. K /\ n + 1 \in 0 .. K /\ n \in 0 .. K /\ (n + 1) - 1 = n /\ 1 \in 0 .. K
        /\ 1 \in 1 .. K /\ 1 - 1 = 0 /\ 1 + n = n + 1 /\ 1 + n <= K
    BY <1>3
  <2>2. ASSUME NEW a \in Vertices, NEW b \in Vertices
        PROVE  D[n + 1][<<b, a>>] <= D[n + 1][<<a, b>>]
    <3>1. D[n + 1][<<b, a>>] \in Nat /\ D[n + 1][<<b, a>>] <= Inf /\ D[n + 1][<<a, b>>] \in Nat
      BY <1>1, <2>1
    <3>2. CASE D[n + 1][<<a, b>>] = D[n][<<a, b>>]
      <4>1. D[n + 1][<<b, a>>] <= D[n][<<b, a>>]
        BY <1>2, <2>1
      <4>2. D[n][<<b, a>>] = D[n][<<a, b>>]
        BY <1>5
      <4> QED BY <3>2, <4>1, <4>2
    <3>3. CASE D[n + 1][<<a, b>>] = Inf
      BY <3>1, <3>3
    <3>4. ASSUME NEW y \in Nbrs(w, b), D[n + 1][<<a, b>>] = D[n][<<a, y>>] + w[<<y, b>>]
          PROVE  D[n + 1][<<b, a>>] <= D[n + 1][<<a, b>>]
      <4>1. y \in Vertices /\ w[<<y, b>>] \in Nat /\ w[<<y, b>>] = w[<<b, y>>] /\ b \in Nbrs(w, y)
        BY DEF Nbrs, Undirected
      <4>2. D[1][<<b, y>>] <= w[<<b, y>>]
        <5>1. D[1][<<b, y>>] <= D[0][<<b, b>>] + w[<<b, y>>]
          BY <1>2, <2>1, <4>1
        <5>2. D[0][<<b, b>>] = 0
          BY <1>1
        <5>3. D[1][<<b, y>>] \in Nat
          BY <1>1, <2>1, <4>1
        <5> QED BY <4>1, <5>1, <5>2, <5>3
      <4>3. D[1 + n][<<b, a>>] <= D[1][<<b, y>>] + D[n][<<y, a>>]
        BY <2>1, <4>1, DistTriangle
      <4>4. D[n][<<y, a>>] = D[n][<<a, y>>]
        BY <1>5, <4>1
      <4>5. D[1][<<b, y>>] \in Nat /\ D[n][<<a, y>>] \in Nat
        BY <1>1, <2>1, <4>1
      <4> DEFINE p == D[n + 1][<<b, a>>]
                 q == D[1][<<b, y>>]
                 r == D[n][<<a, y>>]
      <4>6. p <= q + r
        BY <2>1, <4>3, <4>4
      <4>7. p \in Nat /\ q \in Nat /\ r \in Nat
        BY <3>1, <4>5
      <4> HIDE DEF p, q, r
      <4>8. p <= r + w[<<y, b>>]
        BY <4>1, <4>2, <4>6, <4>7 DEF q
      <4> QED BY <3>4, <4>8 DEF p, r
    <3>5. \/ D[n + 1][<<a, b>>] = D[n][<<a, b>>]
          \/ D[n + 1][<<a, b>>] = Inf
          \/ \E y \in Nbrs(w, b) : D[n + 1][<<a, b>>] = D[n][<<a, y>>] + w[<<y, b>>]
      <4> DEFINE h == n + 1
      <4>1. h \in 1 .. K /\ h - 1 = n
        BY <2>1
      <4> HIDE DEF h
      <4>2. \/ D[h][<<a, b>>] = D[h - 1][<<a, b>>]
            \/ D[h][<<a, b>>] = Inf
            \/ \E y \in Nbrs(w, b) : D[h][<<a, b>>] = D[h - 1][<<a, y>>] + w[<<y, b>>]
        BY <1>2, <4>1
      <4> QED BY <4>1, <4>2 DEF h
    <3> QED BY <3>2, <3>3, <3>4, <3>5
  <2>3. \A a, b \in Vertices : D[n + 1][<<a, b>>] = D[n + 1][<<b, a>>]
    <3> TAKE a, b \in Vertices
    <3>1. D[n + 1][<<b, a>>] <= D[n + 1][<<a, b>>] /\ D[n + 1][<<a, b>>] <= D[n + 1][<<b, a>>]
      BY <2>2
    <3>2. D[n + 1][<<b, a>>] \in Nat /\ D[n + 1][<<a, b>>] \in Nat
      BY <1>1, <2>1
    <3> QED BY <3>1, <3>2
  <2> QED BY <2>1, <2>3
<1>6. 0 .. K \subseteq Q
  <2> HIDE DEF Q
  <2> QED BY <1>3, <1>4, <1>5, UpTo
<1> QED BY <1>6

(* A walk is at least as long as the distance within its hops.             *)
LEMMA WalkSound ==
  ASSUME NEW w, Undirected(w), NEW D, D = HopDist(w), NEW s \in Vertices, NEW h \in 0 .. K,
         NEW v \in Vertices, NEW d \in WalkLengths(w, s)[h][v]
  PROVE  D[h][<<s, v>>] <= d
<1> DEFINE W == WalkLengths(w, s)
           Q == {j \in 0 .. K : \A y \in Vertices : \A e \in W[j][y] : D[j][<<s, y>>] <= e}
<1>1. /\ W \in [0 .. K -> [Vertices -> SUBSET Nat]]
      /\ W[0] = StandStill(s)
      /\ \A j \in 1 .. K : W[j] = OneEdgeMore(w, s, W[j - 1])
  BY WalkRecursion
<1>2. /\ \A n \in 0 .. K : \A a, b \in Vertices : D[n][<<a, b>>] \in Nat /\ D[n][<<a, b>>] <= Inf
      /\ \A a, b \in Vertices : D[0][<<a, b>>] = IF a = b THEN 0 ELSE Inf
      /\ \A n \in 1 .. K : \A a, b \in Vertices : \A y \in Nbrs(w, b) :
           D[n][<<a, b>>] <= D[n - 1][<<a, y>>] + w[<<y, b>>]
  BY DistSteps
<1>3. K \in Nat /\ K > 0
  BY Sizes
<1>4. ASSUME NEW j \in 1 .. K, NEW y \in Vertices, NEW e \in W[j][y]
      PROVE  \E x \in Nbrs(w, y) : \E f \in W[j - 1][x] : e = f + w[<<x, y>>]
  <2> HIDE DEF W
  <2>1. e \in OneEdgeMore(w, s, W[j - 1])[y]
    BY <1>1, <1>4
  <2>2. ~(y <= s)
    BY <2>1 DEF OneEdgeMore
  <2>3. e \in UNION {{f + w[<<x, y>>] : f \in W[j - 1][x]} : x \in Nbrs(w, y)}
    BY <2>1, <2>2 DEF OneEdgeMore
  <2> QED BY <2>3
<1> HIDE DEF W
<1>5. 0 \in Q
  <2>1. \A y \in Vertices : \A e \in W[0][y] : y = s /\ e = 0
    BY <1>1 DEF StandStill
  <2> QED BY <1>2, <1>3, <2>1
<1>6. ASSUME NEW j \in 0 .. K - 1, j \in Q PROVE j + 1 \in Q
  <2> DEFINE n == j + 1
  <2>1. n \in 1 .. K /\ n \in 0 .. K /\ n - 1 = j /\ j \in 0 .. K
    BY <1>3
  <2> HIDE DEF n
  <2>2. ASSUME NEW y \in Vertices, NEW e \in W[n][y] PROVE D[n][<<s, y>>] <= e
    <3>1. PICK x \in Nbrs(w, y) : \E f \in W[n - 1][x] : e = f + w[<<x, y>>]
      BY <1>4, <2>1
    <3>2. PICK f \in W[n - 1][x] : e = f + w[<<x, y>>]
      BY <3>1
    <3>3. x \in Vertices /\ w[<<x, y>>] \in Nat
      BY DEF Nbrs, Undirected
    <3>4. D[j][<<s, x>>] <= f
      BY <1>6, <2>1, <3>2, <3>3
    <3>5. f \in Nat
      <4>1. W[j] \in [Vertices -> SUBSET Nat]
        BY <1>1, <2>1
      <4>2. f \in W[j][x]
        BY <2>1
      <4> QED BY <3>3, <4>1, <4>2
    <3>6. D[n][<<s, y>>] <= D[n - 1][<<s, x>>] + w[<<x, y>>]
      BY <1>2, <2>1
    <3>7. D[n][<<s, y>>] \in Nat /\ D[j][<<s, x>>] \in Nat
      BY <1>2, <2>1, <3>3
    <3> QED BY <2>1, <3>2, <3>3, <3>4, <3>5, <3>6, <3>7
  <2> QED BY <2>1, <2>2 DEF n
<1>7. 0 .. K \subseteq Q
  <2> HIDE DEF Q
  <2> QED BY <1>3, <1>5, <1>6, UpTo
<1> QED BY <1>7 DEF W

(* The fewest hops that reach a distance.                                  *)
LEMMA FewestHops ==
  ASSUME NEW w, Undirected(w), NEW D, D = HopDist(w), NEW i \in 0 .. K,
         NEW u \in Vertices, NEW v \in Vertices
  PROVE  \E a \in 0 .. i : /\ D[a][<<u, v>>] = D[i][<<u, v>>]
                           /\ a > 0 => D[a][<<u, v>>] < D[a - 1][<<u, v>>]
<1> DEFINE S == {a \in 0 .. i : D[a][<<u, v>>] = D[i][<<u, v>>]}
<1>1. K \in Nat
  BY Sizes
<1>2. S \subseteq Nat /\ i \in S
  BY <1>1
<1>3. \E a \in S : \A b \in S : a <= b
  <2> HIDE DEF S
  <2> QED BY <1>2, LeastNatural
<1>4. PICK a \in S : \A b \in S : a <= b
  BY <1>3
<1>5. ASSUME a > 0 PROVE D[a][<<u, v>>] < D[a - 1][<<u, v>>]
  <2>1. a \in 1 .. K /\ a - 1 \in 0 .. K /\ a - 1 \in 0 .. i /\ a \in 0 .. K /\ a - 1 \notin S
    BY <1>1, <1>4, <1>5
  <2>2. D[a - 1][<<u, v>>] # D[a][<<u, v>>]
    BY <1>4, <2>1
  <2>3. D[a][<<u, v>>] <= D[a - 1][<<u, v>>]
    BY <2>1, DistSteps
  <2>4. D[a][<<u, v>>] \in Nat /\ D[a - 1][<<u, v>>] \in Nat
    BY <2>1, DistSteps
  <2> QED BY <2>2, <2>3, <2>4
<1> QED BY <1>4, <1>5

(* A way from u to v within h hops, of the least length, that meets at x.  *)
Between(D, x, u, v, h) == \E i \in 0 .. h : D[i][<<u, x>>] + D[h - i][<<x, v>>] <= D[h][<<u, v>>]

(* A label that no hub of H can answer, and no fewer hops.                 *)
Needed(D, H, m, v, h) ==
  /\ D[h][<<m, v>>] < Inf
  /\ h > 0 => D[h][<<m, v>>] < D[h - 1][<<m, v>>]
  /\ \A x \in H : ~Between(D, x, m, v, h)

(* A label is canonical if no vertex above its hub can answer it.          *)
LEMMA CanonicalIsNeeded ==
  ASSUME NEW w, Undirected(w), NEW D, D = HopDist(w), NEW m \in Vertices, NEW v \in Vertices,
         NEW h \in 0 .. K
  PROVE  Canonical(D, m, v, h) <=> Needed(D, 0 .. m - 1, m, v, h)
<1>1. ASSUME NEW x \in 0 .. m - 1, NEW i \in 0 .. h
      PROVE  (D[i][<<m, x>>] + D[h - i][<<x, v>>] > D[h][<<m, v>>])
               <=> ~(D[i][<<m, x>>] + D[h - i][<<x, v>>] <= D[h][<<m, v>>])
  <2>1. x \in Vertices /\ i \in 0 .. K /\ h - i \in 0 .. K
    BY Sizes DEF Vertices
  <2>2. D[i][<<m, x>>] \in Nat /\ D[h - i][<<x, v>>] \in Nat /\ D[h][<<m, v>>] \in Nat
    BY <2>1, DistSteps
  <2> QED BY <2>2
<1> QED BY <1>1 DEF Canonical, Needed, Between

LEMMA NeededAtZero ==
  ASSUME NEW w, Undirected(w), NEW D, D = HopDist(w), NEW H, NEW m \in Vertices, NEW v \in Vertices,
         Needed(D, H, m, v, 0)
  PROVE  m = v /\ D[0][<<m, v>>] = 0
BY DistSteps, Sizes DEF Needed

(* A vertex lies between itself and any other, whichever way.              *)
LEMMA EndsBetween ==
  ASSUME NEW w, Undirected(w), NEW D, D = HopDist(w), NEW u \in Vertices, NEW v \in Vertices,
         NEW h \in 0 .. K
  PROVE  Between(D, u, u, v, h) /\ Between(D, v, u, v, h)
<1>1. /\ D[0][<<u, u>>] = 0 /\ D[0][<<v, v>>] = 0 /\ D[h][<<u, v>>] \in Nat
      /\ 0 \in 0 .. h /\ h \in 0 .. h /\ h - 0 = h /\ h - h = 0
  BY DistSteps, Sizes
<1>2. /\ D[0][<<u, u>>] + D[h - 0][<<u, v>>] <= D[h][<<u, v>>]
      /\ D[h][<<u, v>>] + D[h - h][<<v, v>>] <= D[h][<<u, v>>]
  BY <1>1
<1> QED BY <1>1, <1>2 DEF Between

(* A needed label continues a needed label of the hop before.              *)
Leads(w, D, H, m, y, v, h) ==
  /\ y \in Nbrs(w, v) /\ Needed(D, H, m, y, h - 1)
  /\ D[h][<<m, v>>] = D[h - 1][<<m, y>>] + w[<<y, v>>]

LEMMA NeededContinues ==
  ASSUME NEW w, Undirected(w), NEW D, D = HopDist(w), NEW H, H \subseteq Vertices,
         NEW m \in Vertices, NEW v \in Vertices, NEW h \in 1 .. K, Needed(D, H, m, v, h)
  PROVE  m # v /\ \E y \in Vertices : Leads(w, D, H, m, y, v, h)
<1> DEFINE g == h - 1
<1>1. /\ K \in Nat /\ g \in 0 .. K /\ h \in 0 .. K /\ g = h - 1 /\ h = g + 1 /\ g \in Int
      /\ m \in Int /\ v \in Int /\ 0 \in 0 .. K
  BY Sizes DEF Vertices
<1> HIDE DEF g
<1>2. /\ \A n \in 0 .. K : \A a, b \in Vertices : D[n][<<a, b>>] \in Nat /\ D[n][<<a, b>>] <= Inf
      /\ \A a, b \in Vertices : D[0][<<a, b>>] = IF a = b THEN 0 ELSE Inf
  BY DistSteps
<1>3. /\ \A n \in 1 .. K : \A a, b \in Vertices : \A y \in Nbrs(w, b) :
           D[n][<<a, b>>] <= D[n - 1][<<a, y>>] + w[<<y, b>>]
      /\ \A n \in 1 .. K : \A a, b \in Vertices :
           \/ D[n][<<a, b>>] = D[n - 1][<<a, b>>]
           \/ D[n][<<a, b>>] = Inf
           \/ \E y \in Nbrs(w, b) : D[n][<<a, b>>] = D[n - 1][<<a, y>>] + w[<<y, b>>]
  BY DistSteps
<1>4. /\ D[h][<<m, v>>] < Inf /\ D[h][<<m, v>>] < D[g][<<m, v>>]
      /\ \A x \in H : ~Between(D, x, m, v, h)
  BY <1>1 DEF Needed
<1>5. D[h][<<m, v>>] \in Nat /\ D[g][<<m, v>>] \in Nat
  BY <1>1, <1>2
<1>6. m # v
  <2> SUFFICES ASSUME m = v PROVE FALSE
    OBVIOUS
  <2>1. D[g][<<m, m>>] <= D[0][<<m, m>>]
    BY <1>1, DistMonotone
  <2>2. D[0][<<m, m>>] = 0
    BY <1>2
  <2> QED BY <1>4, <1>5, <2>1, <2>2
<1>8a. \/ D[h][<<m, v>>] = D[g][<<m, v>>]
       \/ D[h][<<m, v>>] = Inf
       \/ \E y \in Nbrs(w, v) : D[h][<<m, v>>] = D[g][<<m, y>>] + w[<<y, v>>]
  BY <1>1, <1>3
<1>8b. D[h][<<m, v>>] # D[g][<<m, v>>] /\ D[h][<<m, v>>] # Inf
  BY <1>4, <1>5, Sizes
<1>8. PICK y \in Nbrs(w, v) : D[h][<<m, v>>] = D[g][<<m, y>>] + w[<<y, v>>]
  BY <1>8a, <1>8b
<1>9. y \in Vertices /\ w[<<y, v>>] \in Nat /\ w[<<y, v>>] > 0
  BY DEF Nbrs, Undirected
<1>10. D[g][<<m, y>>] \in Nat
  BY <1>1, <1>2, <1>9
<1>11. D[g][<<m, y>>] < Inf
  BY <1>4, <1>5, <1>8, <1>9, <1>10, Sizes
<1>12. ASSUME g > 0 PROVE D[g][<<m, y>>] < D[g - 1][<<m, y>>]
  <2>1. g \in 1 .. K /\ g - 1 \in 0 .. K
    BY <1>1, <1>12
  <2>2. D[g][<<m, v>>] <= D[g - 1][<<m, y>>] + w[<<y, v>>]
    BY <1>3, <2>1
  <2>3. D[g - 1][<<m, y>>] \in Nat
    BY <1>2, <1>9, <2>1
  <2> QED BY <1>4, <1>5, <1>8, <1>9, <1>10, <2>2, <2>3
<1>13. ASSUME NEW x \in H, Between(D, x, m, y, g)
       PROVE  Between(D, x, m, v, h)
  <2>0. x \in Vertices
    OBVIOUS
  <2>00. PICK i \in 0 .. g : D[i][<<m, x>>] + D[g - i][<<x, y>>] <= D[g][<<m, y>>]
    BY <1>13 DEF Between
  <2> DEFINE r == h - i
  <2>1. i \in 0 .. h /\ i \in 0 .. K /\ g - i \in 0 .. K
        /\ r \in 1 .. K /\ r \in 0 .. K /\ r - 1 = g - i /\ r = h - i
    BY <1>1
  <2> HIDE DEF r
  <2>3. D[r][<<x, v>>] <= D[g - i][<<x, y>>] + w[<<y, v>>]
    BY <1>3, <2>0, <2>1
  <2>4. D[i][<<m, x>>] \in Nat /\ D[r][<<x, v>>] \in Nat /\ D[g - i][<<x, y>>] \in Nat
    BY <1>2, <1>9, <2>0, <2>1
  <2>5. D[i][<<m, x>>] + D[r][<<x, v>>] <= D[h][<<m, v>>]
    BY <1>8, <1>9, <1>10, <2>00, <2>3, <2>4
  <2> QED BY <2>1, <2>5 DEF Between
<1>14. Needed(D, H, m, y, g)
  BY <1>4, <1>11, <1>12, <1>13 DEF Needed
<1>15. Leads(w, D, H, m, y, v, h)
  BY <1>1, <1>8, <1>14 DEF Leads
<1> QED BY <1>6, <1>9, <1>15

(* A canonical label of hop 0 is the vertex's own.                         *)
LEMMA CanonicalAtZero ==
  ASSUME NEW w, Undirected(w), NEW D, D = HopDist(w), NEW m \in Vertices, NEW v \in Vertices,
         Canonical(D, m, v, 0)
  PROVE  m = v /\ D[0][<<m, v>>] = 0
BY DistSteps, Sizes DEF Canonical

(* A canonical label continues a canonical label of the hop before, along  *)
(* an edge its hub outranks.                                               *)
LEMMA CanonicalContinues ==
  ASSUME NEW w, Undirected(w), NEW D, D = HopDist(w), NEW m \in Vertices, NEW v \in Vertices,
         NEW h \in 1 .. K, Canonical(D, m, v, h)
  PROVE  /\ m < v
         /\ \E y \in Nbrs(w, v) : /\ Canonical(D, m, y, h - 1)
                                  /\ D[h][<<m, v>>] = D[h - 1][<<m, y>>] + w[<<y, v>>]
<1>1. /\ K \in Nat /\ h \in 0 .. K /\ h - 1 \in 0 .. K /\ m \in Int /\ v \in Int
      /\ 0 .. m - 1 \subseteq Vertices /\ (v < m => v \in 0 .. m - 1)
  BY Sizes DEF Vertices
<1>2. Needed(D, 0 .. m - 1, m, v, h)
  BY <1>1, CanonicalIsNeeded
<1>3. v \notin 0 .. m - 1
  BY <1>1, <1>2, EndsBetween DEF Needed
<1>4. m # v /\ \E y \in Vertices : Leads(w, D, 0 .. m - 1, m, y, v, h)
  BY <1>1, <1>2, NeededContinues
<1>5. PICK y \in Vertices : Leads(w, D, 0 .. m - 1, m, y, v, h)
  BY <1>4
<1>6. Canonical(D, m, y, h - 1)
  BY <1>1, <1>5, CanonicalIsNeeded DEF Leads
<1>7. m < v
  BY <1>1, <1>3, <1>4
<1> QED BY <1>5, <1>6, <1>7 DEF Leads

(* A hop without a canonical label of a hub is the last of that hub.       *)
LEMMA CanonicalStops ==
  ASSUME NEW w, Undirected(w), NEW D, D = HopDist(w), NEW m \in Vertices, NEW h \in 0 .. K,
         \A v \in Vertices : ~Canonical(D, m, v, h)
  PROVE  \A j \in h .. K : \A v \in Vertices : ~Canonical(D, m, v, j)
<1> DEFINE Q == {n \in 0 .. K - h : \A v \in Vertices : ~Canonical(D, m, v, h + n)}
<1>1. K \in Nat /\ K - h \in Nat /\ h + 0 = h
  BY Sizes
<1>2. 0 \in Q
  BY <1>1
<1>3. ASSUME NEW n \in 0 .. (K - h) - 1, n \in Q PROVE n + 1 \in Q
  <2> DEFINE j == h + (n + 1)
  <2>1. j \in 1 .. K /\ j - 1 = h + n /\ n + 1 \in 0 .. K - h
    BY <1>1
  <2>2. \A v \in Vertices : ~Canonical(D, m, v, j - 1)
    BY <1>3, <2>1
  <2> HIDE DEF j
  <2>3. ASSUME NEW v \in Vertices, Canonical(D, m, v, j) PROVE FALSE
    <3>1. \E y \in Nbrs(w, v) : Canonical(D, m, y, j - 1)
      BY <2>1, <2>3, CanonicalContinues
    <3> QED BY <2>2, <3>1 DEF Nbrs
  <2> QED BY <2>1, <2>3 DEF j
<1>4. 0 .. K - h \subseteq Q
  <2> HIDE DEF Q
  <2> QED BY <1>1, <1>2, <1>3, UpTo
<1>5. \A j \in h .. K : j - h \in 0 .. K - h /\ h + (j - h) = j
  BY <1>1
<1> QED BY <1>4, <1>5

(* Half of a shortest way, in the fewest hops, is a label that only a      *)
(* vertex of the whole way can answer.                                     *)
LEMMA HalfIsNeeded ==
  ASSUME NEW w, Undirected(w), NEW D, D = HopDist(w), NEW H, H \subseteq Vertices,
         NEW u \in Vertices, NEW v \in Vertices, NEW m \in Vertices,
         NEW k \in 0 .. K, NEW a \in 0 .. K, NEW b \in 0 .. K, a + b <= k,
         D[k][<<u, v>>] < Inf, D[a][<<m, u>>] + D[b][<<m, v>>] <= D[k][<<u, v>>],
         a > 0 => D[a][<<m, u>>] < D[a - 1][<<m, u>>],
         \A x \in H : ~Between(D, x, u, v, k)
  PROVE  Needed(D, H, m, u, a)
<1>1. K \in Nat /\ m \in Int /\ Inf \in Nat
  BY Sizes DEF Vertices
<1>2. \A n \in 0 .. K : \A p, q \in Vertices : D[n][<<p, q>>] \in Nat /\ D[n][<<p, q>>] <= Inf
  BY DistSteps
<1>3. D[a][<<m, u>>] \in Nat /\ D[b][<<m, v>>] \in Nat /\ D[k][<<u, v>>] \in Nat
  BY <1>2
<1>4. D[a][<<m, u>>] < Inf
  BY <1>1, <1>3
<1>5. ASSUME NEW x \in H, Between(D, x, m, u, a)
      PROVE  FALSE
  <2>1. x \in Vertices
    OBVIOUS
  <2>00. PICK j \in 0 .. a : D[j][<<m, x>>] + D[a - j][<<x, u>>] <= D[a][<<m, u>>]
    BY <1>5 DEF Between
  <2> DEFINE i == a - j
             c == j + b
  <2>2. /\ i \in 0 .. K /\ i \in 0 .. k /\ j \in 0 .. K /\ c \in 0 .. K /\ c = j + b
        /\ k - i \in 0 .. K /\ c <= k - i /\ j + b <= K /\ i = a - j
    BY <1>1
  <2> HIDE DEF i, c
  <2> DEFINE mx == D[j][<<m, x>>]
             xu == D[i][<<x, u>>]
             xv == D[c][<<x, v>>]
             last == D[k - i][<<x, v>>]
  <2>3. mx \in Nat /\ xu \in Nat /\ xv \in Nat /\ last \in Nat
    BY <1>2, <2>1, <2>2
  <2>4. D[j][<<x, m>>] = mx
    BY <2>1, <2>2, DistSymmetric
  <2>5. D[i][<<u, x>>] = xu
    BY <2>1, <2>2, DistSymmetric
  <2>6. xv <= mx + D[b][<<m, v>>]
    <3>1. D[j + b][<<x, v>>] <= D[j][<<x, m>>] + D[b][<<m, v>>]
      BY <2>1, <2>2, DistTriangle
    <3> QED BY <2>2, <2>4, <3>1
  <2>7. last <= xv
    BY <2>1, <2>2, DistMonotone
  <2>8. ~(xu + last <= D[k][<<u, v>>])
    <3>1. ~(D[i][<<u, x>>] + last <= D[k][<<u, v>>])
      BY <2>2 DEF Between
    <3> QED BY <2>5, <3>1
  <2>9. mx + xu <= D[a][<<m, u>>]
    BY <2>00, <2>2
  <2> HIDE DEF mx, xu, xv, last
  <2> QED BY <1>3, <2>3, <2>6, <2>7, <2>8, <2>9
<1> QED BY <1>4, <1>5 DEF Needed

(* Sound labels that contain every canonical one answer every query.       *)
SoundLabel(D, l, v) ==
  /\ l.hub \in Vertices /\ l.hop \in 0 .. K /\ l.dist \in Nat
  /\ D[l.hop][<<l.hub, v>>] <= l.dist

HasLabel(labels, m, v, h, d) ==
  \E l \in labels[v] : l.hub = m /\ l.hop = h /\ l.dist = d

Halves(D, labels, m, H) ==
  \A y \in Vertices : \A h \in 0 .. K :
    Needed(D, H, m, y, h) => HasLabel(labels, m, y, h, D[h][<<m, y>>])
Outside(D, u, v, k) == {x \in Vertices : ~Between(D, x, u, v, k)}

(* Sound labels answer every query, if of each two vertices in reach one   *)
(* between them has left all labels no vertex outside their ways answers.  *)
LEMMA NeededCovers ==
  ASSUME NEW w, Undirected(w), NEW D, D = HopDist(w), NEW labels,
         \A v \in Vertices : \A l \in labels[v] : SoundLabel(D, l, v),
         \A u, v \in Vertices : \A k \in 0 .. K :
           D[k][<<u, v>>] < Inf =>
             \E m \in Vertices : Between(D, m, u, v, k) /\ Halves(D, labels, m, Outside(D, u, v, k))
  PROVE  Covers(labels, w)
<1>1. K \in Nat /\ Inf \in Nat /\ \A x \in Vertices : x \in Nat
  BY Sizes DEF Vertices
<1>2. \A n \in 0 .. K : \A p, q \in Vertices : D[n][<<p, q>>] \in Nat /\ D[n][<<p, q>>] <= Inf
  BY DistSteps
<1> SUFFICES ASSUME NEW k \in 0 .. K, NEW u \in Vertices, NEW v \in Vertices
             PROVE  QueryDist(labels[u], labels[v], k) = D[k][<<u, v>>]
  BY DEF Covers
<1> DEFINE meetings == {p \in labels[u] \X labels[v] : /\ p[1].hub = p[2].hub
                                                       /\ p[1].hop + p[2].hop <= k}
           S == {Inf} \cup {p[1].dist + p[2].dist : p \in meetings}
           d == D[k][<<u, v>>]
<1>3. d \in Nat /\ d <= Inf
  BY <1>2
<1>4. ASSUME NEW p \in meetings PROVE p[1].dist + p[2].dist \in Nat /\ d <= p[1].dist + p[2].dist
  <2>1. PICK e \in labels[u], f \in labels[v] : p = <<e, f>>
    OBVIOUS
  <2>2. SoundLabel(D, e, u) /\ SoundLabel(D, f, v) /\ e.hub = f.hub /\ e.hop + f.hop <= k
    BY <2>1
  <2> DEFINE m == e.hub
             a == e.hop
             b == f.hop
  <2>3. m \in Vertices /\ a \in 0 .. K /\ b \in 0 .. K /\ a + b <= k /\ a + b <= K /\ a + b \in 0 .. K
    BY <1>1, <2>2 DEF SoundLabel
  <2>4. /\ e.dist \in Nat /\ f.dist \in Nat /\ D[a][<<m, u>>] <= e.dist /\ D[b][<<m, v>>] <= f.dist
    BY <2>2 DEF SoundLabel
  <2> HIDE DEF m, a, b
  <2>5. D[a][<<u, m>>] = D[a][<<m, u>>]
    BY <2>3, DistSymmetric
  <2>6. D[a + b][<<u, v>>] <= D[a][<<u, m>>] + D[b][<<m, v>>]
    BY <2>3, DistTriangle
  <2>7. d <= D[a + b][<<u, v>>]
    BY <2>3, DistMonotone
  <2>8. D[a + b][<<u, v>>] \in Nat /\ D[a][<<m, u>>] \in Nat /\ D[b][<<m, v>>] \in Nat
    BY <1>2, <2>3
  <2>9. d <= e.dist + f.dist
    BY <1>3, <2>4, <2>5, <2>6, <2>7, <2>8
  <2> QED BY <2>1, <2>4, <2>9
<1>5. S \subseteq Nat /\ S # {} /\ Inf \in S
  <2> HIDE DEF meetings
  <2> QED BY <1>1, <1>4
<1>6. Min(S) \in S /\ \A y \in S : Min(S) <= y
  <2> HIDE DEF S
  <2> QED BY <1>5, MinNatural
<1>7. d <= Min(S)
  <2>1. \A y \in S : d <= y
    <3> HIDE DEF meetings
    <3> QED BY <1>3, <1>4
  <2> HIDE DEF S
  <2> QED BY <1>6, <2>1
<1>8. Min(S) <= d
  <2>1. CASE d = Inf
    <3> HIDE DEF S
    <3> QED BY <1>5, <1>6, <2>1
  <2>2. CASE d < Inf
    <3> DEFINE H == Outside(D, u, v, k)
    <3>3. PICK m \in Vertices : Between(D, m, u, v, k) /\ Halves(D, labels, m, H)
      BY <2>2
    <3>4. PICK i \in 0 .. k : D[i][<<u, m>>] + D[k - i][<<m, v>>] <= d
      BY <3>3 DEF Between
    <3> DEFINE j == k - i
    <3>5. m \in Vertices /\ i \in 0 .. K /\ j \in 0 .. K /\ i + j = k /\ m \in Int
      BY <1>1, <3>3
    <3>5a. D[i][<<u, m>>] + D[j][<<m, v>>] <= d
      BY <3>4
    <3> HIDE DEF j
    <3>6. H \subseteq Vertices /\ \A x \in H : ~Between(D, x, u, v, k)
      BY DEF Outside
    <3> HIDE DEF H
    <3>7. \A x \in H : ~Between(D, x, v, u, k)
      <4> SUFFICES ASSUME NEW x \in H, Between(D, x, v, u, k) PROVE FALSE
        OBVIOUS
      <4>1. PICK n \in 0 .. k : D[n][<<v, x>>] + D[k - n][<<x, u>>] <= D[k][<<v, u>>]
        BY DEF Between
      <4> DEFINE r == k - n
      <4>2. x \in Vertices /\ n \in 0 .. K /\ r \in 0 .. K /\ r \in 0 .. k /\ k - r = n /\ r = k - n
        BY <1>1, <3>6
      <4> HIDE DEF r
      <4>3. ~(D[r][<<u, x>>] + D[n][<<x, v>>] <= d)
        BY <3>6, <4>2 DEF Between
      <4>4. /\ D[r][<<u, x>>] = D[r][<<x, u>>] /\ D[n][<<x, v>>] = D[n][<<v, x>>]
            /\ D[k][<<v, u>>] = d
        BY <4>2, DistSymmetric
      <4>5. D[r][<<x, u>>] \in Nat /\ D[n][<<v, x>>] \in Nat
        BY <1>2, <4>2
      <4>6. D[n][<<v, x>>] + D[r][<<x, u>>] <= d
        BY <4>1, <4>2, <4>4
      <4> HIDE DEF d
      <4> QED BY <1>3, <4>3, <4>4, <4>5, <4>6
    <3>8. PICK a \in 0 .. i : /\ D[a][<<m, u>>] = D[i][<<m, u>>]
                              /\ a > 0 => D[a][<<m, u>>] < D[a - 1][<<m, u>>]
      BY <3>5, FewestHops
    <3>9. PICK b \in 0 .. j : /\ D[b][<<m, v>>] = D[j][<<m, v>>]
                              /\ b > 0 => D[b][<<m, v>>] < D[b - 1][<<m, v>>]
      BY <3>5, FewestHops
    <3>10. a \in 0 .. K /\ b \in 0 .. K /\ a + b <= k /\ b + a <= k
      BY <1>1, <3>5
    <3>11. D[a][<<m, u>>] + D[b][<<m, v>>] <= d /\ D[b][<<m, v>>] + D[a][<<m, u>>] <= d
      <4>1. D[i][<<u, m>>] = D[i][<<m, u>>]
        BY <3>5, DistSymmetric
      <4>2. D[a][<<m, u>>] \in Nat /\ D[b][<<m, v>>] \in Nat
        BY <1>2, <3>5, <3>10
      <4> HIDE DEF d
      <4> QED BY <3>5a, <3>8, <3>9, <4>1, <4>2
    <3>12. D[k][<<v, u>>] = d
      BY DistSymmetric
    <3>13. Needed(D, H, m, u, a)
      BY <2>2, <3>5, <3>6, <3>8, <3>10, <3>11, HalfIsNeeded
    <3>14. Needed(D, H, m, v, b)
      BY <2>2, <3>5, <3>6, <3>7, <3>9, <3>10, <3>11, <3>12, HalfIsNeeded
    <3>15a. HasLabel(labels, m, u, a, D[a][<<m, u>>])
      BY <3>3, <3>10, <3>13 DEF Halves
    <3>15. PICK e \in labels[u] : e.hub = m /\ e.hop = a /\ e.dist = D[a][<<m, u>>]
      BY <3>15a DEF HasLabel
    <3>16a. HasLabel(labels, m, v, b, D[b][<<m, v>>])
      BY <3>3, <3>10, <3>14 DEF Halves
    <3>16. PICK f \in labels[v] : f.hub = m /\ f.hop = b /\ f.dist = D[b][<<m, v>>]
      BY <3>16a DEF HasLabel
    <3>17. <<e, f>> \in meetings
      BY <3>10, <3>15, <3>16
    <3>18. e.dist + f.dist \in S
      <4> HIDE DEF meetings
      <4>1. <<e, f>>[1].dist + <<e, f>>[2].dist \in S
        BY <3>17
      <4> QED BY <4>1
    <3>19. Min(S) <= e.dist + f.dist
      BY <1>6, <3>18, Zenon
    <3>20. e.dist + f.dist <= d
      BY <3>11, <3>15, <3>16
    <3>21. Min(S) \in Nat /\ e.dist + f.dist \in Nat
      BY <1>5, <1>6, <3>18, Zenon
    <3> HIDE DEF S, d
    <3> QED BY <1>3, <3>19, <3>20, <3>21
  <2> QED BY <1>1, <1>3, <2>1, <2>2
<1>9. Min(S) \in Nat
  BY <1>5, <1>6, Zenon
<1>10. QueryDist(labels[u], labels[v], k) = Min(S)
  BY Zenon DEF QueryDist
<1> HIDE DEF S, d
<1>11. Min(S) = d
  BY <1>3, <1>7, <1>8, <1>9
<1> QED BY <1>10, <1>11 DEF d

(* Sound labels that contain every canonical one answer every query: the   *)
(* highest ranked vertex between two vertices has left what is needed.     *)
LEMMA CanonicalCovers ==
  ASSUME NEW w, Undirected(w), NEW D, D = HopDist(w), NEW labels,
         \A v \in Vertices : \A l \in labels[v] : SoundLabel(D, l, v),
         \A m, v \in Vertices : \A h \in 0 .. K :
           Canonical(D, m, v, h) => HasLabel(labels, m, v, h, D[h][<<m, v>>])
  PROVE  Covers(labels, w)
<1> SUFFICES ASSUME NEW u \in Vertices, NEW v \in Vertices, NEW k \in 0 .. K
             PROVE  \E m \in Vertices : /\ Between(D, m, u, v, k)
                                        /\ Halves(D, labels, m, Outside(D, u, v, k))
  BY NeededCovers
<1> DEFINE X == {x \in Vertices : Between(D, x, u, v, k)}
<1>1. X \subseteq Nat /\ u \in X
  BY EndsBetween DEF Vertices
<1>2. \E m \in X : \A x \in X : m <= x
  <2> HIDE DEF X
  <2> QED BY <1>1, LeastNatural
<1>3. PICK m \in X : \A x \in X : m <= x
  BY <1>2
<1>4. m \in Vertices /\ \A x \in 0 .. m - 1 : x \in Outside(D, u, v, k)
  <2>1. m \in Int /\ \A x \in 0 .. m - 1 : x \in Vertices /\ ~(m <= x)
    BY Sizes DEF Vertices
  <2> QED BY <1>3, <2>1 DEF Outside
<1>5. Halves(D, labels, m, Outside(D, u, v, k))
  <2> SUFFICES ASSUME NEW y \in Vertices, NEW h \in 0 .. K, Needed(D, Outside(D, u, v, k), m, y, h)
               PROVE  HasLabel(labels, m, y, h, D[h][<<m, y>>])
    BY DEF Halves
  <2>1. Needed(D, 0 .. m - 1, m, y, h)
    BY <1>4 DEF Needed
  <2> QED BY <1>4, <2>1, CanonicalIsNeeded
<1> QED BY <1>3, <1>5
=============================================================================
