-------------------------- MODULE PartitionProofs --------------------------
(***************************************************************************)
(* Theorems about generate_Group_CDLP: what the racing threads of label    *)
(* propagation keep, and what the walk over the ordered set keeps, for any *)
(* number of vertices, any bound and any graph.                            *)
(***************************************************************************)
EXTENDS Partition, Sequences, FiniteSetTheorems, FunctionTheorems, TLAPS

(* Induction, sums and ranks, which do not depend on the size of a label   *)
(* index.                                                                  *)
Theory == INSTANCE HopLabelsProofs WITH N <- 1, K <- 1

LEMMA TheoryHolds == Theory!SizeAssumption
BY DEF Theory!SizeAssumption

LEMMA SameSets ==
  \A S : /\ Theory!IsFiniteSet(S) <=> IsFiniteSet(S)
         /\ Theory!Cardinality(S) = Cardinality(S)
BY Zenon DEF Theory!IsFiniteSet, IsFiniteSet, Theory!Cardinality, Cardinality

LEMMA OneByOne ==
  ASSUME NEW S, IsFiniteSet(S), NEW F, {} \in F,
         \A P \in SUBSET S, x \in S : P \in F /\ x \notin P => P \cup {x} \in F
  PROVE  S \in F
BY TheoryHolds, SameSets, Theory!OneByOne

LEMMA Sums ==
  ASSUME NEW n \in Nat, NEW d \in [1 .. n -> Int]
  PROVE  /\ \E f \in [0 .. n -> Int] : f[0] = 0 /\ \A j \in 1 .. n : f[j] = f[j - 1] + d[j]
         /\ \A f : f[0] = 0 /\ (\A j \in 1 .. n : f[j] = f[j - 1] + d[j]) => f[n] \in Int
BY TheoryHolds, Theory!Sums

LEMMA MinNatural ==
  ASSUME NEW S, S \subseteq Nat, S # {}
  PROVE  Min(S) \in S /\ \A k \in S : Min(S) <= k
<1>1. Theory!Min(S) \in S /\ \A k \in S : Theory!Min(S) <= k
  BY TheoryHolds, Theory!MinNatural
<1>2. Theory!Min(S) = Min(S)
  BY Zenon DEF Theory!Min, Min
<1> QED BY <1>1, <1>2

(* A sequence that gives every element of a set at one place.              *)
Lists(s, S) ==
  /\ Cardinality(S) \in Nat
  /\ s \in [1 .. Cardinality(S) -> S]
  /\ \A x \in S : \E i \in 1 .. Cardinality(S) : s[i] = x
  /\ \A i, j \in 1 .. Cardinality(S) : s[i] = s[j] => i = j

(* What the vertex v may take instead of its own id.                       *)
Near(v) == {labels[u] : u \in adj[v]}

PropagationType ==
  /\ adj \in [Vertices -> SUBSET Vertices]
  /\ labels \in [Vertices -> Vertices]
  /\ newLabels \in [Vertices -> Vertices]
  /\ size \in [Vertices -> 0 .. MaxGroup]
  /\ it \in Nat
  /\ pc \in [Vertices -> {"wait", "read", "swap", "end"}]
  /\ offers \in [Vertices -> SUBSET Vertices]
  /\ seen \in [Vertices -> Nat]

(* The kernel runs for every vertex or for none; a thread that swaps saw   *)
(* room; an offer that is gone was full, and a full counter stays full.    *)
Together == (\A v \in Vertices : pc[v] = "wait") \/ (\A v \in Vertices : pc[v] # "wait")
SawRoom == \A v \in Vertices : pc[v] = "swap" => seen[v] < MaxGroup
Refused ==
  \A v \in Vertices : pc[v] \in {"read", "swap"} =>
    /\ offers[v] \subseteq Near(v)
    /\ \A l \in Near(v) \ offers[v] : size[l] = MaxGroup

PropagationInv ==
  /\ PropagationType /\ Together /\ SawRoom /\ Refused
  /\ CountersExact /\ FallbackOnlyWhenFull

(* The vertices whose threads have taken the community l.                  *)
Taken(l) == {v \in Vertices : newLabels[v] = l /\ pc[v] = "end"}
Exact(l) ==
  \/ Cardinality(Taken(l)) = size[l]
  \/ l \in Taken(l) /\ size[l] = MaxGroup /\ Cardinality(Taken(l)) = MaxGroup + 1

LEMMA CountersAre ==
  ASSUME PropagationType, \E v \in Vertices : pc[v] # "wait"
  PROVE  CountersExact <=> \A l \in Vertices : Exact(l)
<1>1. \A l \in Vertices : {v \in Members(newLabels, l) : pc[v] = "end"} = Taken(l)
  BY DEF Members, Taken
<1>2. \A l \in Vertices : size[l] <= MaxGroup
  BY CdlpAssumption DEF PropagationType
<1> QED BY <1>1, <1>2 DEF CountersExact, Exact

LEMMA CountersWillBe ==
  ASSUME PropagationType', \A l \in Vertices : Exact(l)'
  PROVE  CountersExact'
<1>1. \A l \in Vertices : {v \in Members(newLabels, l) : pc[v] = "end"}' = Taken(l)'
  BY DEF Members, Taken
<1>2. \A l \in Vertices : size'[l] <= MaxGroup
  BY CdlpAssumption DEF PropagationType
<1> QED BY <1>1, <1>2 DEF CountersExact, Exact

LEMMA VerticesFinite ==
  /\ IsFiniteSet(Vertices) /\ Vertices \subseteq Nat /\ 0 \in Vertices
  /\ \A S \in SUBSET Vertices : IsFiniteSet(S) /\ Cardinality(S) \in Nat
<1>1. N \in Nat /\ N # 0
  BY CdlpAssumption
<1>2. IsFiniteSet(Vertices) /\ Vertices \subseteq Nat /\ 0 \in Vertices
  BY <1>1, FS_Interval DEF Vertices
<1>3. ASSUME NEW S \in SUBSET Vertices PROVE IsFiniteSet(S) /\ Cardinality(S) \in Nat
  BY <1>2, FS_Subset, FS_CardinalityType
<1> QED BY <1>2, <1>3

LEMMA OfferIs ==
  ASSUME PropagationType, NEW v \in Vertices
  PROVE  /\ Offer(v) \in Vertices
         /\ ~Own(v) => Offer(v) \in offers[v]
         /\ Own(v) => Offer(v) = v /\ offers[v] = {}
<1>1. offers[v] \subseteq Nat
  BY VerticesFinite DEF PropagationType
<1>2. ~Own(v) => Offer(v) \in offers[v]
  BY <1>1, MinNatural DEF Own, Offer
<1> QED BY <1>2 DEF Own, Offer, PropagationType
-----------------------------------------------------------------------------
(* A thread ends: the counter of the community it takes is exact again     *)
(* when it goes up by one, or when the vertex is the community's own and   *)
(* the counter is full.                                                    *)
LEMMA TakeCounts ==
  ASSUME PropagationType, PropagationType', NEW v \in Vertices, pc[v] # "end",
         pc[v] # "wait", Take(v), CountersExact, NEW l, l = Offer(v),
         \/ size' = [size EXCEPT ![l] = @ + 1]
         \/ size' = size /\ size[l] = MaxGroup /\ l = v
  PROVE  CountersExact'
<1>0. l \in Vertices
  BY OfferIs
<1>1. \A k \in Vertices : Exact(k)
  BY CountersAre
<1>2. \A k \in Vertices : Taken(k)' = IF k = l THEN Taken(k) \cup {v} ELSE Taken(k)
  BY DEF Taken, Take, PropagationType
<1>3. \A k \in Vertices : /\ v \notin Taken(k) /\ IsFiniteSet(Taken(k))
                          /\ Cardinality(Taken(k)) \in Nat
  BY VerticesFinite DEF Taken
<1>4. \A k \in Vertices : Cardinality(Taken(k) \cup {v}) = Cardinality(Taken(k)) + 1
  BY <1>3, FS_AddElement
<1>5. ASSUME NEW k \in Vertices PROVE Exact(k)'
  <2>1. CASE k # l
    <3>1. Taken(k)' = Taken(k) /\ size'[k] = size[k]
      BY <1>2, <2>1 DEF PropagationType
    <3> QED BY <1>1, <3>1 DEF Exact
  <2>2. CASE k = l
    <3>1. Taken(l)' = Taken(l) \cup {v} /\ Cardinality(Taken(l)') = Cardinality(Taken(l)) + 1
      BY <1>0, <1>2, <1>4
    <3>2. size[l] \in 0 .. MaxGroup /\ size'[l] \in 0 .. MaxGroup /\ MaxGroup \in Nat
      BY <1>0, CdlpAssumption DEF PropagationType
    <3>3. CASE size' = [size EXCEPT ![l] = @ + 1]
      <4>1. size'[l] = size[l] + 1
        BY <1>0, <3>3 DEF PropagationType
      <4>2. Cardinality(Taken(l)) = size[l]
        BY <1>0, <1>1, <3>2, <4>1 DEF Exact
      <4> QED BY <2>2, <3>1, <4>1, <4>2 DEF Exact
    <3>4. CASE size' = size /\ size[l] = MaxGroup /\ l = v
      <4>1. Cardinality(Taken(l)) = size[l]
        BY <1>0, <1>1, <1>3, <3>4 DEF Exact
      <4>2. l \in Taken(l)' /\ Cardinality(Taken(l)') = MaxGroup + 1
        BY <3>1, <3>4, <4>1
      <4> QED BY <2>2, <3>4, <4>2 DEF Exact
    <3> QED BY <3>3, <3>4
  <2> QED BY <2>1, <2>2
<1> QED BY <1>5, CountersWillBe

(* A thread that takes nothing leaves every counter as exact as it was.    *)
LEMMA NoTakeCounts ==
  ASSUME PropagationType, PropagationType', NEW v \in Vertices,
         pc[v] \in {"read", "swap"}, CountersExact,
         UNCHANGED <<size, newLabels>>,
         \/ pc' = pc \/ pc' = [pc EXCEPT ![v] = "read"] \/ pc' = [pc EXCEPT ![v] = "swap"]
  PROVE  CountersExact'
<1>1. \A k \in Vertices : Taken(k)' = Taken(k)
  BY DEF Taken, PropagationType
<1>2. \A k \in Vertices : Exact(k)
  BY CountersAre
<1>3. \A k \in Vertices : Exact(k)'
  BY <1>1, <1>2 DEF Exact
<1> QED BY <1>3, CountersWillBe
-----------------------------------------------------------------------------
LEMMA PropagationStarts == PartitionInit => PropagationInv
<1> SUFFICES ASSUME PartitionInit PROVE PropagationInv
  OBVIOUS
<1>1. PropagationType
  <2>1. 0 \in Vertices /\ Vertices # {}
    BY VerticesFinite
  <2> QED BY <2>1, CdlpAssumption DEF PartitionInit, Init, PropagationType
<1>2. Together /\ SawRoom /\ Refused /\ CountersExact /\ FallbackOnlyWhenFull
  BY DEF PartitionInit, Init, Together, SawRoom, Refused, CountersExact,
         FallbackOnlyWhenFull
<1> QED BY <1>1, <1>2 DEF PropagationInv

LEMMA LaunchKeeps == PropagationInv /\ Propagate => PropagationInv'
<1> SUFFICES ASSUME PropagationInv, Propagate PROVE PropagationInv'
  OBVIOUS
<1> USE DEF PropagationInv
<1>1. PropagationType'
  BY CdlpAssumption DEF Propagate, PropagationType
<1>2. Together' /\ SawRoom'
  BY DEF Propagate, Together, SawRoom
<1>3. Refused'
  BY <1>1 DEF Propagate, Refused, Near
<1>4. CountersExact'
  <2>1. \A l \in Vertices : Taken(l)' = {} /\ size'[l] = 0
    BY DEF Taken, Propagate
  <2>2. \A l \in Vertices : Exact(l)'
    BY <2>1, FS_EmptySet DEF Exact
  <2> QED BY <1>1, <2>2, CountersWillBe
<1>5. FallbackOnlyWhenFull'
  BY DEF Propagate, FallbackOnlyWhenFull
<1> QED BY <1>1, <1>2, <1>3, <1>4, <1>5

LEMMA EndKeeps == PropagationInv /\ EndIteration => PropagationInv'
<1> SUFFICES ASSUME PropagationInv, EndIteration PROVE PropagationInv'
  OBVIOUS
<1> USE DEF PropagationInv
<1>1. PropagationType'
  BY DEF EndIteration, PropagationType
<1>2. Together' /\ SawRoom' /\ Refused' /\ CountersExact' /\ FallbackOnlyWhenFull'
  BY DEF EndIteration, Together, SawRoom, Refused, CountersExact, FallbackOnlyWhenFull
<1> QED BY <1>1, <1>2
-----------------------------------------------------------------------------
(* What a thread does never makes a counter smaller, and so neither the    *)
(* refusals nor the fallbacks of the others go stale.                      *)
LEMMA OthersKeep ==
  ASSUME PropagationInv, PropagationType', NEW v \in Vertices,
         UNCHANGED <<adj, labels>>,
         \A l \in Vertices : size'[l] >= size[l],
         \A u \in Vertices \ {v} : /\ pc'[u] = pc[u] /\ offers'[u] = offers[u]
                                   /\ newLabels'[u] = newLabels[u],
         pc'[v] \in {"read", "swap"} => /\ pc[v] \in {"read", "swap"}
                                        /\ offers'[v] \subseteq offers[v]
                                        /\ \A l \in offers[v] \ offers'[v] : size'[l] = MaxGroup,
         pc'[v] = "end" => \/ newLabels'[v] \in Near(v)
                           \/ newLabels'[v] = v /\ offers[v] = {} /\ pc[v] \in {"read", "swap"}
  PROVE  Refused' /\ FallbackOnlyWhenFull'
<1> USE DEF PropagationInv
<1>1. \A l \in Vertices : size[l] = MaxGroup => size'[l] = MaxGroup
  <2>1. \A l \in Vertices : size[l] \in 0 .. MaxGroup /\ size'[l] \in 0 .. MaxGroup
    BY DEF PropagationType
  <2> QED BY <2>1, CdlpAssumption
<1>2. \A u \in Vertices : Near(u)' = Near(u) /\ Near(u) \subseteq Vertices
  BY DEF Near, PropagationType
<1>3. Refused'
  <2> SUFFICES ASSUME NEW u \in Vertices, pc'[u] \in {"read", "swap"}
               PROVE  /\ offers'[u] \subseteq Near(u)
                      /\ \A l \in Near(u) \ offers'[u] : size'[l] = MaxGroup
    BY <1>2 DEF Refused
  <2>1. CASE u # v
    BY <1>1, <1>2, <2>1 DEF Refused
  <2>2. CASE u = v
    BY <1>1, <1>2, <2>2 DEF Refused
  <2> QED BY <2>1, <2>2
<1>4. FallbackOnlyWhenFull'
  <2>1. FallbackOnlyWhenFull =
          \A u \in Vertices : (pc[u] = "end" /\ newLabels[u] \notin Near(u)) =>
            newLabels[u] = u /\ \A w \in adj[u] : size[labels[w]] = MaxGroup
    BY DEF FallbackOnlyWhenFull, Near
  <2> SUFFICES ASSUME NEW u \in Vertices, pc'[u] = "end", newLabels'[u] \notin Near(u)
               PROVE  newLabels'[u] = u /\ \A w \in adj[u] : size'[labels[w]] = MaxGroup
    BY <1>2 DEF FallbackOnlyWhenFull, Near
  <2>2. \A w \in adj[u] : labels[w] \in Near(u) /\ labels[w] \in Vertices
    BY <1>2 DEF Near
  <2>3. CASE u # v
    <3>1. newLabels[u] = u /\ \A w \in adj[u] : size[labels[w]] = MaxGroup
      BY <2>1, <2>3
    <3> QED BY <1>1, <2>2, <2>3, <3>1
  <2>4. CASE u = v
    <3>1. newLabels'[v] = v /\ offers[v] = {} /\ pc[v] \in {"read", "swap"}
      BY <2>4
    <3>2. \A l \in Near(v) : size[l] = MaxGroup
      BY <3>1 DEF Refused
    <3> QED BY <1>1, <2>2, <2>4, <3>1, <3>2
  <2> QED BY <2>3, <2>4
<1> QED BY <1>3, <1>4
-----------------------------------------------------------------------------
LEMMA ReadKeeps ==
  ASSUME PropagationInv, NEW v \in Vertices, Read(v)
  PROVE  PropagationInv'
<1> USE DEF PropagationInv
<1> DEFINE l == Offer(v)
<1>1. /\ l \in Vertices /\ (~Own(v) => l \in offers[v])
      /\ (Own(v) => l = v /\ offers[v] = {})
  BY OfferIs
<1>2. /\ pc[v] = "read" /\ UNCHANGED <<adj, labels, size, it>>
      /\ offers[v] \subseteq Near(v)
      /\ size[l] \in 0 .. MaxGroup /\ MaxGroup \in Nat
  BY <1>1, CdlpAssumption DEF Read, Refused, PropagationType
<1> HIDE DEF l
<1>3. CASE /\ ~Full(l)
           /\ seen' = [seen EXCEPT ![v] = size[l]]
           /\ pc' = [pc EXCEPT ![v] = "swap"]
           /\ UNCHANGED <<newLabels, offers>>
  <2>1. PropagationType'
    BY <1>2, <1>3 DEF PropagationType
  <2>2. Together' /\ SawRoom'
    BY <1>2, <1>3 DEF Together, SawRoom, PropagationType, Full
  <2>3. CountersExact'
    BY <1>2, <1>3, <2>1, NoTakeCounts
  <2>4. Refused' /\ FallbackOnlyWhenFull'
    <3>1. \A k \in Vertices : size'[k] >= size[k]
      BY <1>2 DEF PropagationType
    <3> QED BY <1>2, <1>3, <2>1, <3>1, OthersKeep DEF PropagationType
  <2> QED BY <2>1, <2>2, <2>3, <2>4
<1>4. CASE /\ Full(l) /\ ~Own(v)
           /\ offers' = [offers EXCEPT ![v] = @ \ {l}]
           /\ UNCHANGED <<newLabels, pc, seen>>
  <2>1. PropagationType'
    BY <1>2, <1>4 DEF PropagationType
  <2>2. Together' /\ SawRoom'
    BY <1>2, <1>4 DEF Together, SawRoom
  <2>3. CountersExact'
    BY <1>2, <1>4, <2>1, NoTakeCounts
  <2>4. Refused' /\ FallbackOnlyWhenFull'
    <3>1. \A k \in Vertices : size'[k] >= size[k]
      BY <1>2 DEF PropagationType
    <3>2. size'[l] = MaxGroup
      BY <1>2, <1>4 DEF Full
    <3> QED BY <1>2, <1>4, <2>1, <3>1, <3>2, OthersKeep DEF PropagationType
  <2> QED BY <2>1, <2>2, <2>3, <2>4
<1>5. CASE /\ Full(l) /\ Own(v) /\ Take(v)
           /\ UNCHANGED <<offers, seen>>
  <2>0. newLabels' = [newLabels EXCEPT ![v] = l] /\ pc' = [pc EXCEPT ![v] = "end"]
    BY <1>5 DEF Take, l
  <2>1. PropagationType'
    BY <1>1, <1>2, <1>5, <2>0 DEF PropagationType
  <2>2. Together' /\ SawRoom'
    BY <1>2, <1>5, <2>0 DEF Together, SawRoom, PropagationType
  <2>3. CountersExact'
    <3>1. size' = size /\ size[l] = MaxGroup /\ l = v
      BY <1>1, <1>2, <1>5 DEF Full
    <3> QED BY <1>2, <1>5, <2>1, <3>1, TakeCounts DEF l
  <2>4. Refused' /\ FallbackOnlyWhenFull'
    <3>1. \A k \in Vertices : size'[k] >= size[k]
      BY <1>2 DEF PropagationType
    <3> QED BY <1>1, <1>2, <1>5, <2>0, <2>1, <3>1, OthersKeep DEF PropagationType
  <2> QED BY <2>1, <2>2, <2>3, <2>4
<1> QED BY <1>3, <1>4, <1>5 DEF Read, l

LEMMA SwapKeeps ==
  ASSUME PropagationInv, NEW v \in Vertices, Swap(v)
  PROVE  PropagationInv'
<1> USE DEF PropagationInv
<1> DEFINE l == Offer(v)
<1>1. /\ l \in Vertices /\ (~Own(v) => l \in offers[v])
      /\ (Own(v) => l = v /\ offers[v] = {})
  BY OfferIs
<1>2. /\ pc[v] = "swap" /\ UNCHANGED <<adj, labels, it, offers, seen>>
      /\ offers[v] \subseteq Near(v)
      /\ size[l] \in 0 .. MaxGroup /\ seen[v] < MaxGroup /\ MaxGroup \in Nat
  BY <1>1, CdlpAssumption DEF Swap, Refused, SawRoom, PropagationType
<1> HIDE DEF l
<1>3. CASE size[l] = seen[v] /\ size' = [size EXCEPT ![l] = @ + 1] /\ Take(v)
  <2>0. newLabels' = [newLabels EXCEPT ![v] = l] /\ pc' = [pc EXCEPT ![v] = "end"]
    BY <1>3 DEF Take, l
  <2>1. PropagationType'
    <3>1. size[l] + 1 \in 0 .. MaxGroup
      BY <1>2, <1>3
    <3>2. size' \in [Vertices -> 0 .. MaxGroup]
      BY <1>1, <1>3, <3>1 DEF PropagationType
    <3> QED BY <1>1, <1>2, <2>0, <3>2 DEF PropagationType
  <2>2. Together' /\ SawRoom'
    BY <1>2, <2>0 DEF Together, SawRoom, PropagationType
  <2>3. CountersExact'
    BY <1>2, <1>3, <2>1, TakeCounts DEF l
  <2>4. Refused' /\ FallbackOnlyWhenFull'
    <3>1. \A k \in Vertices : size'[k] >= size[k]
      BY <1>1, <1>3 DEF PropagationType
    <3> QED BY <1>1, <1>2, <2>0, <2>1, <3>1, OthersKeep DEF PropagationType
  <2> QED BY <2>1, <2>2, <2>3, <2>4
<1>4. CASE pc' = [pc EXCEPT ![v] = "read"] /\ UNCHANGED <<size, newLabels>>
  <2>1. PropagationType'
    BY <1>2, <1>4 DEF PropagationType
  <2>2. Together' /\ SawRoom'
    BY <1>2, <1>4 DEF Together, SawRoom, PropagationType
  <2>3. CountersExact'
    BY <1>2, <1>4, <2>1, NoTakeCounts
  <2>4. Refused' /\ FallbackOnlyWhenFull'
    <3>1. \A k \in Vertices : size'[k] >= size[k]
      BY <1>4 DEF PropagationType
    <3> QED BY <1>2, <1>4, <2>1, <3>1, OthersKeep DEF PropagationType
  <2> QED BY <2>1, <2>2, <2>3, <2>4
<1> QED BY <1>3, <1>4 DEF Swap, l

LEMMA PropagationSafe == PartitionSpec => []PropagationInv
<1>1. PropagationInv /\ [PartitionNext]_<<vars, merge>> => PropagationInv'
  <2> SUFFICES ASSUME PropagationInv, [PartitionNext]_<<vars, merge>>
               PROVE  PropagationInv'
    OBVIOUS
  <2>1. CASE Propagation
    BY <2>1, LaunchKeeps, EndKeeps, ReadKeeps, SwapKeeps DEF Propagation
  <2>2. CASE Grouping \/ UNCHANGED <<vars, merge>>
    <3>1. UNCHANGED vars
      BY <2>2 DEF Grouping, Merging!Next, Merging!Collect, Merging!Merge,
                  Merging!Emit, Merging!Sort, vars
    <3> QED BY <3>1 DEF vars, PropagationInv, PropagationType, Together, SawRoom,
            Refused, Near, CountersExact, Members, FallbackOnlyWhenFull
  <2> QED BY <2>1, <2>2 DEF PartitionNext, PartitionDone
<1> QED BY <1>1, PropagationStarts, PTL DEF PartitionSpec

(* For every number of vertices, bound and graph: while the threads of a   *)
(* kernel race, a counter is the number of vertices that have taken the    *)
(* community, up to the one vertex the full community is named after.      *)
THEOREM CountersAlwaysExact == PartitionSpec => []CountersExact
BY PropagationSafe, PTL DEF PropagationInv

(* And whatever the order of the compare-and-swaps, a vertex falls back to *)
(* its own id only when every neighbour's community was full.              *)
THEOREM FallbackAlwaysJustified == PartitionSpec => []FallbackOnlyWhenFull
BY PropagationSafe, PTL DEF PropagationInv
-----------------------------------------------------------------------------
(* Every vertex is in one place of one of the parts, third of a triple.    *)
HoldOnce(parts) ==
  /\ \A p \in parts : p[3] \in Seq(Vertices)
  /\ \A v \in Vertices : \E p \in parts : \E k \in DOMAIN p[3] : p[3][k] = v
  /\ \A p, q \in parts : \A k \in DOMAIN p[3], l \in DOMAIN q[3] :
       p[3][k] = q[3][l] => p = q /\ k = l

LEMMA OnceIs ==
  ASSUME NEW parts, HoldOnce(parts)
  PROVE  Merging!Once(parts)
<1> DEFINE places == UNION {{p} \X DOMAIN p[3] : p \in parts}
           At(x) == x[1][3][x[2]]
<1>1. \A x \in places : /\ x[1] \in parts /\ x[2] \in DOMAIN x[1][3]
                        /\ x = <<x[1], x[2]>>
  OBVIOUS
<1>2. \A p \in parts : \A k \in DOMAIN p[3] : <<p, k>> \in places /\ At(<<p, k>>) = p[3][k]
  OBVIOUS
<1>3. \A p \in parts : \A k \in DOMAIN p[3] : p[3][k] \in Vertices
  BY DEF HoldOnce
<1> HIDE DEF places
<1>4. {At(x) : x \in places} = Vertices
  <2>1. \A x \in places : At(x) \in Vertices
    BY <1>1, <1>3
  <2>2. \A v \in Vertices : \E x \in places : At(x) = v
    <3> SUFFICES ASSUME NEW v \in Vertices PROVE \E x \in places : At(x) = v
      OBVIOUS
    <3>1. PICK p \in parts : \E k \in DOMAIN p[3] : p[3][k] = v
      BY DEF HoldOnce
    <3>2. PICK k \in DOMAIN p[3] : p[3][k] = v
      BY <3>1
    <3> HIDE DEF At
    <3> QED BY <1>2, <3>2
  <2> HIDE DEF At
  <2> QED BY <2>1, <2>2
<1>5. \A x, y \in places : At(x) = At(y) => x = y
  BY <1>1 DEF HoldOnce
<1>6. Vertices = Merging!Vertices
  BY DEF Vertices, Merging!Vertices
<1> QED BY <1>4, <1>5, <1>6 DEF Merging!Once, places

(* A part may be put in the place of another with the same vertices.       *)
LEMMA RenameOnce ==
  ASSUME NEW parts, HoldOnce(parts), NEW p \in parts, NEW m, m[3] = p[3],
         m \notin parts \ {p}
  PROVE  HoldOnce((parts \ {p}) \cup {m})
<1> DEFINE new == (parts \ {p}) \cup {m}
<1>1. \A q \in new : q[3] \in Seq(Vertices)
  BY DEF HoldOnce
<1>2. \A v \in Vertices : \E q \in new : \E k \in DOMAIN q[3] : q[3][k] = v
  BY DEF HoldOnce
<1>3. ASSUME NEW q \in new, NEW r \in new, NEW k \in DOMAIN q[3], NEW l \in DOMAIN r[3],
             q[3][k] = r[3][l]
      PROVE  q = r /\ k = l
  <2> DEFINE old(x) == IF x = m THEN p ELSE x
  <2>1. /\ old(q) \in parts /\ old(q)[3] = q[3]
        /\ old(r) \in parts /\ old(r)[3] = r[3]
    OBVIOUS
  <2>2. old(q) = old(r) /\ k = l
    BY <1>3, <2>1 DEF HoldOnce
  <2> QED BY <2>2
<1> HIDE DEF new
<1>4. HoldOnce(new)
  BY <1>1, <1>2, <1>3 DEF HoldOnce
<1> QED BY <1>4 DEF new

LEMMA Concatenated ==
  ASSUME NEW S, NEW a \in Seq(S), NEW b \in Seq(S), NEW c, c = a \o b
  PROVE  /\ c \in Seq(S) /\ Len(c) = Len(a) + Len(b)
         /\ \A k \in 1 .. Len(a) : c[k] = a[k]
         /\ \A k \in 1 .. Len(b) : c[Len(a) + k] = b[k]
         /\ DOMAIN a = 1 .. Len(a) /\ DOMAIN b = 1 .. Len(b) /\ DOMAIN c = 1 .. Len(c)
         /\ Len(a) \in Nat /\ Len(b) \in Nat /\ Len(c) \in Nat
<1>1. Len(a) \in Nat /\ Len(b) \in Nat /\ c \in Seq(S) /\ Len(c) = Len(a) + Len(b)
  OBVIOUS
<1>2. \A k \in 1 .. Len(a) : c[k] = a[k]
  OBVIOUS
<1>3. \A k \in 1 .. Len(b) : c[Len(a) + k] = b[k]
  OBVIOUS
<1> QED BY <1>1, <1>2, <1>3

(* Two parts may be joined.                                                *)
LEMMA JoinOnce ==
  ASSUME NEW parts, HoldOnce(parts), NEW p \in parts, NEW q \in parts, p # q,
         NEW a, a = p[3], NEW b, b = q[3], NEW m, NEW c, c = m[3], c = a \o b,
         m \notin parts \ {p, q}
  PROVE  HoldOnce((parts \ {p, q}) \cup {m})
<1> DEFINE new == (parts \ {p, q}) \cup {m}
<1>0. a \in Seq(Vertices) /\ b \in Seq(Vertices)
  BY DEF HoldOnce
<1>1. /\ c \in Seq(Vertices)
      /\ Len(c) = Len(a) + Len(b)
      /\ \A k \in 1 .. Len(a) : c[k] = a[k]
      /\ \A k \in 1 .. Len(b) : c[Len(a) + k] = b[k]
  BY ONLY <1>0, c = a \o b, Concatenated
<1>2. /\ DOMAIN a = 1 .. Len(a) /\ DOMAIN b = 1 .. Len(b)
      /\ DOMAIN c = 1 .. Len(c)
      /\ Len(a) \in Nat /\ Len(b) \in Nat /\ Len(c) \in Nat
  BY ONLY <1>0, c = a \o b, Concatenated
<1>2a. ASSUME NEW k \in 1 .. Len(a) + Len(b), ~ (k <= Len(a))
       PROVE  k - Len(a) \in 1 .. Len(b) /\ k = Len(a) + (k - Len(a))
  BY ONLY <1>2, <1>2a
<1>2b. /\ \A k \in DOMAIN a : k \in DOMAIN c /\ c[k] = a[k]
       /\ \A k \in DOMAIN b : /\ Len(a) + k \in DOMAIN c
                                 /\ c[Len(a) + k] = b[k]
  <2>1. /\ \A k \in 1 .. Len(a) : k \in 1 .. Len(a) + Len(b)
        /\ \A k \in 1 .. Len(b) : Len(a) + k \in 1 .. Len(a) + Len(b)
    BY ONLY <1>2
  <2> QED BY <1>1, <1>2, <2>1, Zenon
<1> DEFINE old(x, k) == IF x # m THEN <<x, k>>
                        ELSE IF k <= Len(a) THEN <<p, k>> ELSE <<q, k - Len(a)>>
<1>3. ASSUME NEW x \in new, NEW k \in DOMAIN x[3]
      PROVE  /\ old(x, k)[1] \in parts /\ old(x, k)[2] \in DOMAIN old(x, k)[1][3]
             /\ old(x, k)[1][3][old(x, k)[2]] = x[3][k]
  <2>1. CASE x # m
    BY <2>1
  <2>2. CASE x = m
    <3>1. k \in 1 .. Len(a) + Len(b)
      BY <1>1, <1>2, <2>2
    <3>2. CASE k <= Len(a)
      <4>1. old(x, k) = <<p, k>> /\ k \in 1 .. Len(a) /\ c[k] = a[k]
        <5>1. k \in 1 .. Len(a)
          BY ONLY <1>2, <3>1, <3>2
        <5> QED BY <1>1, <2>2, <3>2, <5>1
      <4>2. old(x, k)[1] = p /\ old(x, k)[2] = k
        BY <4>1, Zenon
      <4> HIDE DEF old
      <4> QED BY ONLY p \in parts, a = p[3], c = m[3], <1>2, <2>2, <4>1, <4>2
    <3>3. CASE ~ (k <= Len(a))
      <4>1. k - Len(a) \in 1 .. Len(b) /\ k = Len(a) + (k - Len(a))
        BY <1>2a, <3>1, <3>3
      <4>2. c[k] = b[k - Len(a)]
        BY <1>1, <4>1
      <4>3. old(x, k) = <<q, k - Len(a)>>
        BY <1>2, <2>2, <3>1, <3>3
      <4> QED BY <1>2, <2>2, <4>1, <4>2, <4>3
    <3> QED BY <1>2, <3>1, <3>2, <3>3
  <2> QED BY <2>1, <2>2
<1>4. \A x \in new : x[3] \in Seq(Vertices)
  <2>1. m[3] \in Seq(Vertices)
    BY ONLY <1>1, c = m[3]
  <2>2. \A x \in parts : x[3] \in Seq(Vertices)
    BY DEF HoldOnce
  <2> QED BY <2>1, <2>2, Zenon
<1>5. ASSUME NEW v \in Vertices PROVE \E x \in new : \E k \in DOMAIN x[3] : x[3][k] = v
  <2>1. PICK x \in parts : \E k \in DOMAIN x[3] : x[3][k] = v
    BY DEF HoldOnce
  <2>2. PICK k \in DOMAIN x[3] : x[3][k] = v
    BY <2>1
  <2>3. CASE x = p
    <3>1. k \in DOMAIN c /\ c[k] = v
      BY <1>2b, <2>2, <2>3
    <3> QED BY <3>1
  <2>4. CASE x = q
    <3>1. Len(a) + k \in DOMAIN c /\ c[Len(a) + k] = v
      BY <1>2b, <2>2, <2>4
    <3> QED BY <3>1
  <2>5. CASE x # p /\ x # q
    BY <2>2, <2>5
  <2> QED BY <2>3, <2>4, <2>5
<1>6. ASSUME NEW x \in new, NEW y \in new, NEW k \in DOMAIN x[3], NEW l \in DOMAIN y[3],
             x[3][k] = y[3][l]
      PROVE  x = y /\ k = l
  <2>1. old(x, k)[1] = old(y, l)[1] /\ old(x, k)[2] = old(y, l)[2]
    <3> HIDE DEF old, new
    <3> QED BY <1>3, <1>6 DEF HoldOnce
  <2>2. (x # m => old(x, k) = <<x, k>> /\ x # p /\ x # q)
        /\ (y # m => old(y, l) = <<y, l>> /\ y # p /\ y # q)
    <3>1. CASE m \notin parts \ {p, q}
      BY <3>1
    <3> QED BY <3>1
  <2>3. CASE x # m /\ y # m
    BY <2>1, <2>2, <2>3
  <2>4. CASE x = m /\ y = m
    <3>1. k \in 1 .. Len(c) /\ l \in 1 .. Len(c)
      BY <1>2, <2>4
    <3> QED BY <1>2, <2>1, <2>4, <3>1
  <2>5. CASE x # m /\ y = m
    BY <2>1, <2>2, <2>5
  <2>6. CASE x = m /\ y # m
    BY <2>1, <2>2, <2>6
  <2> QED BY <2>3, <2>4, <2>5, <2>6
<1> HIDE DEF new
<1>7. HoldOnce(new)
  BY <1>4, <1>5, <1>6 DEF HoldOnce
<1> QED BY <1>7 DEF new
-----------------------------------------------------------------------------
(* What the ordered set holds: finitely many units, no two of one id, so   *)
(* that Less is a strict total order on them.                              *)
UnitSet(S) ==
  /\ IsFiniteSet(S)
  /\ \A x \in S : x \in [id : Nat, size : Int, node : Seq(Vertices)]
  /\ \A x, y \in S : x.id = y.id => x = y

LEMMA LessOrders ==
  ASSUME NEW S, UnitSet(S)
  PROVE  /\ \A x, y \in S : x = y \/ Merging!Less(x, y) \/ Merging!Less(y, x)
         /\ \A x \in S : ~ Merging!Less(x, x)
         /\ \A x, y, z \in S : Merging!Less(x, y) /\ Merging!Less(y, z) => Merging!Less(x, z)
<1>1. \A x \in S : x.id \in Nat /\ x.size \in Int
  BY DEF UnitSet
<1> QED BY <1>1 DEF Merging!Less, UnitSet

LEMMA LargestIs ==
  ASSUME NEW S, UnitSet(S), S # {}
  PROVE  /\ Merging!Largest(S) \in S
         /\ \A b \in S \ {Merging!Largest(S)} : Merging!Less(b, Merging!Largest(S))
<1> DEFINE F == {P \in SUBSET S : P # {} => \E a \in P : \A b \in P \ {a} : Merging!Less(b, a)}
<1>1. {} \in F
  OBVIOUS
<1>2. ASSUME NEW P \in SUBSET S, NEW x \in S, P \in F, x \notin P
      PROVE  P \cup {x} \in F
  <2>1. CASE P = {}
    BY <2>1
  <2>2. CASE P # {}
    <3>1. PICK a \in P : \A b \in P \ {a} : Merging!Less(b, a)
      BY <1>2, <2>2
    <3>2. CASE Merging!Less(x, a)
      BY <3>1, <3>2
    <3>3. CASE Merging!Less(a, x)
      <4>1. \A b \in P : Merging!Less(b, x)
        BY <3>1, <3>3, LessOrders
      <4> QED BY <4>1
    <3>4. a # x
      BY <1>2
    <3> QED BY <3>2, <3>3, <3>4, LessOrders
  <2> QED BY <2>1, <2>2
<1>3. S \in F
  <2> HIDE DEF F
  <2> QED BY <1>1, <1>2, OneByOne DEF UnitSet
<1>4. \E a \in S : \A b \in S \ {a} : Merging!Less(b, a)
  BY <1>3
<1> QED BY <1>4, Zenon DEF Merging!Largest
-----------------------------------------------------------------------------
(* The walk over the set: the units' sizes are right, units and finished   *)
(* groups hold each vertex once, and nothing fits beside a finished group. *)
Parts == Merging!Units \cup Merging!Listed(after)
NoRoom ==
  \A i \in DOMAIN after :
    /\ \A x \in se : Len(after[i]) + x.size > MaxGroup
    /\ \A j \in DOMAIN after : i # j => Len(after[i]) + Len(after[j]) > MaxGroup
Walk ==
  /\ UnitSet(se) /\ \A x \in se : x.size = Len(x.node)
  /\ after \in Seq(Seq(Vertices))
  /\ HoldOnce(Parts) /\ NoRoom

MergeInv ==
  /\ mpc \in {"collect", "merge", "done"}
  /\ mpc = "collect" => se = {} /\ after = <<>>
  /\ mpc = "merge" => Walk
  /\ mpc = "done" => HoldOnce(Merging!Listed(groups))
  /\ Merging!NoTwoFit

(* The instance has its own copies of the operators on finite sets.        *)
LEMMA MergingNumbers ==
  ASSUME NEW S, IsFiniteSet(S), S \subseteq Int
  PROVE  Lists(Merging!Ordered(S, <), S)
<1>1. Merging!Ordered(S, <) = Theory!Ordered(S, <)
  BY Zenon DEF Merging!Ordered, Theory!Ordered, Merging!Cardinality, Theory!Cardinality
<1>2. Theory!Lists(Theory!Ordered(S, <), S)
  BY TheoryHolds, SameSets, Theory!OrderedNumbers
<1>3. Lists(Theory!Ordered(S, <), S)
  BY <1>2, SameSets DEF Theory!Lists, Lists
<1> QED BY <1>1, <1>3, Zenon

LEMMA MergingUnits ==
  ASSUME NEW S, UnitSet(S)
  PROVE  Lists(Merging!Ordered(S, Merging!Less), S)
<1> SUFFICES ASSUME NEW s, s = Merging!Ordered(S, Merging!Less) PROVE Lists(s, S)
  BY Zenon
<1> DEFINE below == [x \in S |-> {y \in S : Merging!Less(y, x)}]
           e(i) == CHOOSE x \in S : Cardinality({y \in S : Merging!Less(y, x)}) = i - 1
<1>1. s = [i \in 1 .. Cardinality(S) |-> e(i)]
  BY DEF Merging!Ordered, Merging!Cardinality, Cardinality
<1>2. below \in [S -> SUBSET S] /\ \A x, y \in S : y \in below[x] <=> Merging!Less(y, x)
  OBVIOUS
<1>3. s = [i \in 1 .. Cardinality(S) |-> s[i]]
  <2> HIDE DEF e
  <2> QED BY ONLY <1>1
<1>4. ASSUME NEW i \in 1 .. Cardinality(S),
             \E x \in S : Cardinality(below[x]) = i - 1
      PROVE  s[i] \in S /\ Cardinality(below[s[i]]) = i - 1
  <2>1. \E x \in S : Cardinality({y \in S : Merging!Less(y, x)}) = i - 1
    BY <1>4
  <2>2. e(i) \in S /\ Cardinality({y \in S : Merging!Less(y, e(i))}) = i - 1
    BY <2>1, Zenon
  <2>3. s[i] = e(i)
    <3> HIDE DEF e
    <3> QED BY <1>1
  <2> HIDE DEF e
  <2> QED BY <2>2, <2>3
<1> HIDE DEF below
<1>5. /\ IsFiniteSet(S)
      /\ \A x, y \in S : x = y \/ x \in below[y] \/ y \in below[x]
      /\ \A x \in S : x \notin below[x]
      /\ \A x, y, z \in S : x \in below[y] /\ y \in below[z] => x \in below[z]
  BY <1>2, LessOrders DEF UnitSet
<1>6. Theory!IsFiniteSet(S) /\ Theory!RankOrder(S, below)
  BY <1>2, <1>5, SameSets DEF Theory!RankOrder
<1>7. Theory!AtRanks(s, S, below)
  <2>1. Theory!Cardinality(S) = Cardinality(S)
        /\ \A x : Theory!Cardinality(below[x]) = Cardinality(below[x])
    BY SameSets
  <2> QED BY ONLY <1>3, <1>4, <2>1, Zenon DEF Theory!AtRanks
<1>8. Theory!Lists(s, S)
  BY ONLY <1>6, <1>7, TheoryHolds, Theory!RanksList
<1> QED BY <1>8, SameSets DEF Theory!Lists, Lists

LEMMA CollectKeeps ==
  ASSUME PropagationInv, MergeInv, Merging!Collect
  PROVE  MergeInv'
<1> DEFINE L == {labels[v] : v \in Merging!Vertices}
           n == Cardinality(L)
           In(l) == {v \in Merging!Vertices : labels[v] = l}
           used == Merging!Ordered(L, <)
           nodes(l) == Merging!Ordered(In(l), <)
           unit(i) == [id |-> i - 1, size |-> Len(nodes(used[i])), node |-> nodes(used[i])]
<1>1. se' = {unit(i) : i \in DOMAIN used} /\ after' = after /\ mpc' = "merge"
  BY Zenon DEF Merging!Collect
<1>2. after = <<>> /\ Merging!Vertices = Vertices
  BY DEF Merging!Collect, MergeInv, Vertices, Merging!Vertices
<1>3. /\ labels \in [Vertices -> Vertices] /\ L \in SUBSET Vertices
      /\ \A l \in L : In(l) \in SUBSET Vertices
  BY <1>2 DEF PropagationInv, PropagationType
<1>4. \A S \in SUBSET Vertices : Lists(Merging!Ordered(S, <), S)
  <2>1. \A S \in SUBSET Vertices : IsFiniteSet(S) /\ S \subseteq Int
    BY VerticesFinite
  <2> QED BY <2>1, MergingNumbers, Zenon
<1>5. /\ n \in Nat /\ used \in [1 .. n -> L]
      /\ \A x \in L : \E i \in 1 .. n : used[i] = x
      /\ \A i, j \in 1 .. n : used[i] = used[j] => i = j
  <2> HIDE DEF L
  <2>1. Lists(used, L)
    BY <1>3, <1>4, Zenon
  <2> HIDE DEF used
  <2> QED BY <2>1 DEF Lists
<1>6. ASSUME NEW l \in L
      PROVE  /\ nodes(l) \in Seq(Vertices) /\ Len(nodes(l)) \in Nat
             /\ \A v \in In(l) : \E k \in DOMAIN nodes(l) : nodes(l)[k] = v
             /\ \A k \in DOMAIN nodes(l) : nodes(l)[k] \in In(l)
             /\ \A k, m \in DOMAIN nodes(l) : nodes(l)[k] = nodes(l)[m] => k = m
  <2> DEFINE c == Cardinality(In(l))
             s == nodes(l)
  <2>0. Lists(s, In(l)) /\ In(l) \subseteq Vertices
    <3> HIDE DEF L, In
    <3> QED BY <1>3, <1>4, Zenon
  <2> HIDE DEF nodes, used, In, L
  <2>1. /\ c \in Nat /\ s \in [1 .. c -> In(l)]
        /\ \A x \in In(l) : \E i \in 1 .. c : s[i] = x
        /\ \A i, j \in 1 .. c : s[i] = s[j] => i = j
    BY <2>0 DEF Lists
  <2>2. s \in [1 .. c -> Vertices]
    BY <2>0, <2>1
  <2>3. s \in Seq(Vertices) /\ Len(s) \in Nat /\ DOMAIN s = 1 .. c
    <3> HIDE DEF s, c
    <3> QED BY <2>1, <2>2
  <2> QED BY <2>1, <2>3
<1> HIDE DEF L, In, n, used, nodes
<1>7. \A i \in 1 .. n : /\ unit(i).id = i - 1 /\ unit(i).node = nodes(used[i])
                        /\ unit(i).size = Len(nodes(used[i]))
                        /\ unit(i) \in [id : Nat, size : Int, node : Seq(Vertices)]
  BY <1>5, <1>6
<1>8. UnitSet(se') /\ \A x \in se' : x.size = Len(x.node)
  <2> DEFINE f == [i \in 1 .. n |-> unit(i)]
  <2>1. IsFiniteSet(1 .. n) /\ f \in Surjection(1 .. n, se')
    <3>1. f \in [1 .. n -> se'] /\ \A x \in se' : \E i \in 1 .. n : f[i] = x
      BY <1>1, <1>5
    <3> HIDE DEF f
    <3>2. f \in Surjection(1 .. n, se')
      BY <3>1, Fun_IsSurj
    <3>3. IsFiniteSet(1 .. n)
      BY <1>5, FS_Interval
    <3> QED BY <3>2, <3>3
  <2>2. IsFiniteSet(se')
    <3> HIDE DEF f
    <3> QED BY <2>1, FS_Surjection
  <2>3. \A i, j \in 1 .. n : i - 1 = j - 1 => i = j
    BY <1>5
  <2> HIDE DEF unit
  <2> QED BY <1>1, <1>5, <1>7, <2>2, <2>3 DEF UnitSet
<1>9. HoldOnce(Parts')
  <2>1. Parts' = {<<"unit", i - 1, nodes(used[i])>> : i \in 1 .. n}
    <3>1. Merging!Listed(after)' = {}
      BY <1>1, <1>2 DEF Merging!Listed
    <3>2. Merging!Units' = {<<"unit", x.id, x.node>> : x \in se'}
      BY DEF Merging!Units
    <3> DEFINE part(i) == <<"unit", i - 1, nodes(used[i])>>
    <3>3. Parts' = {<<"unit", x.id, x.node>> : x \in se'}
      BY <3>1, <3>2 DEF Parts
    <3>4. \A i \in 1 .. n : /\ unit(i) \in se'
                            /\ <<"unit", unit(i).id, unit(i).node>> = part(i)
      BY <1>1, <1>5, <1>7
    <3>5. \A x \in se' : \E i \in 1 .. n : x = unit(i)
      BY <1>1, <1>5
    <3> HIDE DEF unit, part
    <3>6. Parts' = {part(i) : i \in 1 .. n}
      <4>1. \A p \in Parts' : \E i \in 1 .. n : p = part(i)
        BY <3>3, <3>4, <3>5
      <4>2. \A i \in 1 .. n : part(i) \in Parts'
        BY <3>3, <3>4
      <4> QED BY <4>1, <4>2
    <3> QED BY <3>6 DEF part
  <2>2. \A p \in Parts' : \E i \in 1 .. n : p = <<"unit", i - 1, nodes(used[i])>>
    BY <2>1
  <2>3. \A p \in Parts' : p[3] \in Seq(Vertices)
    BY <1>5, <1>6, <2>2
  <2>4. ASSUME NEW v \in Vertices
        PROVE  \E p \in Parts' : \E k \in DOMAIN p[3] : p[3][k] = v
    <3>1. labels[v] \in L /\ v \in In(labels[v])
      BY <1>2 DEF L, In
    <3>2. PICK i \in 1 .. n : used[i] = labels[v]
      BY <1>5, <3>1
    <3>3. PICK k \in DOMAIN nodes(used[i]) : nodes(used[i])[k] = v
      BY <1>6, <3>1, <3>2
    <3>4. <<"unit", i - 1, nodes(used[i])>> \in Parts'
      BY <2>1
    <3> QED BY <3>3, <3>4
  <2>5. ASSUME NEW p \in Parts', NEW q \in Parts', NEW k \in DOMAIN p[3], NEW l \in DOMAIN q[3],
               p[3][k] = q[3][l]
        PROVE  p = q /\ k = l
    <3>1. PICK i \in 1 .. n : p = <<"unit", i - 1, nodes(used[i])>>
      BY <2>2
    <3>2. PICK j \in 1 .. n : q = <<"unit", j - 1, nodes(used[j])>>
      BY <2>2
    <3>3. nodes(used[i])[k] = nodes(used[j])[l]
      BY <2>5, <3>1, <3>2
    <3>4. nodes(used[i])[k] \in In(used[i]) /\ nodes(used[j])[l] \in In(used[j])
      BY <1>5, <1>6, <2>5, <3>1, <3>2
    <3>5. used[i] = used[j]
      BY <3>3, <3>4 DEF In
    <3>6. i = j
      BY <1>5, <3>5
    <3>7. k \in DOMAIN nodes(used[i]) /\ l \in DOMAIN nodes(used[i])
      BY <3>1, <3>2, <3>6
    <3>8. k = l
      BY <1>5, <1>6, <3>3, <3>6, <3>7
    <3> QED BY <3>1, <3>2, <3>6, <3>8
  <2> QED BY <2>3, <2>4, <2>5 DEF HoldOnce
<1>10. NoRoom' /\ Merging!NoTwoFit' /\ after' \in Seq(Seq(Vertices))
  BY <1>1, <1>2 DEF NoRoom, Merging!NoTwoFit
<1>11. Walk' = (/\ UnitSet(se') /\ \A x \in se' : x.size = Len(x.node)
               /\ after' \in Seq(Seq(Vertices)) /\ HoldOnce(Parts') /\ NoRoom')
  BY DEF Walk, UnitSet, HoldOnce, Vertices
<1> QED BY <1>1, <1>2, <1>8, <1>9, <1>10, <1>11 DEF MergeInv
-----------------------------------------------------------------------------
(* How the parts of the set and of the list are told apart.                *)
Unit(x) == <<"unit", x.id, x.node>>
Group(i, g) == <<"group", i, g>>

LEMMA PartsAre ==
  /\ \A p : p \in Parts <=> \/ \E x \in se : p = Unit(x)
                            \/ \E i \in DOMAIN after : p = Group(i, after[i])
  /\ \A p : p \in Parts' <=> \/ \E x \in se' : p = Unit(x)
                             \/ \E i \in DOMAIN after' : p = Group(i, after'[i])
BY DEF Parts, Merging!Units, Merging!Listed, Unit, Group

LEMMA PartnerIs ==
  ASSUME Walk, se # {}, NEW b \in Merging!Partners
  PROVE  b \in se /\ b # Merging!Largest(se)
<1> DEFINE a == Merging!Largest(se)
           fits == Merging!Fits(a)
<1>1. fits \subseteq se \ {a}
  BY DEF Merging!Fits
<1>2. CASE fits # {}
  <2>1. UnitSet(fits)
    <3>1. IsFiniteSet(fits)
      <4>1. IsFiniteSet(se) /\ fits \in SUBSET se
        BY <1>1 DEF Walk, UnitSet
      <4> HIDE DEF fits
      <4> QED BY <4>1, FS_Subset
    <3> HIDE DEF fits
    <3> QED BY <1>1, <3>1 DEF Walk, UnitSet
  <2>2. Merging!Largest(fits) \in fits
    <3> HIDE DEF fits
    <3> QED BY <1>2, <2>1, LargestIs
  <2>3. b = Merging!Largest(fits)
    BY <1>2 DEF Merging!Partners
  <2> HIDE DEF fits
  <2> QED BY <1>1, <2>2, <2>3
<1>3. CASE fits = {}
  BY <1>3 DEF Merging!Partners
<1> QED BY <1>2, <1>3

LEMMA MergeKeeps ==
  ASSUME MergeInv, Merging!Merge
  PROVE  MergeInv'
<1> DEFINE a == Merging!Largest(se)
<1>1. /\ mpc = "merge" /\ mpc' = "merge" /\ se # {} /\ Walk
      /\ UNCHANGED <<after, groups>>
  BY DEF Merging!Merge, MergeInv
<1>2. PICK b \in Merging!Partners :
        se' = (se \ {a, b}) \cup
                {[id |-> a.id, size |-> a.size + b.size, node |-> a.node \o b.node]}
  BY DEF Merging!Merge
<1>3. a \in se /\ b \in se /\ a # b
  BY <1>1, PartnerIs, LargestIs DEF Walk
<1> DEFINE m == [id |-> a.id, size |-> a.size + b.size, node |-> a.node \o b.node]
<1> HIDE DEF a
<1>4. /\ a \in [id : Nat, size : Int, node : Seq(Vertices)] /\ a.size = Len(a.node)
      /\ b \in [id : Nat, size : Int, node : Seq(Vertices)] /\ b.size = Len(b.node)
      /\ a.id # b.id
  BY <1>1, <1>3 DEF Walk, UnitSet
<1>5. /\ m.id = a.id /\ m.size = a.size + b.size /\ m.node = a.node \o b.node
      /\ m \in [id : Nat, size : Int, node : Seq(Vertices)]
      /\ m.size = Len(m.node) /\ m.size >= a.size
  <2>1. m.id = a.id /\ m.size = a.size + b.size /\ m.node = a.node \o b.node
    OBVIOUS
  <2>2. /\ a.node \o b.node \in Seq(Vertices)
        /\ Len(a.node \o b.node) = Len(a.node) + Len(b.node)
        /\ Len(a.node) \in Nat /\ Len(b.node) \in Nat
    BY <1>4, Concatenated
  <2>3. a.id \in Nat /\ a.size \in Int /\ b.size \in Int
    BY <1>4
  <2>6. m \in [id : Nat, size : Int, node : Seq(Vertices)]
    BY <2>2, <2>3
  <2> HIDE DEF m
  <2>4. m.size >= a.size
    BY <1>4, <2>1, <2>2, <2>3
  <2>5. m.size = Len(m.node)
    BY <1>4, <2>1, <2>2
  <2> QED BY <2>1, <2>4, <2>5, <2>6
<1> HIDE DEF m
<1>6. se' = (se \ {a, b}) \cup {m}
  BY <1>2 DEF m
<1>7. UnitSet(se')
  <2>1. IsFiniteSet(se \ {a, b})
    <3> DEFINE rest == se \ {a, b}
    <3>1. IsFiniteSet(se) /\ rest \in SUBSET se
      BY <1>1 DEF Walk, UnitSet
    <3> HIDE DEF rest
    <3>2. IsFiniteSet(rest)
      BY <3>1, FS_Subset
    <3> QED BY <3>2 DEF rest
  <2>2. IsFiniteSet(se')
    BY <1>6, <2>1, FS_AddElement
  <2>3. \A x \in se \ {a, b} : x.id # a.id /\ x \in [id : Nat, size : Int, node : Seq(Vertices)]
    BY <1>1, <1>3 DEF Walk, UnitSet
  <2>4. \A x, y \in se : x.id = y.id => x = y
    BY <1>1 DEF Walk, UnitSet
  <2> QED BY <1>5, <1>6, <2>2, <2>3, <2>4 DEF UnitSet
<1>8. HoldOnce(Parts')
  <2>1. Unit(a) \in Parts /\ Unit(b) \in Parts /\ Unit(a) # Unit(b)
    BY <1>3, <1>4, PartsAre DEF Unit
  <2>2. Parts' = (Parts \ {Unit(a), Unit(b)}) \cup {Unit(m)}
    <3>0. \A x, y \in se : Unit(x) = Unit(y) => x = y
      BY <1>1 DEF Walk, UnitSet, Unit
    <3>1. \A x \in se \ {a, b} : Unit(x) # Unit(a) /\ Unit(x) # Unit(b)
      BY <1>3, <3>0
    <3>2. \A i \in DOMAIN after : Group(i, after[i]) # Unit(a) /\ Group(i, after[i]) # Unit(b)
      BY DEF Unit, Group
    <3> QED BY <1>1, <1>6, <3>1, <3>2, PartsAre
  <2>3. Unit(m) \notin Parts \ {Unit(a), Unit(b)}
    <3> SUFFICES ASSUME Unit(m) \in Parts PROVE Unit(m) = Unit(a)
      OBVIOUS
    <3>1. PICK x \in se : Unit(m) = Unit(x)
      <4>1. \A i \in DOMAIN after : Group(i, after[i]) # Unit(m)
        BY DEF Unit, Group
      <4> QED BY <4>1, PartsAre
    <3>2. x.id = a.id
      BY <1>5, <3>1 DEF Unit
    <3> QED BY <1>1, <1>3, <3>1, <3>2 DEF Walk, UnitSet
  <2>4. Unit(a)[3] = a.node /\ Unit(b)[3] = b.node /\ Unit(m)[3] = a.node \o b.node
    BY <1>5 DEF Unit
  <2>5. HoldOnce((Parts \ {Unit(a), Unit(b)}) \cup {Unit(m)})
    BY <1>1, <2>1, <2>3, <2>4, JoinOnce DEF Walk
  <2> QED BY <2>2, <2>5
<1>9. NoRoom'
  <2>1. ASSUME NEW i \in DOMAIN after, NEW x \in se'
        PROVE  Len(after[i]) + x.size > MaxGroup
    <3>1. CASE x = m
      <4>1. Len(after[i]) + a.size > MaxGroup
        BY <1>1, <1>3 DEF Walk, NoRoom
      <4>2. Len(after[i]) \in Int /\ MaxGroup \in Int /\ a.size \in Int /\ m.size \in Int
        BY <1>1, <1>4, <1>5, CdlpAssumption DEF Walk
      <4> QED BY <1>5, <3>1, <4>1, <4>2
    <3>2. CASE x \in se
      BY <1>1, <3>2 DEF Walk, NoRoom
    <3> QED BY <1>6, <3>1, <3>2
  <2> QED BY <1>1, <2>1 DEF Walk, NoRoom
<1>10. \A x \in se' : x.size = Len(x.node)
  BY <1>1, <1>5, <1>6 DEF Walk
<1>11. Walk'
  BY <1>1, <1>7, <1>8, <1>9, <1>10 DEF Walk, UnitSet, HoldOnce, Vertices
<1> QED BY <1>1, <1>11 DEF MergeInv, Merging!NoTwoFit

LEMMA EmitKeeps ==
  ASSUME MergeInv, Merging!Emit
  PROVE  MergeInv'
<1> DEFINE a == Merging!Largest(se)
           n == Len(after)
<1>1. /\ mpc = "merge" /\ mpc' = "merge" /\ se # {} /\ Walk /\ UNCHANGED groups
      /\ after' = Append(after, a.node) /\ se' = se \ {a}
      /\ \A b \in se \ {a} : ~ (b.size <= MaxGroup - a.size)
  BY DEF Merging!Emit, MergeInv, Merging!Fits
<1>2. a \in se
  BY <1>1, LargestIs DEF Walk
<1> HIDE DEF a
<1>3. /\ \A x \in se : /\ x.node \in Seq(Vertices) /\ x.size \in Int
                       /\ x.size = Len(x.node)
      /\ after \in Seq(Seq(Vertices)) /\ n \in Nat /\ DOMAIN after = 1 .. n
      /\ MaxGroup \in Int
  BY <1>1, CdlpAssumption DEF Walk, UnitSet
<1>4. /\ after' \in Seq(Seq(Vertices)) /\ DOMAIN after' = 1 .. n + 1
      /\ \A i \in 1 .. n : after'[i] = after[i]
      /\ after'[n + 1] = a.node
  BY <1>1, <1>2, <1>3
<1>5. UnitSet(se')
  <2>1. IsFiniteSet(se')
    <3>1. IsFiniteSet(se) /\ se' \in SUBSET se
      BY <1>1 DEF Walk, UnitSet
    <3> QED BY <3>1, FS_Subset
  <2> QED BY <1>1, <2>1 DEF Walk, UnitSet
<1>6. HoldOnce(Parts')
  <2> DEFINE g == Group(n + 1, a.node)
  <2>1. Unit(a) \in Parts
    BY <1>2, PartsAre
  <2>2. g \notin Parts \ {Unit(a)} /\ g[3] = a.node /\ Unit(a)[3] = a.node
    <3>1. \A x \in se : g # Unit(x)
      BY DEF Unit, Group
    <3>2. \A i \in DOMAIN after : i # n + 1
      BY <1>3
    <3>3. \A i \in DOMAIN after : g # Group(i, after[i])
      BY <3>2 DEF Group
    <3>4. g[3] = a.node /\ Unit(a)[3] = a.node
      BY DEF Group, Unit
    <3> HIDE DEF g
    <3> QED BY <3>1, <3>3, <3>4, PartsAre
  <2>3. Parts' = (Parts \ {Unit(a)}) \cup {g}
    <3>1. \A x, y \in se : Unit(x) = Unit(y) => x = y
      BY <1>1 DEF Walk, UnitSet, Unit
    <3>2. \A i \in DOMAIN after : Group(i, after[i]) # Unit(a)
      BY DEF Unit, Group
    <3>3. \A p : (\E i \in DOMAIN after' : p = Group(i, after'[i])) <=>
                  p = g \/ \E i \in DOMAIN after : p = Group(i, after[i])
      <4>1. DOMAIN after' = DOMAIN after \cup {n + 1} /\ \A i \in DOMAIN after : after'[i] = after[i]
        BY <1>3, <1>4
      <4> QED BY <1>4, <4>1, Zenon
    <3> HIDE DEF g
    <3>4. \A p : (\E x \in se' : p = Unit(x)) <=> (\E x \in se : p = Unit(x)) /\ p # Unit(a)
      BY <1>1, <1>2, <3>1
    <3>5. ASSUME NEW p PROVE p \in Parts' <=> (p \in Parts /\ p # Unit(a)) \/ p = g
      <4>1. p \in Parts <=> \/ \E x \in se : p = Unit(x)
                            \/ \E i \in DOMAIN after : p = Group(i, after[i])
        BY PartsAre
      <4>2. p \in Parts' <=> \/ \E x \in se' : p = Unit(x)
                             \/ \E i \in DOMAIN after' : p = Group(i, after'[i])
        BY PartsAre
      <4> DEFINE some == \E x \in se : p = Unit(x)
                 done == \E i \in DOMAIN after : p = Group(i, after[i])
      <4>3. p \in Parts' <=> (some /\ p # Unit(a)) \/ p = g \/ done
        BY <3>3, <3>4, <4>2
      <4>4. done => p # Unit(a)
        BY <3>2
      <4> HIDE DEF some, done
      <4> QED BY <4>1, <4>3, <4>4 DEF some, done
    <3> HIDE DEF Parts
    <3> QED BY <3>5
  <2>4. HoldOnce((Parts \ {Unit(a)}) \cup {g})
    <3> HIDE DEF g
    <3> QED BY <1>1, <2>1, <2>2, RenameOnce DEF Walk
  <2> QED BY <2>3, <2>4
<1>7. NoRoom'
  <2>1. \A x \in se' : Len(a.node) + x.size > MaxGroup
    <3> SUFFICES ASSUME NEW x \in se' PROVE Len(a.node) + x.size > MaxGroup
      OBVIOUS
    <3>1. x.size \in Int /\ a.size \in Int /\ a.size = Len(a.node)
          /\ ~ (x.size <= MaxGroup - a.size)
      BY <1>1, <1>2, <1>3
    <3> QED BY <1>3, <3>1
  <2>2. \A i \in 1 .. n : /\ Len(after[i]) + Len(a.node) > MaxGroup
                          /\ Len(a.node) + Len(after[i]) > MaxGroup
    <3> SUFFICES ASSUME NEW i \in 1 .. n
                 PROVE  /\ Len(after[i]) + Len(a.node) > MaxGroup
                        /\ Len(a.node) + Len(after[i]) > MaxGroup
      OBVIOUS
    <3>1. Len(after[i]) \in Int /\ Len(a.node) \in Int /\ MaxGroup \in Int
      BY <1>2, <1>3
    <3>2. Len(after[i]) + a.size > MaxGroup /\ a.size = Len(a.node)
      BY <1>1, <1>2, <1>3 DEF Walk, NoRoom
    <3>3. Len(after[i]) + Len(a.node) > MaxGroup
      BY <3>2, Zenon
    <3>4. \A x, y, z \in Int : x + y > z => y + x > z
      OBVIOUS
    <3> QED BY <3>1, <3>3, <3>4, Zenon
  <2>3. \A i \in 1 .. n : /\ \A x \in se' : Len(after[i]) + x.size > MaxGroup
                          /\ \A j \in 1 .. n : i # j => Len(after[i]) + Len(after[j]) > MaxGroup
    BY <1>1, <1>3 DEF Walk, NoRoom
  <2>4. \A i \in 1 .. n + 1 : i \in 1 .. n \/ i = n + 1
    BY <1>3
  <2> QED BY <1>4, <2>1, <2>2, <2>3, <2>4 DEF NoRoom
<1>8. Walk'
  <2>1. \A x \in se' : x.size = Len(x.node)
    BY <1>1, <1>3
  <2> QED BY <1>4, <1>5, <1>6, <1>7, <2>1 DEF Walk, UnitSet, HoldOnce, Vertices
<1> QED BY <1>1, <1>8 DEF MergeInv, Merging!NoTwoFit
-----------------------------------------------------------------------------
(* The total degree that orders the groups is a number.                    *)
LEMMA TotalIsNumber ==
  ASSUME PropagationInv, NEW g \in Seq(Vertices)
  PROVE  Merging!TotalDegree(g) \in Int
<1> DEFINE n == Len(g)
           Total(f) == f = [j \in 0 .. n |-> IF j = 0 THEN 0 ELSE f[j - 1] + Degree[g[j]]]
<1>1. n \in Nat /\ \A j \in 1 .. n : Degree[g[j]] \in Int
  <2>1. \A v \in Vertices : adj[v] \in SUBSET Vertices
    BY DEF PropagationInv, PropagationType
  <2>2. \A v \in Vertices : Degree[v] \in Int
    BY <2>1, VerticesFinite DEF Degree
  <2> QED BY <2>2
<1> DEFINE d == [j \in 1 .. n |-> Degree[g[j]]]
<1>2. d \in [1 .. n -> Int]
  BY <1>1
<1>3. \E f : Total(f)
  <2>1. PICK f \in [0 .. n -> Int] : f[0] = 0 /\ \A j \in 1 .. n : f[j] = f[j - 1] + d[j]
    <3> HIDE DEF d, n
    <3> QED BY <1>1, <1>2, Sums
  <2>2. \A j \in 0 .. n : f[j] = IF j = 0 THEN 0 ELSE f[j - 1] + Degree[g[j]]
    <3> SUFFICES ASSUME NEW j \in 0 .. n
                 PROVE  f[j] = IF j = 0 THEN 0 ELSE f[j - 1] + Degree[g[j]]
      OBVIOUS
    <3>1. j # 0 => j \in 1 .. n
      BY <1>1
    <3> QED BY <2>1, <3>1
  <2> QED BY <2>1, <2>2
<1>4. PICK f : Total(f) /\ Merging!TotalDegree(g) = f[n]
  BY <1>3 DEF Merging!TotalDegree
<1>5. f[0] = 0 /\ \A j \in 1 .. n : f[j] = f[j - 1] + d[j]
  <2>1. \A j \in 0 .. n : f[j] = IF j = 0 THEN 0 ELSE f[j - 1] + Degree[g[j]]
    <3> HIDE DEF n, d
    <3> QED BY ONLY <1>4
  <2>2. 0 \in 0 .. n /\ \A j \in 1 .. n : j \in 0 .. n /\ j # 0
    <3> HIDE DEF n
    <3> QED BY ONLY <1>1
  <2>3. \A j \in 1 .. n : d[j] = Degree[g[j]]
    OBVIOUS
  <2> HIDE DEF n, d
  <2> QED BY ONLY <2>1, <2>2, <2>3
<1>6. f[n] \in Int
  <2> HIDE DEF d, n
  <2> QED BY <1>1, <1>2, <1>5, Sums
<1> QED BY <1>4, <1>6

LEMMA SortKeeps ==
  ASSUME PropagationInv, MergeInv, Merging!Sort
  PROVE  MergeInv'
<1> DEFINE n == Len(after)
           unit(i) == [id |-> i - 1, size |-> 0 - Merging!TotalDegree(after[i]),
                       node |-> after[i]]
           S == {unit(i) : i \in DOMAIN after}
           sorted == Merging!Ordered(S, Merging!Less)
<1>1. /\ mpc = "merge" /\ mpc' = "done" /\ se = {} /\ Walk
      /\ groups' = [i \in DOMAIN sorted |-> sorted[i].node]
  BY DEF Merging!Sort, MergeInv
<1>2. /\ after \in Seq(Seq(Vertices)) /\ n \in Nat /\ DOMAIN after = 1 .. n
      /\ \A i \in 1 .. n : after[i] \in Seq(Vertices) /\ DOMAIN after[i] = 1 .. Len(after[i])
  BY <1>1 DEF Walk
<1>3. \A i \in 1 .. n : /\ unit(i) \in [id : Nat, size : Int, node : Seq(Vertices)]
                        /\ unit(i).id = i - 1 /\ unit(i).node = after[i]
  <2>1. \A i \in 1 .. n : Merging!TotalDegree(after[i]) \in Int
    BY <1>2, TotalIsNumber
  <2> QED BY <1>2, <2>1
<1>4. \A i, j \in 1 .. n : unit(i) = unit(j) => i = j
  <2>1. \A i, j \in 1 .. n : i - 1 = j - 1 => i = j
    BY <1>2
  <2> HIDE DEF unit
  <2> QED BY <1>3, <2>1
<1>5. UnitSet(S)
  <2> DEFINE f == [i \in 1 .. n |-> unit(i)]
  <2>1. f \in [1 .. n -> S] /\ \A x \in S : \E i \in 1 .. n : f[i] = x
    BY <1>2
  <2> HIDE DEF f
  <2>2. f \in Surjection(1 .. n, S)
    <3> HIDE DEF S
    <3> QED BY <2>1, Fun_IsSurj
  <2>3. IsFiniteSet(1 .. n)
    <3>1. 1 \in Int /\ n \in Int
      BY <1>2
    <3> HIDE DEF n
    <3> QED BY <3>1, FS_Interval, Zenon
  <2>4. IsFiniteSet(S)
    <3> HIDE DEF S
    <3> QED BY <2>2, <2>3, FS_Surjection
  <2>5. \A x \in S : \E i \in 1 .. n : x = unit(i)
    BY <1>2
  <2>6. \A i, j \in 1 .. n : i - 1 = j - 1 => i = j
    BY <1>2
  <2> HIDE DEF S, unit
  <2> QED BY <1>3, <2>4, <2>5, <2>6 DEF UnitSet
<1> DEFINE c == Cardinality(S)
<1>6. /\ sorted \in [1 .. c -> S] /\ c \in Nat
      /\ \A x \in S : \E i \in 1 .. c : sorted[i] = x
      /\ \A i, j \in 1 .. c : sorted[i] = sorted[j] => i = j
  <2>1. Lists(sorted, S)
    <3> HIDE DEF S
    <3> QED BY <1>5, MergingUnits, Zenon
  <2> HIDE DEF S, sorted
  <2> QED BY <2>1 DEF Lists
<1> HIDE DEF sorted
(* The i-th group that comes out is the at[i]-th of groups_after.          *)
<1>7. \A x \in S : \E i \in 1 .. n : x = unit(i)
  BY <1>2
<1>8. \A i \in 1 .. n : unit(i) \in S
  BY <1>2
<1> HIDE DEF S, unit, c
<1> DEFINE at(i) == CHOOSE k \in 1 .. n : sorted[i] = unit(k)
<1>9. \A i \in 1 .. c : at(i) \in 1 .. n /\ sorted[i] = unit(at(i))
  <2>1. \A i \in 1 .. c : \E k \in 1 .. n : sorted[i] = unit(k)
    BY <1>6, <1>7
  <2> QED BY <2>1, Zenon
<1> HIDE DEF at
<1>10. /\ \A i, j \in 1 .. c : at(i) = at(j) => i = j
       /\ \A k \in 1 .. n : \E i \in 1 .. c : at(i) = k
  <2>1. \A i, j \in 1 .. c : at(i) = at(j) => i = j
    BY <1>6, <1>9
  <2>2. ASSUME NEW k \in 1 .. n PROVE \E i \in 1 .. c : at(i) = k
    <3>1. PICK i \in 1 .. c : sorted[i] = unit(k)
      BY <1>6, <1>8
    <3> QED BY <1>4, <1>9, <3>1
  <2> QED BY <2>1, <2>2
<1>11. DOMAIN groups' = 1 .. c /\ \A i \in 1 .. c : groups'[i] = after[at(i)]
  BY <1>1, <1>3, <1>6, <1>9
<1>12. \A i, j \in 1 .. n : i # j => Len(after[i]) + Len(after[j]) > MaxGroup
  BY <1>1, <1>2 DEF Walk, NoRoom
<1>13. Merging!NoTwoFit'
  <2>1. ASSUME NEW i \in 1 .. c, NEW j \in 1 .. c, i # j
        PROVE  Len(groups'[i]) + Len(groups'[j]) > MaxGroup
    BY <1>9, <1>10, <1>11, <1>12, <2>1
  <2> QED BY <1>11, <2>1 DEF Merging!NoTwoFit
<1>14. HoldOnce(Merging!Listed(groups)')
  <2> DEFINE new == Merging!Listed(groups)'
  <2>1. new = {Group(i, groups'[i]) : i \in 1 .. c}
    BY <1>11 DEF Merging!Listed, Group
  <2>2. \A p : p \in Parts <=> \E k \in 1 .. n : p = Group(k, after[k])
    BY <1>1, <1>2, PartsAre
  <2> HIDE DEF new
  <2>3. \A p \in new : \E i \in 1 .. c : p = Group(i, after[at(i)])
    BY <1>11, <2>1
  <2>4. \A i \in 1 .. c : Group(i, after[at(i)]) \in new
    BY <1>11, <2>1
  <2>5. \A i : \A g : Group(i, g)[3] = g
    BY DEF Group
  <2>6. HoldOnce(Parts)
    BY <1>1 DEF Walk
  <2>7. \A p \in new : p[3] \in Seq(Vertices)
    BY <1>2, <1>9, <2>3, <2>5
  <2>8. ASSUME NEW v \in Vertices
        PROVE  \E p \in new : \E x \in DOMAIN p[3] : p[3][x] = v
    <3>1. PICK p \in Parts : \E x \in DOMAIN p[3] : p[3][x] = v
      BY <2>6 DEF HoldOnce
    <3>2. PICK k \in 1 .. n : p = Group(k, after[k])
      BY <2>2
    <3>3. PICK i \in 1 .. c : at(i) = k
      BY <1>10
    <3>4. Group(i, after[at(i)])[3] = p[3]
      BY <2>5, <3>2, <3>3
    <3> QED BY <2>4, <3>1, <3>4
  <2>9. ASSUME NEW p \in new, NEW q \in new, NEW x \in DOMAIN p[3], NEW y \in DOMAIN q[3],
               p[3][x] = q[3][y]
        PROVE  p = q /\ x = y
    <3>1. PICK i \in 1 .. c : p = Group(i, after[at(i)])
      BY <2>3
    <3>2. PICK j \in 1 .. c : q = Group(j, after[at(j)])
      BY <2>3
    <3>3. /\ Group(at(i), after[at(i)]) \in Parts /\ Group(at(j), after[at(j)]) \in Parts
          /\ Group(at(i), after[at(i)])[3] = p[3] /\ Group(at(j), after[at(j)])[3] = q[3]
      BY <1>9, <2>2, <2>5, <3>1, <3>2
    <3>4. Group(at(i), after[at(i)]) = Group(at(j), after[at(j)]) /\ x = y
      BY <2>6, <2>9, <3>3 DEF HoldOnce
    <3>5. at(i) = at(j)
      BY <3>4 DEF Group
    <3> QED BY <1>10, <3>1, <3>2, <3>4, <3>5
  <2>10. HoldOnce(new)
    BY <2>7, <2>8, <2>9 DEF HoldOnce
  <2> QED BY <2>10 DEF new
<1> QED BY <1>1, <1>13, <1>14 DEF MergeInv, HoldOnce, Vertices
-----------------------------------------------------------------------------
LEMMA MergingSafe == PartitionSpec => []MergeInv
<1>1. PartitionInit => MergeInv
  BY DEF PartitionInit, Merging!Init, MergeInv, Merging!NoTwoFit
<1>2. PropagationInv /\ MergeInv /\ [PartitionNext]_<<vars, merge>> => MergeInv'
  <2> SUFFICES ASSUME PropagationInv, MergeInv, [PartitionNext]_<<vars, merge>>
               PROVE  MergeInv'
    OBVIOUS
  <2>1. CASE Grouping
    BY <2>1, CollectKeeps, MergeKeeps, EmitKeeps, SortKeeps DEF Grouping, Merging!Next
  <2>2. CASE UNCHANGED merge
    BY <2>2 DEF merge, MergeInv, Walk, UnitSet, NoRoom, Parts, HoldOnce,
            Merging!Units, Merging!Listed, Merging!NoTwoFit
  <2> QED BY <2>1, <2>2 DEF PartitionNext, Propagation, PartitionDone
<1> QED BY <1>1, <1>2, PropagationSafe, PTL DEF PartitionSpec

(* Merging moves vertices and never loses or repeats one: at every turn of *)
(* the walk over the set, and in the groups main.cu passes on.             *)
THEOREM EveryVertexOnce == PartitionSpec => []EachVertexOnce
<1>1. MergeInv => EachVertexOnce
  BY OnceIs DEF MergeInv, Walk, Parts, EachVertexOnce, Merging!EachVertexOnce
<1> QED BY <1>1, MergingSafe, PTL

(* Whatever label propagation left, no two of the groups fit together.     *)
THEOREM MergeIsMaximal == PartitionSpec => []NoTwoFit
<1>1. MergeInv => NoTwoFit
  BY DEF MergeInv, NoTwoFit
<1> QED BY <1>1, MergingSafe, PTL
=============================================================================
