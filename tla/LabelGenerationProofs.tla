----------------------- MODULE LabelGenerationProofs -----------------------
(***************************************************************************)
(* The generation loop for every graph, every grouping, every set of       *)
(* executors and every number of pool threads that the scratch ids suffice *)
(* for.  First the CPU generator by itself: no scratch set is ever used by *)
(* two tasks, the queue of ids is never empty when a task takes one, and a *)
(* set goes back as clean as it was taken; the code tests none of these.   *)
(* Then the loop: the priority queue keeps the executors within one        *)
(* group's time of each other, and what the CPU generator keeps alone it   *)
(* keeps among the groups the GPU takes.                                   *)
(***************************************************************************)
EXTENDS LabelGeneration, HopLabelsProofs

PcStates == {"idle", "slot", "snapshot", "walk", "push", "reset", "return"}

SlotTypes ==
  /\ pc \in [Workers -> PcStates]
  /\ used \in [Workers -> Slots]
  /\ Qid \in Seq(Slots)

(* No id is ever lost: it waits in the queue or a task holds it.           *)
SlotsKept ==
  \A s \in Slots : \/ \E i \in DOMAIN Qid : Qid[i] = s
                   \/ \E t \in Workers : Holds(t) /\ used[t] = s

(* The inductive invariant.                                                *)
SlotInv == SlotTypes /\ SlotExclusive /\ SlotsKept

LEMMA SlotInit == Init => SlotInv
<1> SUFFICES ASSUME Init PROVE SlotInv
  OBVIOUS
<1>1. NumSlots \in Nat
  BY CpuSlotAssumption
<1>2. \A t \in Workers : ~Holds(t)
  BY DEF Init, Holds
<1>3. DOMAIN Qid = 1 .. NumSlots /\ \A i \in 1 .. NumSlots : Qid[i] = i - 1
  BY DEF Init
<1>4. Qid \in Seq(Slots)
  BY <1>1 DEF Init, Slots
<1>5. used \in [Workers -> Slots]
  <2>1. CASE Workers = {}
    BY <2>1 DEF Init
  <2>2. CASE Workers # {}
    <3>1. Cardinality(Workers) # 0
      BY <2>2, CpuSlotAssumption, FS_EmptySet
    <3>2. Cardinality(Workers) \in Nat
      BY CpuSlotAssumption, FS_CardinalityType
    <3>3. 0 \in Slots
      BY <3>1, <3>2, CpuSlotAssumption DEF Slots
    <3> QED BY <3>3 DEF Init
  <2> QED BY <2>1, <2>2
<1>6. SlotTypes
  BY <1>4, <1>5 DEF SlotTypes, Init, PcStates
<1>7. SlotExclusive
  BY <1>1, <1>2, <1>3 DEF SlotExclusive
<1>8. SlotsKept
  <2> SUFFICES ASSUME NEW s \in Slots PROVE \E i \in DOMAIN Qid : Qid[i] = s
    BY DEF SlotsKept
  <2>1. s + 1 \in 1 .. NumSlots /\ (s + 1) - 1 = s
    BY <1>1 DEF Slots
  <2> QED BY <1>3, <2>1
<1> QED BY <1>6, <1>7, <1>8 DEF SlotInv

(* A step that moves no id keeps the invariant.                            *)
LEMMA SlotUntouched ==
  ASSUME SlotInv, UNCHANGED <<used, Qid>>, pc' \in [Workers -> PcStates],
         \A t \in Workers : Holds(t)' <=> Holds(t)
  PROVE  SlotInv'
<1>1. SlotTypes'
  BY DEF SlotInv, SlotTypes
<1>2. SlotExclusive'
  BY DEF SlotInv, SlotExclusive
<1>3. SlotsKept'
  BY DEF SlotInv, SlotsKept
<1> QED BY <1>1, <1>2, <1>3 DEF SlotInv

LEMMA TakeSlotKeeps ==
  ASSUME SlotInv, NEW t \in Workers, TakeSlot(t)
  PROVE  SlotInv'
<1> USE DEF SlotInv, SlotTypes
<1>1. Qid # <<>> /\ Qid \in Seq(Slots)
  BY DEF TakeSlot
<1>2. Qid' = Tail(Qid) /\ Head(Qid) = Qid[1] /\ Qid[1] \in Slots
  BY <1>1 DEF TakeSlot
<1>3. /\ Qid' \in Seq(Slots)
      /\ Len(Qid) \in Nat /\ Len(Qid) >= 1
      /\ DOMAIN Qid = 1 .. Len(Qid)
      /\ DOMAIN Qid' = 1 .. Len(Qid) - 1
      /\ \A i \in DOMAIN Qid' : Qid'[i] = Qid[i + 1]
  BY <1>1, <1>2
<1>4. /\ pc' = [pc EXCEPT ![t] = "snapshot"]
      /\ used' = [used EXCEPT ![t] = Qid[1]]
  BY <1>2 DEF TakeSlot
<1>5. SlotTypes'
  BY <1>2, <1>3, <1>4 DEF PcStates
<1>6. /\ ~Holds(t) /\ Holds(t)' /\ used'[t] = Qid[1]
      /\ \A u \in Workers \ {t} : (Holds(u)' <=> Holds(u)) /\ used'[u] = used[u]
  BY <1>4 DEF TakeSlot, Holds
<1>7. SlotExclusive'
  <2>1. ASSUME NEW u \in Workers, NEW x \in Workers, u # x, Holds(u)', Holds(x)'
        PROVE  used'[u] # used'[x]
    BY <1>3, <1>6, <2>1 DEF SlotExclusive
  <2>2. ASSUME NEW u \in Workers, NEW i \in DOMAIN Qid', Holds(u)'
        PROVE  used'[u] # Qid'[i]
    <3>1. i + 1 \in DOMAIN Qid /\ 1 \in DOMAIN Qid /\ i + 1 # 1
      BY <1>3
    <3> QED BY <1>3, <1>6, <2>2, <3>1 DEF SlotExclusive
  <2>3. ASSUME NEW i \in DOMAIN Qid', NEW j \in DOMAIN Qid', i # j
        PROVE  Qid'[i] # Qid'[j]
    <3>1. i + 1 \in DOMAIN Qid /\ j + 1 \in DOMAIN Qid /\ i + 1 # j + 1
      BY <1>3, <2>3
    <3> QED BY <1>3, <3>1 DEF SlotExclusive
  <2> QED BY <2>1, <2>2, <2>3 DEF SlotExclusive
<1>8. SlotsKept'
  <2> SUFFICES ASSUME NEW s \in Slots
               PROVE  \/ \E i \in DOMAIN Qid' : Qid'[i] = s
                      \/ \E u \in Workers : Holds(u)' /\ used'[u] = s
    BY DEF SlotsKept
  <2>1. CASE \E i \in DOMAIN Qid : Qid[i] = s
    <3>1. PICK i \in DOMAIN Qid : Qid[i] = s
      BY <2>1
    <3>2. CASE i = 1
      BY <1>6, <3>1, <3>2
    <3>3. CASE i # 1
      <4>1. i - 1 \in DOMAIN Qid' /\ (i - 1) + 1 = i
        BY <1>3, <3>3
      <4> QED BY <1>3, <3>1, <4>1
    <3> QED BY <3>2, <3>3
  <2>2. CASE \E u \in Workers : Holds(u) /\ used[u] = s
    BY <1>6, <2>2
  <2> QED BY <2>1, <2>2 DEF SlotsKept
<1> QED BY <1>5, <1>7, <1>8

LEMMA ReturnSlotKeeps ==
  ASSUME SlotInv, NEW t \in Workers, ReturnSlot(t)
  PROVE  SlotInv'
<1> USE DEF SlotInv, SlotTypes
<1>1. /\ Qid' = Append(Qid, used[t]) /\ used' = used
      /\ pc' = [pc EXCEPT ![t] = "idle"]
  BY DEF ReturnSlot
<1>2. /\ Qid' \in Seq(Slots)
      /\ Len(Qid) \in Nat
      /\ DOMAIN Qid = 1 .. Len(Qid)
      /\ DOMAIN Qid' = 1 .. Len(Qid) + 1
      /\ \A i \in DOMAIN Qid : Qid'[i] = Qid[i]
      /\ Qid'[Len(Qid) + 1] = used[t]
  BY <1>1
<1>3. SlotTypes'
  BY <1>1, <1>2 DEF PcStates
<1>4. /\ Holds(t) /\ ~Holds(t)'
      /\ \A u \in Workers \ {t} : Holds(u)' <=> Holds(u)
  BY <1>1 DEF ReturnSlot, Holds
<1>5. SlotExclusive'
  <2>1. ASSUME NEW u \in Workers, NEW x \in Workers, u # x, Holds(u)', Holds(x)'
        PROVE  used'[u] # used'[x]
    BY <1>1, <1>4, <2>1 DEF SlotExclusive
  <2>2. ASSUME NEW u \in Workers, NEW i \in DOMAIN Qid', Holds(u)'
        PROVE  used'[u] # Qid'[i]
    <3>1. u # t /\ Holds(u)
      BY <1>4, <2>2
    <3>2. CASE i = Len(Qid) + 1
      BY <1>1, <1>2, <1>4, <3>1, <3>2 DEF SlotExclusive
    <3>3. CASE i # Len(Qid) + 1
      <4>1. i \in DOMAIN Qid
        BY <1>2, <3>3
      <4> QED BY <1>1, <1>2, <3>1, <4>1 DEF SlotExclusive
    <3> QED BY <3>2, <3>3
  <2>3. ASSUME NEW i \in DOMAIN Qid', NEW j \in DOMAIN Qid', i # j
        PROVE  Qid'[i] # Qid'[j]
    <3>1. /\ i = Len(Qid) + 1 \/ i \in DOMAIN Qid
          /\ j = Len(Qid) + 1 \/ j \in DOMAIN Qid
      BY <1>2
    <3> QED BY <1>2, <1>4, <2>3, <3>1 DEF SlotExclusive
  <2> QED BY <2>1, <2>2, <2>3 DEF SlotExclusive
<1>6. SlotsKept'
  <2> SUFFICES ASSUME NEW s \in Slots
               PROVE  \/ \E i \in DOMAIN Qid' : Qid'[i] = s
                      \/ \E u \in Workers : Holds(u)' /\ used'[u] = s
    BY DEF SlotsKept
  <2>1. CASE \E i \in DOMAIN Qid : Qid[i] = s
    BY <1>2, <2>1
  <2>2. CASE \E u \in Workers : Holds(u) /\ used[u] = s
    <3>1. PICK u \in Workers : Holds(u) /\ used[u] = s
      BY <2>2
    <3>2. CASE u = t
      BY <1>2, <3>1, <3>2
    <3>3. CASE u # t
      BY <1>1, <1>4, <3>1, <3>3
    <3> QED BY <3>2, <3>3
  <2> QED BY <2>1, <2>2 DEF SlotsKept
<1> QED BY <1>3, <1>5, <1>6
-----------------------------------------------------------------------------
LEMMA SlotNext == SlotInv /\ [Next]_vars => SlotInv'
<1> SUFFICES ASSUME SlotInv, [Next]_vars PROVE SlotInv'
  OBVIOUS
<1>0. pc \in [Workers -> PcStates]
  BY DEF SlotInv, SlotTypes
<1>1. CASE StartGroup \/ CollectGroup \/ Done \/ UNCHANGED vars
  <2>1. UNCHANGED <<pc, used, Qid>>
    BY <1>1 DEF StartGroup, CollectGroup, Done, vars
  <2> QED BY <1>0, <2>1, SlotUntouched DEF Holds
<1>2. ASSUME NEW t \in Workers, Step(t) PROVE SlotInv'
  <2>1. CASE TakeTask(t)
    <3>1. UNCHANGED <<used, Qid>> /\ pc[t] = "idle"
          /\ pc' = [pc EXCEPT ![t] = "slot"]
      BY <2>1 DEF TakeTask
    <3>2. pc' \in [Workers -> PcStates] /\ \A u \in Workers : Holds(u)' <=> Holds(u)
      BY <1>0, <3>1 DEF PcStates, Holds
    <3> QED BY <3>1, <3>2, SlotUntouched
  <2>2. CASE TakeSlot(t)
    BY <2>2, TakeSlotKeeps
  <2>3. CASE Snapshot(t)
    <3>1. UNCHANGED <<used, Qid>> /\ pc[t] = "snapshot"
          /\ pc' = [pc EXCEPT ![t] = "walk"]
      BY <2>3 DEF Snapshot
    <3>2. pc' \in [Workers -> PcStates] /\ \A u \in Workers : Holds(u)' <=> Holds(u)
      BY <1>0, <3>1 DEF PcStates, Holds
    <3> QED BY <3>1, <3>2, SlotUntouched
  <2>4. CASE Test(t)
    <3>1. UNCHANGED <<used, Qid>> /\ pc[t] = "walk"
          /\ (pc' = [pc EXCEPT ![t] = "push"] \/ pc' = pc)
      BY <2>4 DEF Test
    <3>2. pc' \in [Workers -> PcStates] /\ \A u \in Workers : Holds(u)' <=> Holds(u)
      BY <1>0, <3>1 DEF PcStates, Holds
    <3> QED BY <3>1, <3>2, SlotUntouched
  <2>5. CASE Push(t)
    <3>1. UNCHANGED <<used, Qid>> /\ pc[t] = "push"
          /\ pc' = [pc EXCEPT ![t] = "walk"]
      BY <2>5 DEF Push
    <3>2. pc' \in [Workers -> PcStates] /\ \A u \in Workers : Holds(u)' <=> Holds(u)
      BY <1>0, <3>1 DEF PcStates, Holds
    <3> QED BY <3>1, <3>2, SlotUntouched
  <2>6. CASE NextHop(t)
    <3>1. UNCHANGED <<used, Qid>> /\ pc[t] = "walk"
          /\ (pc' = [pc EXCEPT ![t] = "reset"] \/ pc' = pc)
      BY <2>6 DEF NextHop
    <3>2. pc' \in [Workers -> PcStates] /\ \A u \in Workers : Holds(u)' <=> Holds(u)
      BY <1>0, <3>1 DEF PcStates, Holds
    <3> QED BY <3>1, <3>2, SlotUntouched
  <2>7. CASE Reset(t)
    <3>1. UNCHANGED <<used, Qid>> /\ pc[t] = "reset"
          /\ pc' = [pc EXCEPT ![t] = "return"]
      BY <2>7 DEF Reset
    <3>2. pc' \in [Workers -> PcStates] /\ \A u \in Workers : Holds(u)' <=> Holds(u)
      BY <1>0, <3>1 DEF PcStates, Holds
    <3> QED BY <3>1, <3>2, SlotUntouched
  <2>8. CASE ReturnSlot(t)
    BY <2>8, ReturnSlotKeeps
  <2> QED BY <1>2, <2>1, <2>2, <2>3, <2>4, <2>5, <2>6, <2>7, <2>8 DEF Step
<1> QED BY <1>1, <1>2 DEF Next

(* The ids outnumber the tasks that hold one: one is left for a task that  *)
(* still has to take its own.                                              *)
LEMMA SlotLeft == SlotInv => SlotAvailable
<1> SUFFICES ASSUME SlotInv, NEW t \in Workers, pc[t] = "slot", Qid = <<>>
             PROVE  FALSE
  BY DEF SlotAvailable
<1> DEFINE others == Workers \ {t}
           idOf == [u \in others |-> used[u]]
<1>1. ~Holds(t)
  BY DEF Holds
<1>2. \A s \in Slots : \E u \in others : used[u] = s
  BY <1>1 DEF SlotInv, SlotsKept
<1>3. IsFiniteSet(others) /\ Cardinality(others) = Cardinality(Workers) - 1
  BY CpuSlotAssumption, FS_RemoveElement
<1>4. idOf \in Surjection(others, Slots)
  <2>1. idOf \in [others -> Slots]
    BY DEF SlotInv, SlotTypes
  <2> QED BY <1>2, <2>1, Fun_IsSurj
<1>5. Cardinality(Slots) <= Cardinality(others)
  BY <1>3, <1>4, FS_Surjection
<1>6. Cardinality(Slots) = NumSlots
  <2>1. 0 \in Int /\ NumSlots - 1 \in Int
    BY CpuSlotAssumption
  <2> QED BY <2>1, CpuSlotAssumption, FS_Interval DEF Slots
<1>7. Cardinality(Workers) \in Nat
  BY CpuSlotAssumption, FS_CardinalityType
<1> QED BY <1>3, <1>5, <1>6, <1>7, CpuSlotAssumption

THEOREM SlotInvariance == Spec => []SlotInv
  BY SlotInit, SlotNext, PTL DEF Spec

(* No two tasks share a scratch set, and no id is in use and in the queue: *)
(* Temp_L_vk, dist_hop and Vh need no lock of their own.                   *)
THEOREM SlotsExclusive == Spec => []SlotExclusive
<1>1. SlotInv => SlotExclusive
  BY DEF SlotInv
<1> QED BY <1>1, SlotInvariance, PTL

(* Qid_599.front() is never called on an empty queue, as long as the pool  *)
(* has no more threads than there are ids.                                 *)
THEOREM SlotsSuffice == Spec => []SlotAvailable
  BY SlotLeft, SlotInvariance, PTL
-----------------------------------------------------------------------------
(***************************************************************************)
(* The copy a task works with.                                             *)
(***************************************************************************)
Labels == [hub : Vertices, hop : 0 .. K, dist : 0 .. Inf - 1, par : Vertices]
Rows == [Vertices -> [0 .. K -> 0 .. Inf]]

(* Every row holds the least distances of the labels S within its bounds.  *)
RowsOf(rows, S) ==
  /\ rows \in Rows
  /\ \A l \in S, k \in 0 .. K : l.hop <= k => rows[l.hub][k] <= l.dist
  /\ \A m \in Vertices, k \in 0 .. K :
       rows[m][k] # Inf =>
         \E l \in S : l.hub = m /\ l.hop <= k /\ l.dist = rows[m][k]

(* The early break of the copying loop loses nothing: the rows never grow  *)
(* with the bound.                                                         *)
LEMMA RecordIsMin ==
  ASSUME NEW S \in SUBSET Labels, NEW rows, RowsOf(rows, S), NEW l \in Labels
  PROVE  RowsOf(Record(rows, l), S \cup {l})
<1> DEFINE below(k) == \A j \in l.hop .. k : rows[l.hub][j] > l.dist
           new == Record(rows, l)
<1>0. /\ l.hub \in Vertices /\ l.hop \in 0 .. K /\ l.dist \in 0 .. Inf - 1
      /\ K \in Nat /\ Inf \in Nat
      /\ \A m \in Vertices, k \in 0 .. K : rows[m][k] \in 0 .. Inf
  BY Sizes DEF Labels, RowsOf, Rows
<1>1. new = [rows EXCEPT ![l.hub] =
              [k \in 0 .. K |-> IF k >= l.hop /\ below(k) THEN l.dist ELSE rows[l.hub][k]]]
  BY DEF Record
<1>2. \A k \in 0 .. K : k >= l.hop => (below(k) <=> rows[l.hub][k] > l.dist)
  <2> SUFFICES ASSUME NEW k \in 0 .. K, k >= l.hop, rows[l.hub][k] > l.dist,
                      NEW j \in l.hop .. k
               PROVE  rows[l.hub][j] > l.dist
    <3>1. \A k \in 0 .. K : k >= l.hop => k \in l.hop .. k
      BY <1>0
    <3> QED BY <3>1
  <2>1. j \in 0 .. K /\ j <= k
    BY <1>0
  <2>2. CASE rows[l.hub][j] = Inf
    BY <1>0, <2>2
  <2>3. CASE rows[l.hub][j] # Inf
    <3>1. PICK a \in S : a.hub = l.hub /\ a.hop <= j /\ a.dist = rows[l.hub][j]
      BY <1>0, <2>1, <2>3 DEF RowsOf
    <3>2. a.hop \in 0 .. K /\ a.hop <= k
      BY <1>0, <2>1, <3>1 DEF Labels
    <3>3. rows[l.hub][k] <= a.dist
      BY <3>1, <3>2 DEF RowsOf
    <3> QED BY <1>0, <2>1, <3>1, <3>3
  <2> QED BY <2>2, <2>3
<1> HIDE DEF below
<1>3. ASSUME NEW m \in Vertices, NEW k \in 0 .. K
      PROVE  new[m][k] = IF m = l.hub /\ k >= l.hop /\ rows[m][k] > l.dist
                         THEN l.dist ELSE rows[m][k]
  BY <1>0, <1>1, <1>2 DEF RowsOf, Rows
<1>4. new \in Rows
  <2>1. [k \in 0 .. K |-> IF k >= l.hop /\ below(k) THEN l.dist ELSE rows[l.hub][k]]
          \in [0 .. K -> 0 .. Inf]
    BY <1>0
  <2> QED BY <1>0, <1>1, <2>1 DEF RowsOf, Rows
<1> HIDE DEF new
<1>5. ASSUME NEW a \in S \cup {l}, NEW k \in 0 .. K, a.hop <= k
      PROVE  new[a.hub][k] <= a.dist
  <2>1. a.hub \in Vertices /\ a.hop \in 0 .. K /\ a.dist \in 0 .. Inf - 1
    BY DEF Labels
  <2>2. a \in S => rows[a.hub][k] <= a.dist
    BY <1>5 DEF RowsOf
  <2> QED BY <1>0, <1>3, <1>5, <2>1, <2>2
<1>6. ASSUME NEW m \in Vertices, NEW k \in 0 .. K, new[m][k] # Inf
      PROVE  \E a \in S \cup {l} : a.hub = m /\ a.hop <= k /\ a.dist = new[m][k]
  <2>1. CASE m = l.hub /\ k >= l.hop /\ rows[m][k] > l.dist
    BY <1>0, <1>3, <2>1
  <2>2. CASE ~ (m = l.hub /\ k >= l.hop /\ rows[m][k] > l.dist)
    <3>1. new[m][k] = rows[m][k]
      BY <1>3, <2>2
    <3> QED BY <1>6, <3>1 DEF RowsOf
  <2> QED BY <2>1, <2>2
<1> QED BY <1>4, <1>5, <1>6 DEF RowsOf, new

LEMMA FreshRows == cpuType # 1 => RowsOf(FreshCopy, {})
<1> SUFFICES ASSUME cpuType # 1 PROVE RowsOf(FreshCopy, {})
  OBVIOUS
<1>1. FreshCopy = [v \in Vertices |-> FreshRow]
  BY DEF FreshCopy
<1>2. FreshRow = [k \in 0 .. K |-> Inf] /\ Inf \in 0 .. Inf
  BY Sizes DEF FreshRow
<1>3. FreshRow \in [0 .. K -> 0 .. Inf]
  BY <1>2
<1> QED BY <1>1, <1>2, <1>3 DEF RowsOf, Rows

(* So the copy of a sequence of labels answers for all of them.            *)
LEMMA CopiedRows ==
  ASSUME cpuType # 1, NEW labels \in Seq(Labels)
  PROVE  RowsOf(Copied(FreshCopy, labels), {labels[i] : i \in 1 .. Len(labels)})
<1> DEFINE n == Len(labels)
           step == [p \in Rows \X (1 .. n) |-> Record(p[1], labels[p[2]])]
           g == Iterate(n, FreshCopy, step)
           Total(f) == f = [i \in 0 .. Len(labels) |-> IF i = 0 THEN FreshCopy
                                                       ELSE Record(f[i - 1], labels[i])]
           First(j) == {labels[i] : i \in 1 .. j}
<1>1. n \in Nat /\ \A i \in 1 .. n : labels[i] \in Labels
  OBVIOUS
<1>2. FreshCopy \in Rows
  BY FreshRows DEF RowsOf
<1>3. \A r \in Rows, l \in Labels : Record(r, l) \in Rows
  <2> SUFFICES ASSUME NEW r \in Rows, NEW l \in Labels PROVE Record(r, l) \in Rows
    OBVIOUS
  <2> DEFINE below(k) == \A j \in l.hop .. k : r[l.hub][j] > l.dist
  <2>1. l.hub \in Vertices /\ l.dist \in 0 .. Inf
    BY Sizes DEF Labels
  <2>2. [k \in 0 .. K |-> IF k >= l.hop /\ below(k) THEN l.dist ELSE r[l.hub][k]]
          \in [0 .. K -> 0 .. Inf]
    <3> HIDE DEF below
    <3> QED BY <2>1 DEF Rows
  <2> QED BY <2>1, <2>2 DEF Record, Rows
<1>4. step \in Steps(n, Rows)
  BY <1>1, <1>3 DEF Steps
<1>5. g \in [0 .. n -> Rows]
  <2> HIDE DEF step, n
  <2> QED BY <1>1, <1>2, <1>4, Iterates
<1>6. g[0] = FreshCopy
  <2> HIDE DEF step, n
  <2> QED BY <1>1, <1>2, <1>4, Iterates
<1>7. \A j \in 1 .. n : g[j] = step[<<g[j - 1], j>>]
  <2> HIDE DEF step, n
  <2> QED BY <1>1, <1>2, <1>4, Iterates
<1> HIDE DEF g
<1>8. \E f : Total(f)
  <2>1. \A j \in 1 .. n : g[j] = Record(g[j - 1], labels[j])
    <3> SUFFICES ASSUME NEW j \in 1 .. n PROVE g[j] = Record(g[j - 1], labels[j])
      OBVIOUS
    <3>1. g[j - 1] \in Rows
      BY <1>1, <1>5
    <3>2. step[<<g[j - 1], j>>] = Record(g[j - 1], labels[j])
      BY <3>1
    <3> QED BY <1>7, <3>2
  <2>2. \A j \in 0 .. n : g[j] = IF j = 0 THEN FreshCopy ELSE Record(g[j - 1], labels[j])
    <3>1. \A j \in 0 .. n : j # 0 => j \in 1 .. n
      BY <1>1
    <3> HIDE DEF n
    <3> QED BY <1>6, <2>1, <3>1
  <2> QED BY <1>5, <2>2
<1>9. PICK f : Total(f) /\ Copied(FreshCopy, labels) = f[n]
  BY <1>8 DEF Copied
<1>9a. f[0] = FreshCopy /\ \A j \in 1 .. n : f[j] = Record(f[j - 1], labels[j])
  <2>1. \A j \in 0 .. n : f[j] = IF j = 0 THEN FreshCopy ELSE Record(f[j - 1], labels[j])
    <3> HIDE DEF n
    <3> QED BY ONLY <1>9 DEF n
  <2>2. 0 \in 0 .. n /\ \A j \in 1 .. n : j \in 0 .. n /\ j # 0
    BY <1>1
  <2> HIDE DEF n
  <2> QED BY ONLY <2>1, <2>2
<1> DEFINE Q == {j \in 0 .. n : RowsOf(f[j], First(j))}
<1>10. 0 \in Q
  <2>1. First(0) = {}
    OBVIOUS
  <2>2. RowsOf(f[0], First(0))
    <3> HIDE DEF First
    <3> QED BY <1>9a, <2>1, FreshRows
  <2> QED BY <1>1, <2>2
<1>11. ASSUME NEW i \in 0 .. n - 1, i \in Q PROVE i + 1 \in Q
  <2>1. i + 1 \in 1 .. n /\ (i + 1) - 1 = i /\ i + 1 \in 0 .. n
    BY <1>1
  <2>2. f[i + 1] = Record(f[i], labels[i + 1]) /\ labels[i + 1] \in Labels
    BY <1>1, <1>9a, <2>1
  <2>3. First(i) \in SUBSET Labels /\ First(i + 1) = First(i) \cup {labels[i + 1]}
    BY <1>1, <2>1
  <2>4. RowsOf(f[i], First(i))
    BY <1>11
  <2> HIDE DEF First
  <2>5. RowsOf(f[i + 1], First(i + 1))
    BY <2>2, <2>3, <2>4, RecordIsMin
  <2> QED BY <2>1, <2>5
<1>12. 0 .. n \subseteq Q
  <2> HIDE DEF Q, n
  <2> QED BY <1>1, <1>10, <1>11, UpTo
<1>13. n \in 0 .. n
  BY <1>1
<1> QED BY <1>9, <1>12, <1>13

(* What is left of a copy when the labels S have cleared it: for a hub, an *)
(* interval of bounds that starts at the least hop of the copied labels,   *)
(* and none at all once the label of that hop has been met.                *)
LeftOf(rows, copy, S) ==
  /\ rows \in Rows
  /\ \A m \in Vertices, k \in 0 .. K : rows[m][k] # Inf =>
       /\ copy[m][k] # Inf
       /\ \A q \in 0 .. k : copy[m][q] # Inf => rows[m][q] # Inf
       /\ \A l \in S : l.hub = m /\ l.hop <= k => copy[m][l.hop] = Inf

LEMMA ClearLeaves ==
  ASSUME NEW A \in SUBSET Labels, NEW copy, RowsOf(copy, A),
         NEW S \in SUBSET Labels, NEW rows, LeftOf(rows, copy, S), NEW l \in Labels
  PROVE  LeftOf(Clear(rows, l), copy, S \cup {l})
<1> DEFINE set(k) == \A j \in l.hop .. k : rows[l.hub][j] # Inf
           new == Clear(rows, l)
<1>0. /\ l.hub \in Vertices /\ l.hop \in 0 .. K /\ K \in Nat /\ Inf \in 0 .. Inf
  BY Sizes DEF Labels
<1>1. ASSUME NEW m \in Vertices, NEW q \in 0 .. K, NEW k \in q .. K, copy[m][q] # Inf
      PROVE  copy[m][k] # Inf
  <2>1. PICK a \in A : a.hub = m /\ a.hop <= q /\ a.dist = copy[m][q]
    BY <1>1 DEF RowsOf
  <2>2. a.hop \in 0 .. K /\ a.dist \in 0 .. Inf - 1 /\ k \in 0 .. K /\ a.hop <= k
    BY <1>0, <2>1 DEF Labels
  <2>3. copy[m][k] <= a.dist
    BY <2>1, <2>2 DEF RowsOf
  <2>4. copy[m][k] \in 0 .. Inf
    BY <2>2 DEF RowsOf, Rows
  <2> QED BY <1>0, <2>2, <2>3, <2>4
<1>2. new \in Rows
  <2>1. [k \in 0 .. K |-> IF k >= l.hop /\ set(k) THEN Inf ELSE rows[l.hub][k]]
          \in [0 .. K -> 0 .. Inf]
    <3> HIDE DEF set
    <3> QED BY <1>0 DEF LeftOf, Rows
  <2> QED BY <1>0, <2>1 DEF Clear, LeftOf, Rows
<1>3. ASSUME NEW m \in Vertices, NEW k \in 0 .. K
      PROVE  new[m][k] = IF m = l.hub /\ k >= l.hop /\ set(k) THEN Inf ELSE rows[m][k]
  <2> HIDE DEF set
  <2> QED BY <1>0 DEF LeftOf, Rows, Clear, set
<1> HIDE DEF new
<1>4. ASSUME NEW m \in Vertices, NEW k \in 0 .. K, new[m][k] # Inf
      PROVE  /\ copy[m][k] # Inf
             /\ \A q \in 0 .. k : copy[m][q] # Inf => new[m][q] # Inf
             /\ \A a \in S \cup {l} : a.hub = m /\ a.hop <= k => copy[m][a.hop] = Inf
  <2>1. /\ rows[m][k] # Inf
        /\ ~ (m = l.hub /\ k >= l.hop /\ set(k))
    BY <1>3, <1>4
  <2>2. /\ copy[m][k] # Inf
        /\ \A q \in 0 .. k : copy[m][q] # Inf => rows[m][q] # Inf
        /\ \A a \in S : a.hub = m /\ a.hop <= k => copy[m][a.hop] = Inf
    BY <2>1 DEF LeftOf
  <2>3. ASSUME m = l.hub, l.hop <= k PROVE copy[m][l.hop] = Inf
    <3> SUFFICES ASSUME copy[m][l.hop] # Inf PROVE FALSE
      OBVIOUS
    <3>1. PICK r \in l.hop .. k : rows[m][r] = Inf
      BY <2>1, <2>3
    <3>2. r \in 0 .. k /\ r \in l.hop .. K /\ copy[m][r] # Inf
      BY <1>0, <1>1
    <3> QED BY <2>2, <3>1, <3>2
  <2>4. ASSUME NEW q \in 0 .. k, copy[m][q] # Inf, new[m][q] = Inf PROVE FALSE
    <3>1. q \in 0 .. K /\ rows[m][q] # Inf
      BY <1>0, <2>2, <2>4
    <3>2. m = l.hub /\ q >= l.hop /\ set(q)
      BY <1>3, <2>4, <3>1
    <3>3. l.hop \in l.hop .. q /\ l.hop <= k
      BY <1>0, <3>2
    <3>4. rows[m][l.hop] # Inf
      BY <3>2, <3>3
    <3>5. copy[m][l.hop] # Inf
      BY <1>0, <3>4 DEF LeftOf
    <3> QED BY <2>3, <3>2, <3>3, <3>5
  <2> QED BY <2>2, <2>3, <2>4
<1> QED BY <1>2, <1>4 DEF LeftOf, new

(* Clearing along the labels a vertex has by now clears what was copied    *)
(* from the first of them.                                                 *)
LEMMA ClearedIsFresh ==
  ASSUME cpuType # 1, NEW labels \in Seq(Labels), NEW m \in 0 .. Len(labels),
         NEW copy, RowsOf(copy, {labels[i] : i \in 1 .. m}), NEW hubs
  PROVE  Cleared(copy, labels, hubs) = FreshCopy
<1> DEFINE n == Len(labels)
           step == [p \in Rows \X (1 .. n) |-> Clear(p[1], labels[p[2]])]
           g == Iterate(n, copy, step)
           Total(f) == f = [i \in 0 .. Len(labels) |-> IF i = 0 THEN copy
                                                       ELSE Clear(f[i - 1], labels[i])]
           First(j) == {labels[i] : i \in 1 .. j}
<1>1. n \in Nat /\ \A i \in 1 .. n : labels[i] \in Labels
  OBVIOUS
<1>2. copy \in Rows
  BY DEF RowsOf
<1>3. \A r \in Rows, l \in Labels : Clear(r, l) \in Rows
  <2> SUFFICES ASSUME NEW r \in Rows, NEW l \in Labels PROVE Clear(r, l) \in Rows
    OBVIOUS
  <2> DEFINE set(k) == \A j \in l.hop .. k : r[l.hub][j] # Inf
  <2>1. l.hub \in Vertices /\ Inf \in 0 .. Inf
    BY Sizes DEF Labels
  <2>2. [k \in 0 .. K |-> IF k >= l.hop /\ set(k) THEN Inf ELSE r[l.hub][k]]
          \in [0 .. K -> 0 .. Inf]
    <3> HIDE DEF set
    <3> QED BY <2>1 DEF Rows
  <2> QED BY <2>1, <2>2 DEF Clear, Rows
<1>4. step \in Steps(n, Rows)
  BY <1>1, <1>3 DEF Steps
<1>5. g \in [0 .. n -> Rows]
  <2> HIDE DEF step, n
  <2> QED BY <1>1, <1>2, <1>4, Iterates
<1>6. g[0] = copy
  <2> HIDE DEF step, n
  <2> QED BY <1>1, <1>2, <1>4, Iterates
<1>7. \A j \in 1 .. n : g[j] = step[<<g[j - 1], j>>]
  <2> HIDE DEF step, n
  <2> QED BY <1>1, <1>2, <1>4, Iterates
<1> HIDE DEF g
<1>8. \E f : Total(f)
  <2>1. \A j \in 1 .. n : g[j] = Clear(g[j - 1], labels[j])
    <3> SUFFICES ASSUME NEW j \in 1 .. n PROVE g[j] = Clear(g[j - 1], labels[j])
      OBVIOUS
    <3>1. g[j - 1] \in Rows
      BY <1>1, <1>5
    <3>2. step[<<g[j - 1], j>>] = Clear(g[j - 1], labels[j])
      BY <3>1
    <3> QED BY <1>7, <3>2
  <2>2. \A j \in 0 .. n : g[j] = IF j = 0 THEN copy ELSE Clear(g[j - 1], labels[j])
    <3>1. \A j \in 0 .. n : j # 0 => j \in 1 .. n
      BY <1>1
    <3> HIDE DEF n
    <3> QED BY <1>6, <2>1, <3>1
  <2> QED BY <1>5, <2>2
<1>9. PICK f : Total(f) /\ Cleared(copy, labels, hubs) = f[n]
  BY <1>8 DEF Cleared
<1>10. f[0] = copy /\ \A j \in 1 .. n : f[j] = Clear(f[j - 1], labels[j])
  <2>1. \A j \in 0 .. n : f[j] = IF j = 0 THEN copy ELSE Clear(f[j - 1], labels[j])
    <3> HIDE DEF n
    <3> QED BY ONLY <1>9 DEF n
  <2>2. 0 \in 0 .. n /\ \A j \in 1 .. n : j \in 0 .. n /\ j # 0
    BY <1>1
  <2> HIDE DEF n
  <2> QED BY ONLY <2>1, <2>2
<1>11. \A j \in 0 .. n : First(j) \in SUBSET Labels
  BY <1>1
<1> DEFINE Q == {j \in 0 .. n : LeftOf(f[j], copy, First(j))}
<1>12. 0 \in Q
  <2>1. First(0) = {}
    OBVIOUS
  <2>2. LeftOf(f[0], copy, First(0))
    <3> HIDE DEF First
    <3> QED BY <1>2, <1>10, <2>1 DEF LeftOf
  <2> QED BY <1>1, <2>2
<1>13. ASSUME NEW i \in 0 .. n - 1, i \in Q PROVE i + 1 \in Q
  <2>1. i + 1 \in 1 .. n /\ (i + 1) - 1 = i /\ i + 1 \in 0 .. n
    BY <1>1
  <2>2. f[i + 1] = Clear(f[i], labels[i + 1]) /\ labels[i + 1] \in Labels
    BY <1>1, <1>10, <2>1
  <2>3. First(i) \in SUBSET Labels /\ First(i + 1) = First(i) \cup {labels[i + 1]}
    BY <1>1, <2>1
  <2>4. LeftOf(f[i], copy, First(i))
    BY <1>13
  <2>5. RowsOf(copy, First(m)) /\ First(m) \in SUBSET Labels
    BY <1>11
  <2> HIDE DEF First
  <2>6. LeftOf(f[i + 1], copy, First(i + 1))
    BY <2>2, <2>3, <2>4, <2>5, ClearLeaves
  <2> QED BY <2>1, <2>6
<1>14. LeftOf(f[n], copy, First(n))
  <2>1. 0 .. n \subseteq Q
    <3> HIDE DEF Q, n
    <3> QED BY <1>1, <1>12, <1>13, UpTo
  <2>2. n \in 0 .. n
    BY <1>1
  <2> QED BY <2>1, <2>2
<1>15. ASSUME NEW v \in Vertices, NEW k \in 0 .. K, f[n][v][k] # Inf PROVE FALSE
  <2>1. copy[v][k] # Inf
    BY <1>14, <1>15 DEF LeftOf
  <2>2. PICK a \in First(m) : a.hub = v /\ a.hop <= k
    BY <2>1 DEF RowsOf
  <2>3. a \in First(n) /\ a \in Labels
    BY <1>1
  <2>4. a.hop \in 0 .. K /\ a.dist \in 0 .. Inf - 1
    BY <2>3 DEF Labels
  <2>5. copy[v][a.hop] <= a.dist /\ copy[v][a.hop] # Inf
    BY <2>2, <2>4, Sizes DEF RowsOf
  <2>6. copy[v][a.hop] = Inf
    <3> HIDE DEF First
    <3> QED BY <1>14, <1>15, <2>2, <2>3 DEF LeftOf
  <2> QED BY <2>5, <2>6
<1>16. f[n] = [v \in Vertices |-> [k \in 0 .. K |-> Inf]]
  <2>1. f[n] \in Rows
    BY <1>14 DEF LeftOf
  <2> QED BY <1>15, <2>1 DEF Rows
<1> QED BY <1>9, <1>16 DEF FreshCopy, FreshRow
-----------------------------------------------------------------------------
(***************************************************************************)
(* The tasks of a group: while the driver waits, a vertex of the group has *)
(* its task in the pool's queue, at a worker, or its future ready, and     *)
(* never two of these.                                                     *)
(***************************************************************************)
Busy(t) == pc[t] # "idle"

TaskInv ==
  /\ groups \in Groupings /\ gid \in Nat \ {0} /\ driver \in {"enqueue", "wait"}
  /\ tasks \in Seq(Vertices) /\ vk \in [Workers -> Vertices]
  /\ driver = "enqueue" =>
       tasks = <<>> /\ finished = {} /\ \A t \in Workers : ~Busy(t)
  /\ driver = "wait" =>
       /\ gid <= Len(groups)
       /\ \A i \in DOMAIN tasks : tasks[i] \in ToSet(groups[gid]) \ finished
       /\ \A t \in Workers : Busy(t) => vk[t] \in ToSet(groups[gid]) \ finished
       /\ \A i, j \in DOMAIN tasks : tasks[i] = tasks[j] => i = j
       /\ \A t \in Workers, i \in DOMAIN tasks : Busy(t) => vk[t] # tasks[i]
       /\ \A t, u \in Workers : Busy(t) /\ Busy(u) /\ vk[t] = vk[u] => t = u

LEMMA TaskInit == Init => TaskInv
<1> SUFFICES ASSUME Init PROVE TaskInv
  OBVIOUS
<1>1. /\ groups \in Groupings /\ gid = 1 /\ driver = "enqueue"
      /\ tasks = <<>> /\ finished = {}
      /\ pc = [t \in Workers |-> "idle"] /\ vk = [t \in Workers |-> 0]
  BY DEF Init
<1> QED BY <1>1, Sizes DEF TaskInv, Busy

LEMMA StartGroupTasks ==
  ASSUME TaskInv, StartGroup
  PROVE  TaskInv'
<1>1. /\ gid <= Len(groups) /\ driver = "enqueue" /\ driver' = "wait"
      /\ tasks' = groups[gid] /\ UNCHANGED <<groups, gid, finished, pc, vk>>
  BY DEF StartGroup
<1>2. /\ groups \in Groupings /\ groups \in Seq(Seq(Vertices))
      /\ \A g \in DOMAIN groups : IsInjective(groups[g])
      /\ gid \in DOMAIN groups
  BY <1>1, CpuGroupAssumption DEF TaskInv
<1>3. groups[gid] \in Seq(Vertices)
  BY <1>2
<1>4. /\ \A i \in DOMAIN groups[gid] : groups[gid][i] \in ToSet(groups[gid])
      /\ \A i, j \in DOMAIN groups[gid] : groups[gid][i] = groups[gid][j] => i = j
  BY <1>2 DEF ToSet, IsInjective
<1> QED BY <1>1, <1>3, <1>4 DEF TaskInv, Busy

(* Every future is ready only when no task is left.                        *)
LEMMA NoTaskLeft ==
  ASSUME TaskInv, CollectGroup
  PROVE  tasks = <<>> /\ \A t \in Workers : ~Busy(t)
<1>1. driver = "wait" /\ finished = ToSet(groups[gid])
  BY DEF CollectGroup
<1>2. DOMAIN tasks = {} /\ \A t \in Workers : ~Busy(t)
  BY <1>1 DEF TaskInv
<1>3. tasks \in Seq(Vertices)
  BY DEF TaskInv
<1> QED BY <1>2, <1>3

LEMMA CollectGroupTasks ==
  ASSUME TaskInv, CollectGroup
  PROVE  TaskInv'
<1>1. /\ driver' = "enqueue" /\ gid' = gid + 1 /\ finished' = {}
      /\ UNCHANGED <<groups, tasks, pc, vk>>
  BY DEF CollectGroup
<1> QED BY <1>1, NoTaskLeft DEF TaskInv, Busy

LEMMA StepTasks ==
  ASSUME TaskInv, pc \in [Workers -> PcStates], NEW t \in Workers, Step(t)
  PROVE  TaskInv'
<1>1. UNCHANGED <<groups, gid, driver>>
  BY DEF Step, TakeTask, TakeSlot, Snapshot, Test, Push, NextHop, Reset, ReturnSlot, main
<1>2. CASE TakeTask(t)
  <2>1. /\ pc[t] = "idle" /\ tasks # <<>> /\ finished' = finished
        /\ vk' = [vk EXCEPT ![t] = Head(tasks)] /\ tasks' = Tail(tasks)
        /\ pc' = [pc EXCEPT ![t] = "slot"]
    BY <1>2 DEF TakeTask
  <2>2. /\ tasks \in Seq(Vertices) /\ Len(tasks) \in Nat /\ Len(tasks) >= 1
        /\ Head(tasks) = tasks[1] /\ tasks[1] \in Vertices
        /\ tasks' \in Seq(Vertices)
        /\ DOMAIN tasks = 1 .. Len(tasks) /\ DOMAIN tasks' = 1 .. Len(tasks) - 1
        /\ \A i \in DOMAIN tasks' : tasks'[i] = tasks[i + 1]
    BY <2>1 DEF TaskInv
  <2>3. driver = "wait"
    BY <2>1 DEF TaskInv
  <2>4. \A i \in DOMAIN tasks' : i + 1 \in DOMAIN tasks /\ i + 1 # 1
    BY <2>2
  <2>5. 1 \in DOMAIN tasks
    BY <2>2
  <2>6. /\ vk'[t] = tasks[1] /\ vk' \in [Workers -> Vertices]
        /\ \A u \in Workers \ {t} : vk'[u] = vk[u] /\ (Busy(u)' <=> Busy(u))
    BY <2>1, <2>2 DEF TaskInv, Busy
  <2>7. /\ \A i, j \in DOMAIN tasks' : tasks'[i] = tasks'[j] => i = j
        /\ \A i \in DOMAIN tasks' : tasks'[i] # tasks[1]
    <3>1. \A i, j \in DOMAIN tasks' : i + 1 = j + 1 => i = j
      BY <2>2
    <3> QED BY <2>2, <2>3, <2>4, <2>5, <3>1 DEF TaskInv
  <2>8. /\ \A i \in DOMAIN tasks' : tasks'[i] \in ToSet(groups[gid]) \ finished
        /\ \A u \in Workers : Busy(u)' => vk'[u] \in ToSet(groups[gid]) \ finished
    BY <2>2, <2>3, <2>4, <2>5, <2>6 DEF TaskInv
  <2>9. \A u \in Workers, i \in DOMAIN tasks' : Busy(u)' => vk'[u] # tasks'[i]
    BY <2>2, <2>3, <2>4, <2>6, <2>7 DEF TaskInv
  <2>10. \A u, x \in Workers : Busy(u)' /\ Busy(x)' /\ vk'[u] = vk'[x] => u = x
    BY <2>3, <2>5, <2>6 DEF TaskInv
  <2> QED BY <1>1, <2>1, <2>2, <2>3, <2>6, <2>7, <2>8, <2>9, <2>10 DEF TaskInv
<1>3. CASE ReturnSlot(t)
  <2>1. /\ pc[t] = "return" /\ finished' = finished \cup {vk[t]}
        /\ pc' = [pc EXCEPT ![t] = "idle"] /\ UNCHANGED <<tasks, vk>>
    BY <1>3 DEF ReturnSlot
  <2>2. /\ Busy(t) /\ ~Busy(t)'
        /\ \A u \in Workers \ {t} : Busy(u)' <=> Busy(u)
    BY <2>1 DEF Busy
  <2> QED BY <1>1, <2>1, <2>2 DEF TaskInv
<1>4. CASE TakeSlot(t) \/ Snapshot(t) \/ Test(t) \/ Push(t) \/ NextHop(t) \/ Reset(t)
  <2>1. /\ UNCHANGED <<tasks, finished, vk>>
        /\ pc[t] # "idle"
        /\ (\E p \in {"snapshot", "walk", "push", "reset", "return"} :
              pc' = [pc EXCEPT ![t] = p]) \/ pc' = pc
    BY <1>4 DEF TakeSlot, Snapshot, Test, Push, NextHop, Reset
  <2>2. \A u \in Workers : Busy(u)' <=> Busy(u)
    BY <2>1 DEF Busy
  <2> QED BY <1>1, <2>1, <2>2 DEF TaskInv
<1> QED BY <1>2, <1>3, <1>4 DEF Step
-----------------------------------------------------------------------------
(***************************************************************************)
(* The scratch sets: as new while they wait, and while a task walks its    *)
(* copy answers for the labels its vertex had.                             *)
(***************************************************************************)
Dists == [dist : 0 .. Inf, par : Vertices]
Offers == UNION {[D -> Dists] : D \in SUBSET Vertices}
Walks == [h : 0 .. K, i : Nat \ {0}, changed : SUBSET Vertices, upd : Offers,
          hubs : SUBSET Vertices]

ScratchTypes ==
  /\ w \in Graphs /\ cpuType \in CpuTypes
  /\ vk \in [Workers -> Vertices]
  /\ snap \in [Workers -> Nat]
  /\ loop \in [Workers -> Walks]
  /\ Temp = [s \in Slots |-> Temp[s]]
  /\ distHop \in [Slots -> [Vertices -> Dists]]
  /\ Vh \in [Slots -> [0 .. K + 1 -> Seq(Vertices)]]
  /\ L \in [Vertices -> Seq(Labels)]

Clean(s) ==
  /\ Temp[s] = FreshCopy
  /\ distHop[s] = [v \in Vertices |-> Unseen]
  /\ \A h \in 0 .. K : Vh[s][h] = <<>>

(* The labels a task has copied, and what its copy owes them.              *)
Seen(t) == {L[vk[t]][i] : i \in 1 .. snap[t]}
CopyRight(t) ==
  IF cpuType = 1
  THEN /\ Temp[used[t]] = {[hub |-> l.hub, hop |-> l.hop, dist |-> l.dist] : l \in Seen(t)}
       /\ \A l \in Seen(t) : l.hub \in loop[t].hubs
  ELSE RowsOf(Temp[used[t]], Seen(t))

TaskScratch(t) ==
  /\ pc[t] \in {"snapshot", "return"} => Clean(used[t])
  /\ pc[t] \in {"walk", "push", "reset"} =>
       /\ snap[t] <= Len(L[vk[t]])
       /\ CopyRight(t)
       /\ \A x \in Vertices \ loop[t].changed : distHop[used[t]][x] = Unseen
  /\ pc[t] = "push" => AtVertex(t) /\ distHop[used[t]][Here(t)].dist < Inf

ScratchInv ==
  /\ ScratchTypes
  /\ \A i \in DOMAIN Qid : Clean(Qid[i])
  /\ \A t \in Workers : TaskScratch(t)

LEMMA IdleWalk == Idle \in Walks
<1>1. <<>> \in [{} -> Dists]
  OBVIOUS
<1>2. {} \in SUBSET Vertices
  OBVIOUS
<1>3. <<>> \in Offers
  BY <1>1, <1>2 DEF Offers
<1> QED BY <1>3, Sizes DEF Idle, Walk, Walks

LEMMA UnseenDist == Unseen \in Dists
BY Sizes DEF Unseen, Dists

LEMMA ScratchInit == Init => ScratchInv
<1> SUFFICES ASSUME Init PROVE ScratchInv
  OBVIOUS
<1>1. /\ w \in Graphs /\ cpuType \in CpuTypes
      /\ vk = [t \in Workers |-> 0] /\ snap = [t \in Workers |-> 0]
      /\ loop = [t \in Workers |-> Idle] /\ pc = [t \in Workers |-> "idle"]
      /\ Qid = [i \in 1 .. NumSlots |-> i - 1]
      /\ Temp = [s \in Slots |-> FreshCopy]
      /\ distHop = [s \in Slots |-> [v \in Vertices |-> Unseen]]
      /\ Vh = [s \in Slots |-> [h \in 0 .. K + 1 |-> <<>>]]
      /\ L = [v \in Vertices |-> <<>>]
  BY DEF Init
<1>2. ScratchTypes
  BY <1>1, Sizes, IdleWalk, UnseenDist DEF ScratchTypes
<1>3. \A s \in Slots : Clean(s)
  BY <1>1, Sizes DEF Clean
<1>4. \A i \in DOMAIN Qid : Qid[i] \in Slots
  BY <1>1, CpuSlotAssumption DEF Slots
<1>5. \A t \in Workers : TaskScratch(t)
  BY <1>1 DEF TaskScratch
<1> QED BY <1>2, <1>3, <1>4, <1>5 DEF ScratchInv

(* A task keeps its scratch set right while others append labels and use   *)
(* theirs.                                                                 *)
Untouched(u) ==
  /\ pc'[u] = pc[u] /\ vk'[u] = vk[u] /\ used'[u] = used[u]
  /\ loop'[u] = loop[u] /\ snap'[u] = snap[u]
  /\ Temp'[used[u]] = Temp[used[u]]
  /\ distHop'[used[u]] = distHop[used[u]]
  /\ Vh'[used[u]] = Vh[used[u]]

Grows ==
  \A v \in Vertices : /\ Len(L[v]) <= Len(L'[v])
                      /\ \A i \in 1 .. Len(L[v]) : L'[v][i] = L[v][i]

LEMMA TaskScratchKept ==
  ASSUME ScratchInv, NEW u \in Workers, Untouched(u), Grows,
         UNCHANGED cpuType, L' \in [Vertices -> Seq(Labels)]
  PROVE  TaskScratch(u)'
<1>1. /\ vk[u] \in Vertices /\ snap[u] \in Nat /\ Len(L[vk[u]]) \in Nat
      /\ Len(L'[vk[u]]) \in Nat
  BY DEF ScratchInv, ScratchTypes
<1>2. ASSUME snap[u] <= Len(L[vk[u]])
      PROVE  snap'[u] <= Len(L'[vk'[u]]) /\ Seen(u)' = Seen(u)
  <2>1. snap'[u] = snap[u] /\ vk'[u] = vk[u]
    BY DEF Untouched
  <2>2. /\ Len(L[vk[u]]) <= Len(L'[vk[u]])
        /\ \A i \in 1 .. Len(L[vk[u]]) : L'[vk[u]][i] = L[vk[u]][i]
    BY <1>1 DEF Grows
  <2>3. /\ snap[u] <= Len(L'[vk[u]])
        /\ \A i \in 1 .. snap[u] : L'[vk[u]][i] = L[vk[u]][i]
    BY ONLY <1>1, <1>2, <2>2
  <2> QED BY <2>1, <2>3 DEF Seen
<1>3. TaskScratch(u)
  BY DEF ScratchInv
<1>4. pc'[u] \in {"snapshot", "return"} => Clean(used[u])'
  BY <1>3 DEF TaskScratch, Clean, Untouched, FreshCopy, FreshRow
<1>5. ASSUME pc'[u] \in {"walk", "push", "reset"}
      PROVE  /\ snap'[u] <= Len(L'[vk'[u]])
             /\ CopyRight(u)'
             /\ \A x \in Vertices \ loop'[u].changed : distHop'[used'[u]][x] = Unseen
  <2>1. snap[u] <= Len(L[vk[u]])
    BY <1>3, <1>5 DEF TaskScratch, Untouched
  <2>2. CopyRight(u)'
    BY <1>2, <1>3, <1>5, <2>1 DEF TaskScratch, CopyRight, Untouched
  <2> QED BY <1>2, <1>3, <1>5, <2>1, <2>2 DEF TaskScratch, Untouched
<1>6. pc'[u] = "push" => AtVertex(u)' /\ distHop'[used'[u]][Here(u)'].dist < Inf
  BY <1>3 DEF TaskScratch, Untouched, AtVertex, Here
<1> QED BY <1>4, <1>5, <1>6 DEF TaskScratch, Untouched

(* What a step of t leaves to the other tasks.                             *)
OthersKept(t) ==
  /\ UNCHANGED cpuType /\ Grows
  /\ \A u \in Workers \ {t} :
       /\ pc'[u] = pc[u] /\ vk'[u] = vk[u] /\ used'[u] = used[u]
       /\ loop'[u] = loop[u] /\ snap'[u] = snap[u]

(* A task at work on its scratch set.                                      *)
LEMMA WorkKeeps ==
  ASSUME SlotInv, ScratchInv, NEW t \in Workers, Holds(t), OthersKept(t),
         UNCHANGED <<used, Qid>>,
         \A s \in Slots \ {used[t]} :
           Temp'[s] = Temp[s] /\ distHop'[s] = distHop[s] /\ Vh'[s] = Vh[s],
         ScratchTypes', TaskScratch(t)'
  PROVE  ScratchInv'
<1>1. \A i \in DOMAIN Qid : Qid[i] \in Slots \ {used[t]}
  BY DEF SlotInv, SlotTypes, SlotExclusive
<1>2. \A i \in DOMAIN Qid' : Clean(Qid[i])'
  <2>1. FreshCopy' = FreshCopy
    BY DEF OthersKept, FreshCopy, FreshRow
  <2> SUFFICES ASSUME NEW i \in DOMAIN Qid' PROVE Clean(Qid[i])'
    OBVIOUS
  <2>2. Qid'[i] = Qid[i] /\ Qid[i] \in Slots \ {used[t]} /\ Clean(Qid[i])
    BY <1>1 DEF ScratchInv
  <2> QED BY <2>1, <2>2 DEF Clean
<1>3. ASSUME NEW u \in Workers \ {t} PROVE TaskScratch(u)'
  <2>1. CASE Holds(u)
    <3>1. used[u] \in Slots \ {used[t]}
      BY <1>3, <2>1 DEF SlotInv, SlotTypes, SlotExclusive
    <3>2. Untouched(u)
      BY <3>1 DEF Untouched, OthersKept
    <3>3. L' \in [Vertices -> Seq(Labels)]
      BY DEF ScratchTypes
    <3> QED BY <3>2, <3>3, TaskScratchKept DEF OthersKept
  <2>2. CASE ~Holds(u)
    BY <2>2 DEF Holds, TaskScratch, OthersKept
  <2> QED BY <2>1, <2>2
<1> QED BY <1>2, <1>3 DEF ScratchInv

(* A task that takes or gives back its scratch set, or has none.           *)
LEMMA RestKeeps ==
  ASSUME SlotInv, ScratchInv, NEW t \in Workers, OthersKept(t),
         UNCHANGED <<Temp, distHop, Vh, L>>,
         \A i \in DOMAIN Qid' : Clean(Qid'[i]),
         ScratchTypes', TaskScratch(t)'
  PROVE  ScratchInv'
<1>1. \A i \in DOMAIN Qid' : Clean(Qid[i])'
  BY DEF Clean, OthersKept, FreshCopy, FreshRow
<1>2. ASSUME NEW u \in Workers \ {t} PROVE TaskScratch(u)'
  <2>1. Untouched(u)
    BY DEF Untouched, OthersKept
  <2>2. L' \in [Vertices -> Seq(Labels)]
    BY DEF ScratchTypes
  <2> QED BY <2>1, <2>2, TaskScratchKept DEF OthersKept
<1> QED BY <1>1, <1>2 DEF ScratchInv

LEMMA TakeTaskScratch ==
  ASSUME SlotInv, ScratchInv, tasks \in Seq(Vertices), NEW t \in Workers, TakeTask(t)
  PROVE  ScratchInv'
<1>1. /\ tasks # <<>> /\ pc[t] = "idle" /\ vk' = [vk EXCEPT ![t] = Head(tasks)]
      /\ pc' = [pc EXCEPT ![t] = "slot"]
      /\ UNCHANGED <<w, cpuType, used, loop, Qid, Temp, distHop, Vh, L, snap>>
  BY DEF TakeTask, main
<1>2. Head(tasks) \in Vertices
  BY <1>1
<1>3. ScratchTypes'
  BY <1>1, <1>2 DEF ScratchInv, ScratchTypes
<1>4. OthersKept(t)
  BY <1>1 DEF OthersKept, Grows, ScratchInv, ScratchTypes
<1>5. TaskScratch(t)'
  BY <1>1 DEF TaskScratch, SlotInv, SlotTypes
<1>6. \A i \in DOMAIN Qid' : Clean(Qid'[i])
  BY <1>1 DEF ScratchInv
<1> QED BY <1>1, <1>3, <1>4, <1>5, <1>6, RestKeeps

LEMMA TakeSlotScratch ==
  ASSUME SlotInv, ScratchInv, NEW t \in Workers, TakeSlot(t)
  PROVE  ScratchInv'
<1>1. /\ Qid # <<>> /\ pc[t] = "slot" /\ used' = [used EXCEPT ![t] = Head(Qid)]
      /\ Qid' = Tail(Qid) /\ pc' = [pc EXCEPT ![t] = "snapshot"]
      /\ UNCHANGED <<w, cpuType, vk, loop, Temp, distHop, Vh, L, snap>>
  BY DEF TakeSlot, main
<1>2. Qid \in Seq(Slots) /\ used \in [Workers -> Slots] /\ pc \in [Workers -> PcStates]
  BY DEF SlotInv, SlotTypes
<1>3. /\ Head(Qid) = Qid[1] /\ 1 \in DOMAIN Qid
      /\ \A i \in DOMAIN Qid' : i + 1 \in DOMAIN Qid /\ Qid'[i] = Qid[i + 1]
  BY <1>1, <1>2
<1>4. \A i \in DOMAIN Qid' : Clean(Qid'[i])
  BY <1>3 DEF ScratchInv
<1>5. ScratchTypes'
  BY <1>1 DEF ScratchInv, ScratchTypes
<1>6. OthersKept(t)
  BY <1>1 DEF OthersKept, Grows, ScratchInv, ScratchTypes
<1>7. TaskScratch(t)'
  <2>1. Clean(Qid[1]) /\ used'[t] = Qid[1] /\ pc'[t] = "snapshot"
    BY <1>1, <1>2, <1>3 DEF ScratchInv
  <2>2. Clean(used[t])'
    BY <1>1, <2>1 DEF Clean, FreshCopy, FreshRow
  <2> QED BY <2>1, <2>2 DEF TaskScratch
<1> QED BY <1>1, <1>4, <1>5, <1>6, <1>7, RestKeeps

LEMMA ReturnSlotScratch ==
  ASSUME SlotInv, ScratchInv, NEW t \in Workers, ReturnSlot(t)
  PROVE  ScratchInv'
<1>1. /\ pc[t] = "return" /\ Qid' = Append(Qid, used[t])
      /\ loop' = [loop EXCEPT ![t] = Idle] /\ pc' = [pc EXCEPT ![t] = "idle"]
      /\ UNCHANGED <<w, cpuType, vk, used, Temp, distHop, Vh, L, snap>>
  BY DEF ReturnSlot, main
<1>2. Qid \in Seq(Slots) /\ used \in [Workers -> Slots] /\ pc \in [Workers -> PcStates]
  BY DEF SlotInv, SlotTypes
<1>3. \A i \in DOMAIN Qid' : Qid'[i] = used[t] \/ (i \in DOMAIN Qid /\ Qid'[i] = Qid[i])
  BY <1>1, <1>2
<1>4. \A i \in DOMAIN Qid' : Clean(Qid'[i])
  BY <1>1, <1>3 DEF ScratchInv, TaskScratch
<1>5. ScratchTypes'
  BY <1>1, IdleWalk DEF ScratchInv, ScratchTypes
<1>6. OthersKept(t)
  BY <1>1 DEF OthersKept, Grows, ScratchInv, ScratchTypes
<1>7. TaskScratch(t)'
  BY <1>1, <1>2 DEF TaskScratch
<1> QED BY <1>1, <1>4, <1>5, <1>6, <1>7, RestKeeps

LEMMA SnapshotScratch ==
  ASSUME SlotInv, ScratchInv, NEW t \in Workers, Snapshot(t)
  PROVE  ScratchInv'
<1> DEFINE s == used[t]
           v == vk[t]
           hubs == {l.hub : l \in ToSet(L[v])}
<1>1. /\ pc[t] = "snapshot" /\ pc' = [pc EXCEPT ![t] = "walk"]
      /\ Temp' = [Temp EXCEPT ![s] = Copied(Temp[s], L[v])]
      /\ Vh' = [Vh EXCEPT ![s][0] = Append(Vh[s][0], v)]
      /\ distHop' = [distHop EXCEPT ![s][v] = [dist |-> 0, par |-> v]]
      /\ loop' = [loop EXCEPT ![t] = Walk(0, 1, {v}, <<>>, hubs)]
      /\ snap' = [snap EXCEPT ![t] = Len(L[v])]
      /\ UNCHANGED <<w, cpuType, vk, used, Qid, L>>
  BY DEF Snapshot, main
<1>2. /\ s \in Slots /\ v \in Vertices /\ L[v] \in Seq(Labels) /\ Holds(t)
      /\ Clean(s) /\ ScratchTypes /\ pc \in [Workers -> PcStates]
  BY <1>1 DEF SlotInv, SlotTypes, ScratchInv, ScratchTypes, TaskScratch, Holds
<1>3. ToSet(L[v]) = {L[v][i] : i \in 1 .. Len(L[v])} /\ Len(L[v]) \in Nat
  BY <1>2 DEF ToSet
<1>4. hubs \in SUBSET Vertices
  <2>1. \A i \in 1 .. Len(L[v]) : L[v][i] \in Labels
    BY <1>2
  <2> QED BY <1>3, <2>1 DEF Labels
<1>5. Walk(0, 1, {v}, <<>>, hubs) \in Walks
  <2>1. <<>> \in [{} -> Dists] /\ {} \in SUBSET Vertices
    OBVIOUS
  <2>2. <<>> \in Offers
    BY <2>1 DEF Offers
  <2> HIDE DEF hubs
  <2> QED BY <1>2, <1>4, <2>2, Sizes DEF Walk, Walks
<1>6. ScratchTypes'
  <2>1. [dist |-> 0, par |-> v] \in Dists
    BY <1>2, Sizes DEF Dists
  <2>2. distHop' \in [Slots -> [Vertices -> Dists]]
    BY <1>1, <1>2, <2>1 DEF ScratchTypes
  <2>3. Vh' \in [Slots -> [0 .. K + 1 -> Seq(Vertices)]]
    <3>1. 0 \in 0 .. K + 1
      BY Sizes
    <3>2. Vh \in [Slots -> [0 .. K + 1 -> Seq(Vertices)]]
      BY <1>2 DEF ScratchTypes
    <3>3. Vh' = [Vh EXCEPT ![s][0] = Append(Vh[s][0], v)]
      BY <1>1
    <3>4. s \in Slots /\ v \in Vertices
      BY <1>2
    <3> HIDE DEF s, v
    <3>5. Vh[s][0] \in Seq(Vertices)
      BY ONLY <3>1, <3>2, <3>4
    <3>6. Append(Vh[s][0], v) \in Seq(Vertices)
      BY ONLY <3>4, <3>5
    <3> QED BY ONLY <3>1, <3>2, <3>3, <3>4, <3>6
  <2>4. Temp' = [x \in Slots |-> Temp'[x]]
    BY <1>1 DEF ScratchTypes, ScratchInv
  <2> HIDE DEF hubs
  <2> QED BY <1>1, <1>2, <1>3, <1>5, <2>2, <2>3, <2>4 DEF ScratchTypes
<1>7. OthersKept(t)
  BY <1>1, <1>2 DEF OthersKept, Grows, ScratchTypes
<1>8. \A x \in Slots \ {s} :
        Temp'[x] = Temp[x] /\ distHop'[x] = distHop[x] /\ Vh'[x] = Vh[x]
  BY <1>1, <1>2 DEF ScratchTypes
<1>9. /\ pc'[t] = "walk" /\ snap'[t] = Len(L[v]) /\ vk'[t] = v /\ used'[t] = s
      /\ loop'[t] = Walk(0, 1, {v}, <<>>, hubs)
      /\ Temp'[s] = Copied(FreshCopy, L[v])
  <2>1. Temp'[s] = Copied(Temp[s], L[v]) /\ Temp[s] = FreshCopy
    BY <1>1, <1>2 DEF ScratchTypes, Clean
  <2>2. pc'[t] = "walk" /\ snap'[t] = Len(L[v]) /\ vk'[t] = v /\ used'[t] = s
    BY <1>1, <1>2 DEF ScratchTypes
  <2>3. loop'[t] = Walk(0, 1, {v}, <<>>, hubs)
    <3> HIDE DEF hubs
    <3> QED BY <1>1, <1>2 DEF ScratchTypes
  <2> QED BY <2>1, <2>2, <2>3
<1>10. Seen(t)' = ToSet(L[v])
  <2>1. Seen(t)' = {L'[vk'[t]][i] : i \in 1 .. snap'[t]}
    BY DEF Seen
  <2> QED BY <1>1, <1>3, <1>9, <2>1
<1>11. CopyRight(t)'
  <2>1. CASE cpuType = 1
    <3>1. Temp'[s] = {[hub |-> l.hub, hop |-> l.hop, dist |-> l.dist] : l \in ToSet(L[v])}
      BY <1>9, <2>1 DEF Copied, FreshCopy
    <3>2. loop'[t].hubs = hubs
      BY <1>9 DEF Walk
    <3> QED BY <1>1, <1>9, <1>10, <2>1, <3>1, <3>2 DEF CopyRight
  <2>2. CASE cpuType # 1
    <3>1. RowsOf(Copied(FreshCopy, L[v]), {L[v][i] : i \in 1 .. Len(L[v])})
      BY <1>2, <2>2, CopiedRows
    <3>2. RowsOf(Temp'[s], ToSet(L[v]))
      BY <1>3, <1>9, <3>1
    <3> QED BY <1>1, <1>9, <1>10, <2>2, <3>2 DEF CopyRight
  <2> QED BY <2>1, <2>2
<1>12. \A x \in Vertices \ loop'[t].changed : distHop'[s][x] = Unseen
  <2>1. loop'[t].changed = {v}
    BY <1>9 DEF Walk
  <2>2. \A x \in Vertices \ {v} : distHop'[s][x] = distHop[s][x]
    BY <1>1, <1>2 DEF ScratchTypes
  <2>3. \A x \in Vertices : distHop[s][x] = Unseen
    BY <1>2 DEF Clean
  <2> QED BY <2>1, <2>2, <2>3
<1>13. TaskScratch(t)'
  <2>1. snap'[t] <= Len(L'[vk'[t]])
    BY <1>1, <1>3, <1>9
  <2> QED BY <1>9, <1>11, <1>12, <2>1 DEF TaskScratch
<1> QED BY <1>1, <1>2, <1>6, <1>7, <1>8, <1>13, WorkKeeps

LEMMA ResetScratch ==
  ASSUME SlotInv, ScratchInv, NEW t \in Workers, Reset(t)
  PROVE  ScratchInv'
<1> DEFINE s == used[t]
           v == vk[t]
<1>1. /\ pc[t] = "reset" /\ pc' = [pc EXCEPT ![t] = "return"]
      /\ Temp' = [Temp EXCEPT ![s] = Cleared(Temp[s], L[v], loop[t].hubs)]
      /\ Vh' = [Vh EXCEPT ![s] = [i \in DOMAIN Vh[s] |-> IF i <= K THEN <<>> ELSE Vh[s][i]]]
      /\ distHop' = [distHop EXCEPT ![s] =
                       [x \in Vertices |-> IF x \in loop[t].changed THEN Unseen
                                           ELSE distHop[s][x]]]
      /\ UNCHANGED <<w, cpuType, vk, used, loop, Qid, L, snap>>
  BY DEF Reset, main
<1>2. /\ s \in Slots /\ v \in Vertices /\ L[v] \in Seq(Labels) /\ Holds(t)
      /\ ScratchTypes /\ pc \in [Workers -> PcStates]
  BY <1>1 DEF SlotInv, SlotTypes, ScratchInv, ScratchTypes, Holds
<1>3. /\ snap[t] <= Len(L[v]) /\ CopyRight(t)
      /\ \A x \in Vertices \ loop[t].changed : distHop[s][x] = Unseen
  BY <1>1 DEF ScratchInv, TaskScratch
<1>4. ScratchTypes'
  <2>1. distHop' \in [Slots -> [Vertices -> Dists]]
    BY <1>1, <1>2, UnseenDist DEF ScratchTypes
  <2>2. Vh' \in [Slots -> [0 .. K + 1 -> Seq(Vertices)]]
    <3>1. [i \in DOMAIN Vh[s] |-> IF i <= K THEN <<>> ELSE Vh[s][i]]
            \in [0 .. K + 1 -> Seq(Vertices)]
      <4>1. Vh[s] \in [0 .. K + 1 -> Seq(Vertices)] /\ <<>> \in Seq(Vertices)
        BY <1>2 DEF ScratchTypes
      <4> QED BY ONLY <4>1
    <3> QED BY <1>1, <1>2, <3>1 DEF ScratchTypes
  <2>3. Temp' = [x \in Slots |-> Temp'[x]]
    BY <1>1, <1>2 DEF ScratchTypes
  <2> QED BY <1>1, <1>2, <2>1, <2>2, <2>3 DEF ScratchTypes
<1>5. OthersKept(t)
  BY <1>1, <1>2 DEF OthersKept, Grows, ScratchTypes
<1>6. \A x \in Slots \ {s} :
        Temp'[x] = Temp[x] /\ distHop'[x] = distHop[x] /\ Vh'[x] = Vh[x]
  BY <1>1, <1>2 DEF ScratchTypes
<1>7. Temp'[s] = FreshCopy
  <2>1. Temp'[s] = Cleared(Temp[s], L[v], loop[t].hubs)
    BY <1>1, <1>2 DEF ScratchTypes
  <2>2. CASE cpuType = 1
    <3>1. \A p \in Temp[s] : p.hub \in loop[t].hubs
      BY <1>3, <2>2 DEF CopyRight
    <3> QED BY <2>1, <2>2, <3>1 DEF Cleared, FreshCopy
  <2>3. CASE cpuType # 1
    <3>1. snap[t] \in 0 .. Len(L[v])
      BY <1>2, <1>3 DEF ScratchTypes
    <3>2. RowsOf(Temp[s], {L[v][i] : i \in 1 .. snap[t]})
      BY <1>3, <2>3 DEF CopyRight, Seen
    <3> QED BY <1>2, <2>1, <2>3, <3>1, <3>2, ClearedIsFresh
  <2> QED BY <2>2, <2>3
<1>8. Clean(used[t])'
  <2>1. FreshCopy' = FreshCopy /\ used'[t] = s
    BY <1>1 DEF FreshCopy, FreshRow
  <2>2. distHop'[s] = [x \in Vertices |-> Unseen]
    BY <1>1, <1>2, <1>3 DEF ScratchTypes
  <2>3. \A h \in 0 .. K : Vh'[s][h] = <<>>
    BY <1>1, <1>2, Sizes DEF ScratchTypes
  <2> QED BY <1>7, <2>1, <2>2, <2>3 DEF Clean
<1>9. TaskScratch(t)'
  BY <1>1, <1>2, <1>8 DEF TaskScratch
<1> QED BY <1>1, <1>2, <1>4, <1>5, <1>6, <1>9, WorkKeeps

(* A query never answers more than "nothing found".                        *)
LEMMA QueryBound ==
  ASSUME ScratchTypes, NEW t \in Workers, CopyRight(t), NEW u \in Vertices,
         NEW h \in 0 .. K, snap[t] <= Len(L[vk[t]])
  PROVE  Query(used[t], u, h) \in Nat /\ Query(used[t], u, h) <= Inf
<1> DEFINE s == used[t]
           meet == {l.dist + Best(s, l.hub, h - l.hop) :
                      l \in {x \in ToSet(L[u]) : x.hop <= h}}
<1>1. \A l \in ToSet(L[u]) : l \in Labels
  <2>1. L[u] \in Seq(Labels)
    BY DEF ScratchTypes
  <2>2. \A i \in DOMAIN L[u] : L[u][i] \in Labels
    BY <2>1
  <2> QED BY <2>2 DEF ToSet
<1>2. ASSUME NEW m \in Vertices, NEW k \in 0 .. K PROVE Best(s, m, k) \in Nat
  <2>1. CASE cpuType = 1
    <3> DEFINE D == {Inf} \cup {p.dist : p \in {x \in Temp[s] : x.hub = m /\ x.hop <= k}}
    <3>1. Seen(t) \in SUBSET Labels
      <4>1. L[vk[t]] \in Seq(Labels) /\ Len(L[vk[t]]) \in Nat /\ snap[t] \in Nat
        BY DEF ScratchTypes
      <4>2. \A i \in 1 .. snap[t] : L[vk[t]][i] \in Labels
        BY <4>1
      <4> QED BY <4>2 DEF Seen
    <3>2. \A p \in Temp[s] : p.dist \in Nat
      <4>1. \A l \in Seen(t) : l.dist \in Nat
        BY <3>1, Sizes DEF Labels
      <4>2. Temp[s] = {[hub |-> l.hub, hop |-> l.hop, dist |-> l.dist] : l \in Seen(t)}
        BY <2>1 DEF CopyRight
      <4> QED BY <4>1, <4>2
    <3>3. D \subseteq Nat /\ D # {}
      BY <3>2, Sizes
    <3>4. Min(D) \in D
      <4> HIDE DEF D
      <4> QED BY <3>3, MinNatural
    <3>5. Best(s, m, k) = Min(D)
      BY <2>1 DEF Best
    <3> HIDE DEF D
    <3> QED BY <3>3, <3>4, <3>5
  <2>2. CASE cpuType # 1
    <3>1. Temp[s] \in Rows /\ Best(s, m, k) = Temp[s][m][k]
      BY <2>2 DEF CopyRight, RowsOf, Best
    <3> QED BY <3>1, Sizes DEF Rows
  <2> QED BY <2>1, <2>2
<1>3. \A l \in ToSet(L[u]) : l.hop <= h => l.dist + Best(s, l.hub, h - l.hop) \in Nat
  <2> SUFFICES ASSUME NEW l \in ToSet(L[u]), l.hop <= h
               PROVE  l.dist + Best(s, l.hub, h - l.hop) \in Nat
    OBVIOUS
  <2>1. l.hub \in Vertices /\ l.hop \in 0 .. K /\ l.dist \in Nat
    BY <1>1, Sizes DEF Labels
  <2>2. h - l.hop \in 0 .. K
    BY <2>1, Sizes
  <2>3. Best(s, l.hub, h - l.hop) \in Nat
    BY <1>2, <2>1, <2>2
  <2> QED BY <2>1, <2>3
<1>4. {Inf} \cup meet \subseteq Nat /\ Inf \in {Inf} \cup meet
  BY <1>3, Sizes
<1>5. Query(s, u, h) = Min({Inf} \cup meet)
  BY DEF Query
<1> HIDE DEF meet
<1>6. /\ Min({Inf} \cup meet) \in {Inf} \cup meet
      /\ \A k \in {Inf} \cup meet : Min({Inf} \cup meet) <= k
  BY <1>4, MinNatural
<1> QED BY <1>4, <1>5, <1>6

LEMMA TestScratch ==
  ASSUME SlotInv, ScratchInv, NEW t \in Workers, Test(t)
  PROVE  ScratchInv'
<1> DEFINE s == used[t]
           back == [loop[t] EXCEPT !.i = @ + 1]
<1>1. /\ pc[t] = "walk" /\ AtVertex(t)
      /\ UNCHANGED <<w, cpuType, vk, used, Qid, Temp, distHop, Vh, L, snap>>
  BY DEF Test, main
<1>2. \/ Accepts(t, Here(t)) /\ pc' = [pc EXCEPT ![t] = "push"] /\ loop' = loop
      \/ pc' = pc /\ loop' = [loop EXCEPT ![t] = back]
  BY DEF Test
<1>3. /\ s \in Slots /\ Holds(t) /\ ScratchTypes /\ pc \in [Workers -> PcStates]
      /\ TaskScratch(t) /\ loop[t] \in Walks
  BY <1>1 DEF SlotInv, SlotTypes, ScratchInv, ScratchTypes, Holds
<1>4. /\ back \in Walks /\ back.changed = loop[t].changed /\ back.hubs = loop[t].hubs
  BY <1>3 DEF Walks
<1>5. /\ loop' \in [Workers -> Walks]
      /\ loop'[t].changed = loop[t].changed /\ loop'[t].hubs = loop[t].hubs
      /\ \A u \in Workers \ {t} : loop'[u] = loop[u]
  <2> HIDE DEF back
  <2> QED BY <1>2, <1>3, <1>4 DEF ScratchTypes
<1>6. /\ pc'[t] \in {"walk", "push"}
      /\ \A u \in Workers \ {t} : pc'[u] = pc[u]
  BY <1>1, <1>2, <1>3
<1>7. ScratchTypes'
  BY <1>1, <1>3, <1>5 DEF ScratchTypes
<1>8. OthersKept(t)
  BY <1>1, <1>3, <1>5, <1>6 DEF OthersKept, Grows, ScratchTypes
<1>9. /\ snap[t] <= Len(L[vk[t]]) /\ CopyRight(t)
      /\ \A x \in Vertices \ loop[t].changed : distHop[s][x] = Unseen
  BY <1>1, <1>3 DEF TaskScratch
<1>10. CopyRight(t)'
  <2>1. Seen(t)' = Seen(t)
    BY <1>1 DEF Seen
  <2> QED BY <1>1, <1>5, <1>9, <2>1 DEF CopyRight
<1>11. ASSUME pc'[t] = "push" PROVE AtVertex(t)' /\ distHop[s][Here(t)].dist < Inf /\ loop' = loop
  <2>1. Accepts(t, Here(t)) /\ loop' = loop
    BY <1>1, <1>2, <1>11
  <2>2. AtVertex(t)'
    BY <1>1, <2>1 DEF AtVertex
  <2>3. Here(t) \in Vertices /\ loop[t].h \in 0 .. K
    <3>1. loop[t].h \in 0 .. K /\ loop[t].i \in Nat \ {0}
      BY <1>3 DEF Walks
    <3>2. loop[t].h \in 0 .. K + 1
      BY <3>1, Sizes
    <3>3. Vh \in [Slots -> [0 .. K + 1 -> Seq(Vertices)]]
      BY <1>3 DEF ScratchTypes
    <3>4. Vh[s][loop[t].h] \in Seq(Vertices)
      BY ONLY <1>3, <3>2, <3>3
    <3>5. loop[t].i <= Len(Vh[s][loop[t].h])
      BY <1>1 DEF AtVertex
    <3> QED BY <3>1, <3>4, <3>5 DEF Here
  <2>4. Query(s, Here(t), loop[t].h) \in Nat /\ Query(s, Here(t), loop[t].h) <= Inf
    BY <1>3, <1>9, <2>3, QueryBound
  <2>5. distHop[s][Here(t)].dist < Query(s, Here(t), loop[t].h)
    BY <2>1 DEF Accepts
  <2>6. distHop[s][Here(t)].dist \in Nat
    BY <1>3, <2>3, Sizes DEF ScratchTypes, Dists
  <2> QED BY <2>1, <2>2, <2>4, <2>5, <2>6, Sizes
<1>12. TaskScratch(t)'
  <2>1. pc'[t] = "push" => AtVertex(t)' /\ distHop'[used'[t]][Here(t)'].dist < Inf
    BY <1>1, <1>11 DEF Here
  <2> QED BY <1>1, <1>5, <1>6, <1>9, <1>10, <2>1 DEF TaskScratch
<1> QED BY <1>1, <1>3, <1>7, <1>8, <1>12, WorkKeeps

LEMMA NextHopScratch ==
  ASSUME SlotInv, ScratchInv, NEW t \in Workers, NextHop(t)
  PROVE  ScratchInv'
<1> DEFINE s == used[t]
           upd == loop[t].upd
           next == Walk(loop[t].h + 1, 1, loop[t].changed \cup DOMAIN upd, <<>>,
                        loop[t].hubs)
<1>1. /\ pc[t] = "walk"
      /\ UNCHANGED <<w, cpuType, vk, used, Qid, Temp, Vh, L, snap>>
  BY DEF NextHop, main
<1>2. \/ /\ loop[t].h < K /\ pc' = pc /\ loop' = [loop EXCEPT ![t] = next]
         /\ distHop' = [distHop EXCEPT ![s] = Lowered(distHop[s], upd)]
      \/ pc' = [pc EXCEPT ![t] = "reset"] /\ distHop' = distHop /\ loop' = loop
  BY DEF NextHop
<1>3. /\ s \in Slots /\ Holds(t) /\ ScratchTypes /\ pc \in [Workers -> PcStates]
      /\ TaskScratch(t) /\ loop[t] \in Walks
  BY <1>1 DEF SlotInv, SlotTypes, ScratchInv, ScratchTypes, Holds
<1>4. PICK D \in SUBSET Vertices : upd \in [D -> Dists]
  BY <1>3 DEF Walks, Offers
<1>5. Lowered(distHop[s], upd) \in [Vertices -> Dists]
  BY <1>3, <1>4 DEF Lowered, ScratchTypes
<1>6. \A x \in Vertices \ DOMAIN upd : Lowered(distHop[s], upd)[x] = distHop[s][x]
  BY DEF Lowered
<1>7. loop[t].h < K => next \in Walks
  <2> SUFFICES ASSUME loop[t].h < K PROVE next \in Walks
    OBVIOUS
  <2>1. <<>> \in [{} -> Dists] /\ {} \in SUBSET Vertices
    OBVIOUS
  <2>2. <<>> \in Offers
    BY <2>1 DEF Offers
  <2>3. loop[t].h + 1 \in 0 .. K /\ loop[t].hubs \in SUBSET Vertices
    BY <1>3, Sizes DEF Walks
  <2>4. loop[t].changed \cup DOMAIN upd \in SUBSET Vertices
    BY <1>3, <1>4 DEF Walks
  <2> HIDE DEF upd
  <2> QED BY <2>2, <2>3, <2>4 DEF Walk, Walks
<1>8. next.changed = loop[t].changed \cup DOMAIN upd /\ next.hubs = loop[t].hubs
  BY DEF Walk
<1>9. \A u \in Workers \ {t} : pc'[u] = pc[u] /\ loop'[u] = loop[u]
  <2> HIDE DEF next
  <2> QED BY <1>2, <1>3 DEF ScratchTypes
<1>10. pc'[t] \in {"walk", "reset"} /\ loop'[t].hubs = loop[t].hubs
  <2> HIDE DEF next
  <2> QED BY <1>1, <1>2, <1>3, <1>8 DEF ScratchTypes
<1>11. ScratchTypes'
  <2>1. loop' \in [Workers -> Walks]
    <3> HIDE DEF next
    <3> QED BY <1>2, <1>3, <1>7 DEF ScratchTypes
  <2>2. distHop' \in [Slots -> [Vertices -> Dists]]
    BY <1>2, <1>3, <1>5 DEF ScratchTypes
  <2> QED BY <1>1, <1>3, <2>1, <2>2 DEF ScratchTypes
<1>12. OthersKept(t)
  BY <1>1, <1>3, <1>9 DEF OthersKept, Grows, ScratchTypes
<1>13. \A x \in Slots \ {s} :
         Temp'[x] = Temp[x] /\ distHop'[x] = distHop[x] /\ Vh'[x] = Vh[x]
  BY <1>1, <1>2, <1>3 DEF ScratchTypes
<1>14. /\ snap[t] <= Len(L[vk[t]]) /\ CopyRight(t)
       /\ \A x \in Vertices \ loop[t].changed : distHop[s][x] = Unseen
  BY <1>1, <1>3 DEF TaskScratch
<1>15. CopyRight(t)'
  <2>1. Seen(t)' = Seen(t)
    BY <1>1 DEF Seen
  <2> QED BY <1>1, <1>10, <1>14, <2>1 DEF CopyRight
<1>16. \A x \in Vertices \ loop'[t].changed : distHop'[s][x] = Unseen
  <2>1. CASE loop' = loop /\ distHop' = distHop
    BY <1>14, <2>1
  <2>2. CASE loop'[t] = next /\ distHop'[s] = Lowered(distHop[s], upd)
    <3> HIDE DEF next, upd
    <3> QED BY <1>6, <1>8, <1>14, <2>2
  <2>3. \/ loop' = loop /\ distHop' = distHop
        \/ loop'[t] = next /\ distHop'[s] = Lowered(distHop[s], upd)
    <3> HIDE DEF next
    <3> QED BY <1>2, <1>3 DEF ScratchTypes
  <2> QED BY <2>1, <2>2, <2>3
<1>17. TaskScratch(t)'
  BY <1>1, <1>10, <1>14, <1>15, <1>16 DEF TaskScratch
<1> QED BY <1>1, <1>3, <1>11, <1>12, <1>13, <1>17, WorkKeeps

(* The vertices met first, in their order.                                 *)
LEMMA OrderedVertices ==
  ASSUME NEW S \in SUBSET Vertices
  PROVE  Ordered(S, <) \in Seq(S)
<1>1. S \subseteq Int /\ IsFiniteSet(S)
  BY VerticesFinite, FS_Subset
<1>2. Lists(Ordered(S, <), S)
  BY <1>1, OrderedNumbers, Zenon
<1> SUFFICES ASSUME NEW s, s = Ordered(S, <) PROVE s \in Seq(S)
  BY Zenon
<1>3. Lists(s, S)
  BY <1>2, Zenon
<1> QED BY ONLY <1>3 DEF Lists

LEMMA PushScratch ==
  ASSUME SlotInv, ScratchInv, NEW t \in Workers, Push(t)
  PROVE  ScratchInv'
<1> DEFINE s == used[t]
           u == Here(t)
           h == loop[t].h
           upd == loop[t].upd
           new == [hub |-> vk[t], hop |-> h, dist |-> distHop[s][u].dist,
                   par |-> distHop[s][u].par]
           unmet == Ordered(Improved(s, u) \ DOMAIN upd, <)
           next == Walk(h, loop[t].i + 1, loop[t].changed, Offer(upd, s, u), loop[t].hubs)
<1>1. /\ pc[t] = "push" /\ pc' = [pc EXCEPT ![t] = "walk"]
      /\ L' = [L EXCEPT ![u] = Append(L[u], new)]
      /\ loop' = [loop EXCEPT ![t] = next]
      /\ UNCHANGED <<w, cpuType, vk, used, Qid, Temp, distHop, snap>>
  BY DEF Push, main
<1>2. Vh' = [Vh EXCEPT ![s][h + 1] = Vh[s][h + 1] \o unmet]
  BY Zenon DEF Push
<1>3. /\ s \in Slots /\ Holds(t) /\ ScratchTypes /\ pc \in [Workers -> PcStates]
      /\ TaskScratch(t) /\ loop[t] \in Walks /\ vk[t] \in Vertices
  BY <1>1 DEF SlotInv, SlotTypes, ScratchInv, ScratchTypes, Holds
<1>4. /\ h \in 0 .. K /\ h \in 0 .. K + 1 /\ h + 1 \in 0 .. K + 1
      /\ loop[t].i \in Nat \ {0} /\ loop[t].hubs \in SUBSET Vertices
      /\ loop[t].changed \in SUBSET Vertices
  BY <1>3, Sizes DEF Walks
<1>4a. Vh[s][h] \in Seq(Vertices) /\ Vh[s][h + 1] \in Seq(Vertices)
  <2>1. Vh \in [Slots -> [0 .. K + 1 -> Seq(Vertices)]]
    BY <1>3 DEF ScratchTypes
  <2> HIDE DEF s, h
  <2> QED BY ONLY <1>3, <1>4, <2>1
<1>5. u \in Vertices
  <2>1. Vh[s][h] \in Seq(Vertices)
    BY <1>4a
  <2>2. loop[t].i <= Len(Vh[s][h])
    BY <1>1, <1>3 DEF TaskScratch, AtVertex
  <2> QED BY <1>4, <2>1, <2>2 DEF Here
<1>6. new \in Labels
  <2>1. distHop[s][u] \in Dists
    BY <1>3, <1>5 DEF ScratchTypes
  <2>2. distHop[s][u].dist < Inf
    BY <1>1, <1>3 DEF TaskScratch
  <2>3. distHop[s][u].dist \in 0 .. Inf - 1 /\ distHop[s][u].par \in Vertices
    BY <2>1, <2>2, Sizes DEF Dists
  <2> HIDE DEF u, h, s
  <2> QED BY <1>3, <1>4, <2>3 DEF Labels
<1>7. Improved(s, u) \in SUBSET Vertices
  BY DEF Improved, Nbrs
<1>8. Offer(upd, s, u) \in Offers
  <2> DEFINE d(x) == distHop[s][u].dist + w[<<u, x>>]
             dom == DOMAIN upd \cup Improved(s, u)
             val(x) == IF x \in Improved(s, u) /\ (x \in DOMAIN upd => d(x) < upd[x].dist)
                       THEN [dist |-> d(x), par |-> u] ELSE upd[x]
  <2>1. PICK D \in SUBSET Vertices : upd \in [D -> Dists]
    BY <1>3 DEF Walks, Offers
  <2>2. \A x \in Improved(s, u) : d(x) \in 0 .. Inf
    <3> SUFFICES ASSUME NEW x \in Improved(s, u) PROVE d(x) \in 0 .. Inf
      OBVIOUS
    <3>1. x \in Vertices /\ d(x) < distHop[s][x].dist
      BY <1>7 DEF Improved
    <3>2. distHop[s][u].dist \in Nat /\ distHop[s][x].dist \in 0 .. Inf
      BY <1>3, <1>5, <3>1, Sizes DEF ScratchTypes, Dists
    <3>3. w[<<u, x>>] \in Nat
      <4>1. w \in [Vertices \X Vertices -> Nat]
        BY <1>3, CpuGraphAssumption DEF ScratchTypes
      <4>2. <<u, x>> \in Vertices \X Vertices
        BY <1>5, <3>1
      <4> QED BY <4>1, <4>2
    <3> QED BY <3>1, <3>2, <3>3, Sizes
  <2> HIDE DEF d, u, s, upd
  <2>3. \A x \in dom : val(x) \in Dists
    BY <1>5, <2>1, <2>2 DEF Dists
  <2>4. dom \in SUBSET Vertices
    BY <1>7, <2>1
  <2>5. Offer(upd, s, u) = [x \in dom |-> val(x)]
    BY DEF Offer, d
  <2> HIDE DEF dom, val
  <2>6. Offer(upd, s, u) \in [dom -> Dists]
    BY <2>3, <2>5
  <2> QED BY <2>4, <2>6 DEF Offers
<1>9. /\ next \in Walks /\ next.changed = loop[t].changed /\ next.hubs = loop[t].hubs
  <2> HIDE DEF h, u, s, upd
  <2> QED BY <1>4, <1>8 DEF Walk, Walks
<1>10. /\ loop' \in [Workers -> Walks]
       /\ loop'[t].changed = loop[t].changed /\ loop'[t].hubs = loop[t].hubs
       /\ \A x \in Workers \ {t} : loop'[x] = loop[x]
  <2> HIDE DEF next
  <2> QED BY <1>1, <1>3, <1>9 DEF ScratchTypes
<1>11. unmet \in Seq(Vertices)
  <2> DEFINE S == Improved(s, u) \ DOMAIN upd
  <2>1. S \in SUBSET Vertices
    BY <1>7
  <2> HIDE DEF S
  <2>2. Ordered(S, <) \in Seq(S)
    BY <2>1, OrderedVertices, Zenon
  <2>3. unmet = Ordered(S, <)
    BY Zenon DEF S
  <2>4. unmet \in Seq(S)
    BY <2>2, <2>3, Zenon
  <2> HIDE DEF unmet
  <2> QED BY <2>1, <2>4
<1> HIDE DEF unmet
<1>12. /\ Vh' \in [Slots -> [0 .. K + 1 -> Seq(Vertices)]]
       /\ \A x \in Slots \ {s} : Vh'[x] = Vh[x]
  <2>1. Vh[s][h + 1] \in Seq(Vertices)
    BY <1>4a
  <2>2. Vh[s][h + 1] \o unmet \in Seq(Vertices)
    BY ONLY <1>11, <2>1
  <2> QED BY <1>2, <1>3, <1>4, <2>2 DEF ScratchTypes
<1>13. /\ L' \in [Vertices -> Seq(Labels)] /\ Grows
  <2> HIDE DEF new, u
  <2>1. L[u] \in Seq(Labels)
    BY <1>3, <1>5 DEF ScratchTypes
  <2>2. /\ Append(L[u], new) \in Seq(Labels) /\ Len(L[u]) \in Nat
        /\ Len(Append(L[u], new)) = Len(L[u]) + 1
        /\ \A i \in 1 .. Len(L[u]) : Append(L[u], new)[i] = L[u][i]
    BY ONLY <1>6, <2>1
  <2>3. /\ L' \in [Vertices -> Seq(Labels)]
        /\ L'[u] = Append(L[u], new)
        /\ \A v \in Vertices \ {u} : L'[v] = L[v]
    BY <1>1, <1>3, <1>5, <2>2 DEF ScratchTypes
  <2>4. \A v \in Vertices : Len(L[v]) \in Nat
    BY <1>3 DEF ScratchTypes
  <2>5. ASSUME NEW v \in Vertices
        PROVE  Len(L[v]) <= Len(L'[v]) /\ \A i \in 1 .. Len(L[v]) : L'[v][i] = L[v][i]
    <3>1. CASE v = u
      BY ONLY <2>2, <2>3, <3>1
    <3>2. CASE v # u
      BY ONLY <2>3, <2>4, <2>5, <3>2
    <3> QED BY <3>1, <3>2
  <2> QED BY <2>3, <2>5 DEF Grows
<1>14. ScratchTypes'
  BY <1>1, <1>3, <1>10, <1>12, <1>13 DEF ScratchTypes
<1>15. \A x \in Workers \ {t} : pc'[x] = pc[x]
  BY <1>1, <1>3
<1>16. OthersKept(t)
  BY <1>1, <1>10, <1>13, <1>15 DEF OthersKept
<1>17. /\ snap[t] <= Len(L[vk[t]]) /\ CopyRight(t)
       /\ \A x \in Vertices \ loop[t].changed : distHop[s][x] = Unseen
  BY <1>1, <1>3 DEF TaskScratch
<1>18. Seen(t)' = Seen(t) /\ snap'[t] <= Len(L'[vk'[t]])
  <2>1. /\ snap[t] \in Nat /\ Len(L[vk[t]]) \in Nat /\ Len(L'[vk[t]]) \in Nat
    BY <1>3, <1>13 DEF ScratchTypes
  <2>2. /\ Len(L[vk[t]]) <= Len(L'[vk[t]])
        /\ \A i \in 1 .. Len(L[vk[t]]) : L'[vk[t]][i] = L[vk[t]][i]
    BY <1>3, <1>13 DEF Grows
  <2>3. vk' = vk /\ snap' = snap /\ snap[t] <= Len(L[vk[t]])
    BY <1>1, <1>17
  <2>4. \A i \in 1 .. snap[t] : L'[vk[t]][i] = L[vk[t]][i]
    BY ONLY <2>1, <2>2, <2>3
  <2>5. snap'[t] <= Len(L'[vk'[t]])
    BY ONLY <2>1, <2>2, <2>3
  <2> QED BY ONLY <2>3, <2>4, <2>5 DEF Seen
<1>19. CopyRight(t)'
  BY <1>1, <1>10, <1>17, <1>18 DEF CopyRight
<1>20. TaskScratch(t)'
  <2>1. pc'[t] = "walk"
    BY <1>1, <1>3
  <2> QED BY <1>1, <1>10, <1>17, <1>18, <1>19, <2>1 DEF TaskScratch
<1> QED BY <1>1, <1>3, <1>12, <1>14, <1>16, <1>20, WorkKeeps
-----------------------------------------------------------------------------
LEMMA StepScratch ==
  ASSUME SlotInv, TaskInv, ScratchInv, NEW t \in Workers, Step(t)
  PROVE  ScratchInv'
<1>1. tasks \in Seq(Vertices)
  BY DEF TaskInv
<1> QED
  BY <1>1, TakeTaskScratch, TakeSlotScratch, SnapshotScratch, TestScratch, PushScratch,
     NextHopScratch, ResetScratch, ReturnSlotScratch DEF Step

(* Labels leave only when no task holds a copy of them.                    *)
LEMMA CollectGroupScratch ==
  ASSUME SlotInv, TaskInv, ScratchInv, CollectGroup
  PROVE  ScratchInv'
<1>1. /\ L' = [v \in Vertices |-> <<>>]
      /\ UNCHANGED <<w, cpuType, pc, vk, used, loop, Qid, Temp, distHop, Vh, snap>>
  BY DEF CollectGroup
<1>2. \A t \in Workers : pc[t] = "idle"
  BY NoTaskLeft DEF Busy
<1>3. L' \in [Vertices -> Seq(Labels)]
  BY <1>1
<1>4. ScratchTypes'
  BY <1>1, <1>3 DEF ScratchInv, ScratchTypes
<1>5. \A i \in DOMAIN Qid' : Clean(Qid[i])'
  BY <1>1 DEF ScratchInv, Clean, FreshCopy, FreshRow
<1>6. \A t \in Workers : TaskScratch(t)'
  BY <1>1, <1>2 DEF TaskScratch
<1> QED BY <1>1, <1>4, <1>5, <1>6 DEF ScratchInv

(* The inductive invariant of the generator.                               *)
CpuInv == SlotInv /\ TaskInv /\ ScratchInv

(* Nothing moves but the loop of main, between two groups.                 *)
LEMMA CpuRests ==
  ASSUME CpuInv, gid' = gid \/ (driver = "enqueue" /\ gid' \in Nat \ {0}),
         UNCHANGED <<w, groups, cpuType, driver, tasks, finished, pc, vk, used, loop,
                     Qid, Temp, distHop, Vh, L, snap>>
  PROVE  CpuInv'
<1>1. SlotInv'
  BY DEF CpuInv, SlotInv, SlotTypes, SlotExclusive, SlotsKept, Holds
<1>2. TaskInv'
  BY DEF CpuInv, TaskInv, Busy
<1>3. \A t \in Workers : TaskScratch(t)'
  <2> SUFFICES ASSUME NEW t \in Workers PROVE TaskScratch(t)'
    OBVIOUS
  <2>1. TaskScratch(t)
    BY DEF CpuInv, ScratchInv
  <2>2. Seen(t)' = Seen(t) /\ FreshCopy' = FreshCopy
    BY DEF Seen, FreshCopy, FreshRow
  <2> QED BY <2>1, <2>2 DEF TaskScratch, Clean, CopyRight, AtVertex, Here
<1>4. \A i \in DOMAIN Qid' : Clean(Qid[i])'
  BY DEF CpuInv, ScratchInv, Clean, FreshCopy, FreshRow
<1>5. ScratchTypes'
  BY DEF CpuInv, ScratchInv, ScratchTypes
<1> QED BY <1>1, <1>2, <1>3, <1>4, <1>5 DEF CpuInv, ScratchInv

LEMMA CpuMoves ==
  ASSUME CpuInv, StartGroup \/ CollectGroup \/ \E t \in Workers : Step(t)
  PROVE  CpuInv'
<1>1. SlotInv /\ TaskInv /\ ScratchInv /\ pc \in [Workers -> PcStates]
  BY DEF CpuInv, SlotInv, SlotTypes
<1>2. SlotInv'
  BY <1>1, SlotNext DEF Next
<1>3. CASE StartGroup
  <2>1. TaskInv'
    BY <1>1, <1>3, StartGroupTasks
  <2>2. UNCHANGED <<w, cpuType, pc, vk, used, loop, Qid, Temp, distHop, Vh, L, snap>>
    BY <1>3 DEF StartGroup
  <2>3. \A t \in Workers : TaskScratch(t)'
    <3> SUFFICES ASSUME NEW t \in Workers PROVE TaskScratch(t)'
      OBVIOUS
    <3>1. TaskScratch(t)
      BY <1>1 DEF ScratchInv
    <3>2. Seen(t)' = Seen(t) /\ FreshCopy' = FreshCopy
      BY <2>2 DEF Seen, FreshCopy, FreshRow
    <3> QED BY <2>2, <3>1, <3>2 DEF TaskScratch, Clean, CopyRight, AtVertex, Here
  <2>4. \A i \in DOMAIN Qid' : Clean(Qid[i])'
    BY <1>1, <2>2 DEF ScratchInv, Clean, FreshCopy, FreshRow
  <2>5. ScratchTypes'
    BY <1>1, <2>2 DEF ScratchInv, ScratchTypes
  <2> QED BY <1>2, <2>1, <2>2, <2>3, <2>4, <2>5 DEF CpuInv, ScratchInv
<1>4. CASE CollectGroup
  BY <1>1, <1>2, <1>4, CollectGroupTasks, CollectGroupScratch DEF CpuInv
<1>5. ASSUME NEW t \in Workers, Step(t) PROVE CpuInv'
  BY <1>1, <1>2, <1>5, StepTasks, StepScratch DEF CpuInv
<1> QED BY <1>3, <1>4, <1>5

LEMMA CpuNext == CpuInv /\ [Next]_vars => CpuInv'
<1> SUFFICES ASSUME CpuInv, [Next]_vars PROVE CpuInv'
  OBVIOUS
<1>1. CASE StartGroup \/ CollectGroup \/ \E t \in Workers : Step(t)
  BY <1>1, CpuMoves
<1>2. CASE Done \/ UNCHANGED vars
  BY <1>2, CpuRests DEF Done, vars
<1> QED BY <1>1, <1>2 DEF Next

LEMMA CpuInit == Init => CpuInv
BY SlotInit, TaskInit, ScratchInit DEF CpuInv

LEMMA CleanSlots == ScratchInv => ScratchClean
BY DEF ScratchInv, Clean, ScratchClean

(* What the rows of a copy hold is the minimum the property speaks of.     *)
LEMMA CopyIsMin == ScratchInv => CopyIsPrefixMin
<1> SUFFICES ASSUME ScratchInv, NEW t \in Workers, pc[t] \in {"walk", "push", "reset"},
                    NEW m \in Vertices, NEW k \in 0 .. K
             PROVE  Best(used[t], m, k) =
                      Min({Inf} \cup {l.dist : l \in {L[vk[t]][i] : i \in {j \in 1 .. snap[t] :
                            L[vk[t]][j].hub = m /\ L[vk[t]][j].hop <= k}}})
  BY DEF CopyIsPrefixMin
<1> DEFINE A == {L[vk[t]][i] : i \in {j \in 1 .. snap[t] :
                            L[vk[t]][j].hub = m /\ L[vk[t]][j].hop <= k}}
           M == {Inf} \cup {l.dist : l \in A}
           s == used[t]
<1>1. CopyRight(t) /\ snap[t] <= Len(L[vk[t]]) /\ ScratchTypes
  BY DEF ScratchInv, TaskScratch
<1>2. A = {l \in Seen(t) : l.hub = m /\ l.hop <= k}
  BY DEF Seen
<1>3. Seen(t) \in SUBSET Labels
  <2>1. L[vk[t]] \in Seq(Labels) /\ Len(L[vk[t]]) \in Nat /\ snap[t] \in Nat
    BY <1>1 DEF ScratchTypes
  <2>2. \A i \in 1 .. snap[t] : L[vk[t]][i] \in Labels
    BY <1>1, <2>1
  <2> QED BY <2>2 DEF Seen
<1> HIDE DEF A
<1>4. CASE cpuType = 1
  <2> DEFINE P == {x \in Temp[s] : x.hub = m /\ x.hop <= k}
  <2>1. Temp[s] = {[hub |-> l.hub, hop |-> l.hop, dist |-> l.dist] : l \in Seen(t)}
    BY <1>1, <1>4 DEF CopyRight
  <2>2. P = {[hub |-> l.hub, hop |-> l.hop, dist |-> l.dist] : l \in A}
    BY <1>2, <2>1
  <2>3. {p.dist : p \in P} = {l.dist : l \in A}
    <3>1. \A p \in P : \E l \in A : p.dist = l.dist
      BY <2>2
    <3>2. \A l \in A : \E p \in P : p.dist = l.dist
      <4> TAKE l \in A
      <4>1. [hub |-> l.hub, hop |-> l.hop, dist |-> l.dist] \in P
        BY <2>2
      <4> HIDE DEF P
      <4> QED BY <4>1
    <3> HIDE DEF P
    <3> QED BY <3>1, <3>2
  <2>4. Best(s, m, k) = Min({Inf} \cup {p.dist : p \in P})
    BY <1>4 DEF Best
  <2> HIDE DEF P
  <2> QED BY <2>3, <2>4 DEF A
<1>5. CASE cpuType # 1
  <2>1. RowsOf(Temp[s], Seen(t)) /\ Best(s, m, k) = Temp[s][m][k]
    BY <1>1, <1>5 DEF CopyRight, Best
  <2> DEFINE best == Temp[s][m][k]
  <2>2. best \in 0 .. Inf
    BY <2>1 DEF RowsOf, Rows
  <2>3. best \in M
    BY <1>2, <2>1 DEF RowsOf
  <2>4. \A l \in A : best <= l.dist
    BY <1>2, <2>1 DEF RowsOf
  <2>5. \A x \in M : best <= x
    BY <2>2, <2>4, Sizes
  <2>6. M \subseteq Nat
    BY <1>2, <1>3, Sizes DEF Labels
  <2> HIDE DEF M, best
  <2>7. Min(M) \in M /\ \A x \in M : Min(M) <= x
    BY <2>3, <2>6, MinNatural
  <2>8. best = Min(M)
    <3>1. best \in Nat /\ Min(M) \in Nat /\ best <= Min(M) /\ Min(M) <= best
      BY <2>3, <2>5, <2>6, <2>7
    <3> QED BY <3>1
  <2> QED BY <2>1, <2>8 DEF M, A, best
<1> QED BY <1>4, <1>5

(* What the three parts say together - slots, the progress of each task,   *)
(* the content of each scratch set - holds in every reachable state.       *)
THEOREM CpuInvariance == Spec => []CpuInv
  BY CpuInit, CpuNext, PTL DEF Spec

(* A scratch set that waits in the queue is as good as new, whatever       *)
(* labels other tasks added to the vertex between the copy and the         *)
(* clearing.                                                               *)
THEOREM ScratchAlwaysClean == Spec => []ScratchClean
<1>1. CpuInv => ScratchClean
  BY CleanSlots DEF CpuInv
<1> QED BY <1>1, CpuInvariance, PTL

(* A walking task's copy answers exactly for the labels its vertex had at  *)
(* the snapshot, although its copying loop breaks off early.               *)
THEOREM CopyAlwaysPrefixMin == Spec => []CopyIsPrefixMin
<1>1. CpuInv => CopyIsPrefixMin
  BY CopyIsMin DEF CpuInv
<1> QED BY <1>1, CpuInvariance, PTL
----------------------------------------------------------------------------

Cores == [id : Nat, time : Nat, type : {0, 1}]

CoresKept ==
  /\ pqGen \subseteq Cores /\ IsFiniteSet(pqGen)
  /\ \A a, b \in pqGen : a.id = b.id => a = b

(* Between two groups no executor is ahead of another by more than a       *)
(* group; the one that has a group was the least of all when it took it.   *)
Close(S) == \A a, b \in S : a.time <= b.time + MaxTime
Least ==
  IF turn = NoTurn
  THEN pqGen # {} /\ Close(pqGen)
  ELSE /\ turn \in Cores
       /\ Close(pqGen \cup {turn})
       /\ \A a \in pqGen : a.id # turn.id /\ turn.time <= a.time

BalanceInv == CoresKept /\ Least

LEMMA BalanceInit == GenerationInit => BalanceInv
<1> SUFFICES ASSUME GenerationInit PROVE BalanceInv
  OBVIOUS
<1>1. PICK c \in CoreCounts :
        pqGen = {[id |-> i, time |-> 0, type |-> IF i < c[2] THEN 1 ELSE 0] :
                   i \in 0 .. c[1] + c[2] - 1}
  BY DEF GenerationInit
<1>2. c[1] \in Nat /\ c[2] \in Nat /\ c[1] + c[2] > 0 /\ MaxTime \in Nat
  BY CoreAssumption
<1> DEFINE ids == 0 .. c[1] + c[2] - 1
           core == [i \in ids |-> [id |-> i, time |-> 0, type |-> IF i < c[2] THEN 1 ELSE 0]]
<1>3. IsFiniteSet(ids)
  <2>1. 0 \in Int /\ c[1] + c[2] - 1 \in Int
    BY <1>2
  <2> QED BY <2>1, FS_Interval
<1>4. IsFiniteSet(pqGen)
  <2>1. pqGen = {core[i] : i \in ids}
    BY <1>1
  <2>2. core \in [ids -> pqGen] /\ \A x \in pqGen : \E i \in ids : core[i] = x
    BY <2>1
  <2> HIDE DEF ids, core
  <2>3. core \in Surjection(ids, pqGen)
    BY <2>2, Fun_IsSurj
  <2> QED BY <1>3, <2>3, FS_Surjection
<1>5. pqGen \subseteq Cores /\ \A a, b \in pqGen : a.id = b.id => a = b
  BY <1>1, <1>2 DEF Cores
<1>6. pqGen # {} /\ \A a \in pqGen : a.time = 0
  <2>1. 0 \in ids
    BY <1>2
  <2>2. core[0] \in pqGen
    BY <1>1, <2>1
  <2>3. \A a \in pqGen : a.time = 0
    BY <1>1
  <2> QED BY <2>2, <2>3, Zenon
<1>7. Least
  <2>1. turn = NoTurn
    BY DEF GenerationInit
  <2>2. Close(pqGen)
    BY <1>2, <1>6 DEF Close
  <2> QED BY <1>6, <2>1, <2>2 DEF Least
<1> QED BY <1>4, <1>5, <1>7 DEF BalanceInv, CoresKept

(* The queue has a top.                                                    *)
LEMMA TopExists ==
  ASSUME CoresKept, pqGen # {}
  PROVE  \E x \in pqGen : \A y \in pqGen \ {x} : Above(x, y)
<1> DEFINE F == {P \in SUBSET pqGen :
                   P # {} => \E x \in P : \A y \in P \ {x} : Above(x, y)}
<1>1. {} \in F
  OBVIOUS
<1>2. ASSUME NEW P \in SUBSET pqGen, NEW z \in pqGen, P \in F, z \notin P
      PROVE  P \cup {z} \in F
  <2>0. \A a \in pqGen : a.id \in Int /\ a.time \in Int
    BY DEF CoresKept, Cores
  <2>1. CASE P = {}
    BY <2>1
  <2>2. CASE P # {}
    <3>1. PICK x \in P : \A y \in P \ {x} : Above(x, y)
      BY <1>2, <2>2
    <3>2. x.id # z.id /\ x \in pqGen
      BY <1>2 DEF CoresKept
    <3>3. CASE Above(x, z)
      <4>1. \A y \in (P \cup {z}) \ {x} : Above(x, y)
        BY <3>1, <3>3
      <4> QED BY <4>1
    <3>4. CASE ~Above(x, z)
      <4>1. Above(z, x)
        BY <2>0, <3>2, <3>4 DEF Above
      <4>2. \A y \in P \ {x} : Above(z, y)
        BY <2>0, <3>1, <3>2, <4>1 DEF Above
      <4>3. \A y \in (P \cup {z}) \ {z} : Above(z, y)
        BY <4>1, <4>2
      <4> QED BY <4>3
    <3> QED BY <3>3, <3>4
  <2> QED BY <2>1, <2>2
<1>3. pqGen \in F
  <2> HIDE DEF F
  <2> QED BY <1>1, <1>2, OneByOne DEF CoresKept
<1> QED BY <1>3

LEMMA DispatchBalance ==
  ASSUME BalanceInv, Dispatch
  PROVE  BalanceInv'
<1>1. /\ turn = NoTurn /\ pqGen' = pqGen \ {turn'}
      /\ turn' = CHOOSE x \in pqGen : \A y \in pqGen \ {x} : Above(x, y)
  BY DEF Dispatch
<1>2. CoresKept /\ pqGen # {} /\ Close(pqGen)
  BY <1>1 DEF BalanceInv, Least
<1>3. turn' \in pqGen /\ \A y \in pqGen \ {turn'} : Above(turn', y)
  BY <1>1, <1>2, TopExists
<1>4. CoresKept'
  <2>1. IsFiniteSet(pqGen')
    BY <1>1, <1>2, <1>3, FS_RemoveElement DEF CoresKept
  <2> QED BY <1>1, <1>2, <2>1 DEF CoresKept
<1>5. turn' \in Cores /\ turn' # NoTurn
  BY <1>2, <1>3 DEF CoresKept, Cores, NoTurn
<1>6. pqGen' \cup {turn'} = pqGen
  BY <1>1, <1>3
<1>7. \A a \in pqGen' : a.id # turn'.id /\ turn'.time <= a.time
  BY <1>1, <1>2, <1>3 DEF CoresKept, Cores, Above
<1> QED BY <1>2, <1>4, <1>5, <1>6, <1>7 DEF BalanceInv, Least, Close

LEMMA GiveBackBalance ==
  ASSUME BalanceInv, turn # NoTurn, GiveBack
  PROVE  BalanceInv'
<1>0. CoresKept /\ Least
  BY DEF BalanceInv
<1>1. PICK d \in 1 .. MaxTime : pqGen' = pqGen \cup {[turn EXCEPT !.time = @ + d]}
  BY DEF GiveBack
<1>2. /\ turn \in Cores /\ turn' = NoTurn
      /\ \A a \in pqGen : a.id # turn.id /\ turn.time <= a.time
      /\ Close(pqGen \cup {turn})
  BY <1>0 DEF Least, GiveBack
<1> DEFINE back == [turn EXCEPT !.time = @ + d]
<1>3. back \in Cores /\ back.id = turn.id /\ back.time = turn.time + d
  <2>1. d \in Nat /\ turn.time \in Nat
    BY <1>2, CoreAssumption DEF Cores
  <2> QED BY <1>2, <2>1 DEF Cores
<1>4. pqGen' = pqGen \cup {back}
  BY <1>1
<1> HIDE DEF back
<1>5. CoresKept'
  <2>1. IsFiniteSet(pqGen')
    BY <1>0, <1>4, FS_AddElement DEF CoresKept
  <2> QED BY <1>0, <1>2, <1>3, <1>4, <2>1 DEF CoresKept
<1>6. ASSUME NEW a \in pqGen', NEW b \in pqGen' PROVE a.time <= b.time + MaxTime
  <2>1. /\ a.time \in Nat /\ b.time \in Nat /\ turn.time \in Nat
        /\ MaxTime \in Nat /\ d \in 1 .. MaxTime
    BY <1>2, <1>5, CoreAssumption DEF CoresKept, Cores
  <2>2. CASE a \in pqGen /\ b \in pqGen
    BY <1>2, <2>2 DEF Close
  <2>3. CASE a = back /\ b \in pqGen
    BY <1>2, <1>3, <2>1, <2>3
  <2>4. CASE a \in pqGen /\ b = back
    <3>1. a.time <= turn.time + MaxTime
      BY <1>2, <2>4 DEF Close
    <3> QED BY <1>3, <2>1, <2>4, <3>1
  <2>5. CASE a = back /\ b = back
    BY <2>1, <2>5
  <2> QED BY <1>4, <2>2, <2>3, <2>4, <2>5
<1>7. Least'
  BY <1>2, <1>4, <1>6 DEF Least, Close
<1> QED BY <1>5, <1>7 DEF BalanceInv

LEMMA BalanceStep ==
  ASSUME BalanceInv, [GenerationNext]_genVars
  PROVE  BalanceInv'
<1>1. CASE Dispatch
  BY <1>1, DispatchBalance
<1>2. CASE UNCHANGED <<pqGen, turn>>
  BY <1>2 DEF BalanceInv, CoresKept, Least, Close
<1>3. CASE turn # NoTurn /\ GiveBack
  BY <1>3, GiveBackBalance
<1>4. turn.type \in {0, 1} => turn # NoTurn
  BY DEF NoTurn
<1>5. CASE OnCpu
  BY <1>2, <1>3, <1>4, <1>5 DEF OnCpu
<1>6. CASE OnGpu
  BY <1>2, <1>3, <1>4, <1>6 DEF OnGpu
<1>7. CASE Convert \/ GenerationDone \/ UNCHANGED genVars
  <2>1. UNCHANGED <<pqGen, turn>>
    BY <1>7 DEF Convert, GenerationDone, genVars
  <2> QED BY <1>2, <2>1
<1> QED BY <1>1, <1>5, <1>6, <1>7 DEF GenerationNext

(* The README's claim on load balancing: between two groups no executor    *)
(* has worked longer than another by more than the time of one group,      *)
(* whatever the groups cost and however many executors there are.          *)
THEOREM AlwaysBalanced == GenerationSpec => []Balanced
<1>1. BalanceInv /\ [GenerationNext]_genVars => BalanceInv'
  BY BalanceStep
<1>2. BalanceInv => Balanced
  BY DEF BalanceInv, Least, Close, Balanced
<1> QED BY <1>1, <1>2, BalanceInit, PTL DEF GenerationSpec
----------------------------------------------------------------------------
(* What the generators share is the loop: a CPU group is waited for only   *)
(* by the CPU executor that has it, so that the groups the GPU takes pass  *)
(* between two groups of the pool's.                                       *)
TurnHeld == driver = "wait" => turn.type = 0
LoopInv == CpuInv /\ TurnHeld

(* A step of the GPU generator leaves the pool's data alone.               *)
LEMMA GpuLeaves ==
  ASSUME OnGpu
  PROVE  /\ UNCHANGED <<w, groups, cpuType, driver, tasks, finished, pc, vk, used, loop,
                        Qid, Temp, distHop, Vh, L, snap>>
         /\ gid' \in {gid, gid + 1}
         /\ turn' \in {turn, NoTurn} /\ turn.type = 1
<1>1. UNCHANGED cpuVars /\ turn.type = 1
  BY DEF OnGpu
<1>2. CASE GPU!StartGroup /\ UNCHANGED turn
  BY <1>1, <1>2 DEF GPU!StartGroup, cpuVars
<1>3. CASE GPU!Expand /\ UNCHANGED turn
  BY <1>1, <1>3 DEF GPU!Expand, cpuVars
<1>4. CASE GPU!Prune /\ UNCHANGED turn
  <2>1. UNCHANGED <<w, groups, gid>>
    BY <1>4, Zenon DEF GPU!Prune
  <2> QED BY <1>1, <1>4, <2>1 DEF cpuVars
<1>5. CASE GPU!UpdateHash /\ UNCHANGED turn
  BY <1>1, <1>5 DEF GPU!UpdateHash, cpuVars
<1>6. CASE GPU!FinishGroup /\ GiveBack
  BY <1>1, <1>6 DEF GPU!FinishGroup, GiveBack, cpuVars
<1> QED BY <1>2, <1>3, <1>4, <1>5, <1>6 DEF OnGpu

LEMMA LoopInit == GenerationInit => LoopInv
<1> SUFFICES ASSUME GenerationInit PROVE LoopInv
  OBVIOUS
<1>1. Init /\ driver = "enqueue"
  BY DEF GenerationInit, Init
<1> QED BY <1>1, CpuInit DEF LoopInv, TurnHeld

LEMMA LoopNext == LoopInv /\ [GenerationNext]_genVars => LoopInv'
<1> SUFFICES ASSUME LoopInv, [GenerationNext]_genVars PROVE LoopInv'
  OBVIOUS
<1>0. CpuInv /\ TurnHeld /\ gid \in Nat \ {0} /\ driver \in {"enqueue", "wait"}
  BY DEF LoopInv, CpuInv, TaskInv
<1>1. CASE Dispatch
  <2>1. UNCHANGED vars /\ turn = NoTurn
    BY <1>1 DEF Dispatch
  <2>2. CpuInv'
    BY <1>0, <2>1, CpuRests DEF vars
  <2> QED BY <1>0, <2>1, <2>2 DEF LoopInv, TurnHeld, NoTurn, vars
<1>2. CASE OnCpu
  <2>1. turn.type = 0 /\ CpuInv'
    BY <1>0, <1>2, CpuMoves DEF OnCpu
  <2>2. TurnHeld'
    <3>1. CASE UNCHANGED turn
      BY <2>1, <3>1 DEF TurnHeld
    <3>2. CASE CollectGroup
      BY <3>2 DEF CollectGroup, TurnHeld
    <3> QED BY <1>2, <3>1, <3>2 DEF OnCpu
  <2> QED BY <2>1, <2>2 DEF LoopInv
<1>3. CASE OnGpu
  <2>1. driver = "enqueue"
    BY <1>0, <1>3, GpuLeaves DEF TurnHeld
  <2>2. CpuInv'
    BY <1>0, <1>3, <2>1, GpuLeaves, CpuRests
  <2> QED BY <1>3, <2>1, <2>2, GpuLeaves DEF LoopInv, TurnHeld
<1>4. CASE Convert
  <2>1. UNCHANGED <<w, groups, gid>>
    BY <1>4, Zenon DEF Convert, GPU!Collect
  <2>2. UNCHANGED cpuVars /\ UNCHANGED turn
    BY <1>4, Zenon DEF Convert
  <2>3. CpuInv'
    BY <1>0, <2>1, <2>2, CpuRests DEF cpuVars
  <2> QED BY <1>0, <2>2, <2>3 DEF LoopInv, TurnHeld, cpuVars
<1>5. CASE GenerationDone \/ UNCHANGED genVars
  <2>1. UNCHANGED vars /\ UNCHANGED turn
    BY <1>5 DEF GenerationDone, genVars
  <2>2. CpuInv'
    BY <1>0, <2>1, CpuRests DEF vars
  <2> QED BY <1>0, <2>1, <2>2 DEF LoopInv, TurnHeld, vars
<1> QED BY <1>1, <1>2, <1>3, <1>4, <1>5 DEF GenerationNext

(* The invariant of the CPU generator is one of the whole loop.            *)
THEOREM LoopInvariance == GenerationSpec => []LoopInv
  BY LoopInit, LoopNext, PTL DEF GenerationSpec

(* Whoever has which group: no two tasks of the pool share Temp_L_vk,      *)
(* dist_hop or Vh, and no id is in use and in Qid_599 at once.             *)
THEOREM LoopSlotsExclusive == GenerationSpec => []SlotExclusive
<1>1. LoopInv => SlotExclusive
  BY DEF LoopInv, CpuInv, SlotInv
<1> QED BY <1>1, LoopInvariance, PTL

(* Qid_599.front() is never called on an empty queue.                      *)
THEOREM LoopSlotsSuffice == GenerationSpec => []SlotAvailable
<1>1. LoopInv => SlotAvailable
  BY SlotLeft DEF LoopInv, CpuInv
<1> QED BY <1>1, LoopInvariance, PTL

(* A scratch set in the queue is as new, over all groups of the run.       *)
THEOREM LoopScratchClean == GenerationSpec => []ScratchClean
<1>1. LoopInv => ScratchClean
  BY CleanSlots DEF LoopInv, CpuInv
<1> QED BY <1>1, LoopInvariance, PTL

(* A walking task's copy holds exactly the prefix minima of the labels its *)
(* vertex had at the snapshot, over all groups of the run.                 *)
THEOREM LoopCopyPrefixMin == GenerationSpec => []CopyIsPrefixMin
<1>1. LoopInv => CopyIsPrefixMin
  BY CopyIsMin DEF LoopInv, CpuInv
<1> QED BY <1>1, LoopInvariance, PTL
----------------------------------------------------------------------------
(***************************************************************************)
(* What the walks leave.  A task can lose a label only to a hub it has     *)
(* copied a label of, or that outranks its vertex: its blockers.  Labels   *)
(* no blocker can answer are met hop by hop, whatever labels other tasks   *)
(* append meanwhile, since none of them is below the distance.             *)
(***************************************************************************)
Blockers(t) == IF cpuType = 0 THEN 0 .. vk[t] - 1 ELSE loop[t].hubs
Needs(D, t, v, h) == Needed(D, Blockers(t), vk[t], v, h)
LabelIn(D, m, v, h) ==
  \E i \in DOMAIN L[v] : L[v][i].hub = m /\ L[v][i].hop = h /\ L[v][i].dist = D[h][<<m, v>>]

AtWork(t) == pc[t] \in {"walk", "push", "reset", "return"}
Started(m) == m \in finished \/ \E t \in Workers : AtWork(t) /\ vk[t] = m

(* No label is below the distance, and each is of a task that has begun.   *)
LabelRight(D, v, l) ==
  /\ SoundLabel(D, l, v)
  /\ Started(l.hub)
  /\ cpuType = 0 => l.hub <= v
LabelsRight(D) == \A v \in Vertices : \A i \in DOMAIN L[v] : LabelRight(D, v, L[v][i])

Frontier(t) == Vh[used[t]][loop[t].h]
NextFrontier(t) == Vh[used[t]][loop[t].h + 1]

(* The walk knows no distance that is too small, and offers none.          *)
Careful(D, t) ==
  /\ \A x \in Vertices : D[loop[t].h][<<vk[t], x>>] <= distHop[used[t]][x].dist
  /\ \A x \in DOMAIN loop[t].upd :
       /\ \E j \in DOMAIN NextFrontier(t) : NextFrontier(t)[j] = x
       /\ loop[t].h < K => D[loop[t].h + 1][<<vk[t], x>>] <= loop[t].upd[x].dist

(* Every vertex a needed label of this hop belongs to is in the frontier,  *)
(* with its distance.                                                      *)
Ready(D, t) ==
  \A v \in Vertices : Needs(D, t, v, loop[t].h) =>
    /\ distHop[used[t]][v].dist = D[loop[t].h][<<vk[t], v>>]
    /\ \E j \in DOMAIN Frontier(t) : Frontier(t)[j] = v

(* Those the walk has passed have their labels and have made their offers. *)
Offered(D, t, y) ==
  \A x \in Vertices :
    Needs(D, t, x, loop[t].h + 1) /\ Leads(w, D, Blockers(t), vk[t], y, x, loop[t].h + 1) =>
      x \in DOMAIN loop[t].upd /\ loop[t].upd[x].dist <= D[loop[t].h + 1][<<vk[t], x>>]
Passed(D, t) ==
  \A j \in DOMAIN Frontier(t) :
    j < loop[t].i /\ Needs(D, t, Frontier(t)[j], loop[t].h) =>
      /\ LabelIn(D, vk[t], Frontier(t)[j], loop[t].h)
      /\ loop[t].h < K => Offered(D, t, Frontier(t)[j])

(* The hops before h are behind the walk.                                  *)
Left(D, t, h) ==
  \A g \in 0 .. K, v \in Vertices : g < h /\ Needs(D, t, v, g) => LabelIn(D, vk[t], v, g)

WalkRight(D, t) ==
  /\ \A l \in Seen(t) : l.hub \in Blockers(t)
  /\ Careful(D, t) /\ Ready(D, t) /\ Passed(D, t) /\ Left(D, t, loop[t].h)

TaskRight(D, t) ==
  /\ pc[t] \in {"walk", "push"} => WalkRight(D, t)
  /\ pc[t] = "push" /\ cpuType = 0 => vk[t] <= Here(t)
  /\ pc[t] \in {"reset", "return"} => Left(D, t, K + 1)

(* With rank pruning a finished task has left its canonical labels.        *)
RankKept(D) ==
  \A m \in finished, v \in Vertices, h \in 0 .. K :
    Needed(D, 0 .. m - 1, m, v, h) => LabelIn(D, m, v, h)

(* Without it the task of any set of vertices that copied first has no     *)
(* blocker in the set.                                                     *)
FirstOf(D, M, c) ==
  \/ c \in finished /\ \A v \in Vertices, h \in 0 .. K :
                         Needed(D, Vertices \ M, c, v, h) => LabelIn(D, c, v, h)
  \/ \E t \in Workers : AtWork(t) /\ vk[t] = c /\ Blockers(t) \cap M = {}
FirstKept(D) ==
  \A M \in SUBSET Vertices :
    (\E m \in M : Started(m)) => \E c \in M : FirstOf(D, M, c)

KeptInv(D) ==
  /\ LabelsRight(D)
  /\ \A t \in Workers : TaskRight(D, t)
  /\ cpuType = 0 => RankKept(D)
  /\ cpuType = 1 => FirstKept(D)
----------------------------------------------------------------------------
LEMMA CpuGraphIs == \A g \in Graphs : Undirected(g)
BY CpuGraphAssumption DEF Undirected

LEMMA KeptInit == Init => \A D : KeptInv(D)
<1> SUFFICES ASSUME Init, NEW D PROVE KeptInv(D)
  OBVIOUS
<1>1. /\ finished = {} /\ pc = [t \in Workers |-> "idle"] /\ L = [v \in Vertices |-> <<>>]
  BY DEF Init
<1>2. \A v \in Vertices : DOMAIN L[v] = {}
  BY <1>1
<1>3. \A m : ~Started(m)
  BY <1>1 DEF Started, AtWork
<1> QED BY <1>1, <1>2, <1>3 DEF KeptInv, LabelsRight, TaskRight, RankKept, FirstKept

(* What a task's copy answers is a label it has seen.                      *)
LEMMA BestIsSeen ==
  ASSUME ScratchTypes, NEW t \in Workers, CopyRight(t), snap[t] <= Len(L[vk[t]]),
         NEW m \in Vertices, NEW k \in 0 .. K
  PROVE  \/ Best(used[t], m, k) = Inf
         \/ \E p \in Seen(t) : p.hub = m /\ p.hop <= k /\ Best(used[t], m, k) = p.dist
<1> DEFINE s == used[t]
<1>1. Seen(t) \in SUBSET Labels
  <2>1. L[vk[t]] \in Seq(Labels) /\ Len(L[vk[t]]) \in Nat /\ snap[t] \in Nat
    BY DEF ScratchTypes
  <2>2. \A i \in 1 .. snap[t] : L[vk[t]][i] \in Labels
    BY <2>1
  <2> QED BY <2>2 DEF Seen
<1>2. CASE cpuType = 1
  <2> DEFINE P == {x \in Temp[s] : x.hub = m /\ x.hop <= k}
             S == {Inf} \cup {p.dist : p \in P}
  <2>1. Temp[s] = {[hub |-> l.hub, hop |-> l.hop, dist |-> l.dist] : l \in Seen(t)}
    BY <1>2 DEF CopyRight
  <2>2. \A p \in P : \E l \in Seen(t) : l.hub = m /\ l.hop <= k /\ p.dist = l.dist
    BY <2>1
  <2>3. S \subseteq Nat /\ S # {}
    <3>1. \A l \in Seen(t) : l.dist \in Nat
      BY <1>1, Sizes DEF Labels
    <3> HIDE DEF P
    <3> QED BY <2>2, <3>1, Sizes
  <2>4. Min(S) \in S
    <3> HIDE DEF S
    <3> QED BY <2>3, MinNatural
  <2>5. Best(s, m, k) = Min(S)
    BY <1>2 DEF Best
  <2> HIDE DEF P
  <2> QED BY <2>2, <2>4, <2>5
<1>3. CASE cpuType # 1
  BY <1>3 DEF CopyRight, RowsOf, Best
<1> QED BY <1>2, <1>3

(* Whatever labels have appeared, the query does not answer a label that   *)
(* no blocker can answer.                                                  *)
LEMMA QueryMisses ==
  ASSUME ScratchTypes, NEW D, D = HopDist(w), LabelsRight(D), NEW t \in Workers,
         CopyRight(t), snap[t] <= Len(L[vk[t]]), \A l \in Seen(t) : l.hub \in Blockers(t),
         NEW u \in Vertices, NEW h \in 0 .. K, Needs(D, t, u, h)
  PROVE  D[h][<<vk[t], u>>] < Query(used[t], u, h)
<1> DEFINE s == used[t]
           m == vk[t]
           meet == {l.dist + Best(s, l.hub, h - l.hop) :
                      l \in {x \in ToSet(L[u]) : x.hop <= h}}
           S == {Inf} \cup meet
           d == D[h][<<m, u>>]
<1>0. /\ Undirected(w) /\ m \in Vertices /\ L[u] \in Seq(Labels) /\ L[m] \in Seq(Labels)
      /\ snap[t] \in Nat /\ K \in Nat /\ Inf \in Nat
  BY CpuGraphIs, Sizes DEF ScratchTypes
<1>1. \A n \in 0 .. K : \A a, b \in Vertices : D[n][<<a, b>>] \in Nat /\ D[n][<<a, b>>] <= Inf
  BY <1>0, DistSteps
<1>2. /\ d \in Nat /\ d < Inf /\ \A x \in Blockers(t) : ~Between(D, x, m, u, h)
  BY <1>0, <1>1 DEF Needs, Needed
<1>3. \A l \in ToSet(L[u]) : SoundLabel(D, l, u) /\ l \in Labels
  BY <1>0 DEF ToSet, LabelsRight, LabelRight
<1>4. \A p \in Seen(t) : SoundLabel(D, p, m) /\ p \in Labels
  BY <1>0 DEF Seen, LabelsRight, LabelRight
<1>5. ASSUME NEW l \in ToSet(L[u]), l.hop <= h
      PROVE  l.dist + Best(s, l.hub, h - l.hop) \in Nat /\ d < l.dist + Best(s, l.hub, h - l.hop)
  <2> DEFINE x == l.hub
             i == h - l.hop
             best == Best(s, x, i)
  <2>0. x \in Vertices /\ l.hop \in 0 .. K /\ l.dist \in Nat /\ D[l.hop][<<x, u>>] <= l.dist
    BY <1>3 DEF SoundLabel
  <2>1. /\ x \in Vertices /\ l.hop \in 0 .. K /\ l.dist \in Nat /\ D[l.hop][<<x, u>>] <= l.dist
        /\ i \in 0 .. K /\ i \in 0 .. h /\ h - i = l.hop
    BY <1>0, <1>5, <2>0
  <2> HIDE DEF x, i
  <2>2. best = Inf \/ \E p \in Seen(t) : p.hub = x /\ p.hop <= i /\ best = p.dist
    BY <2>1, BestIsSeen
  <2>3. CASE best = Inf
    <3> HIDE DEF best, d
    <3> QED BY <1>0, <1>2, <2>1, <2>3 DEF x, i, best
  <2>4. ASSUME NEW p \in Seen(t), p.hub = x, p.hop <= i, best = p.dist
        PROVE  l.dist + best \in Nat /\ d < l.dist + best
    <3>1. p.hop \in 0 .. K /\ p.dist \in Nat /\ D[p.hop][<<x, m>>] <= p.dist
      BY <1>4, <2>4 DEF SoundLabel
    <3>2. D[i][<<x, m>>] <= D[p.hop][<<x, m>>]
      BY <1>0, <2>1, <2>4, <3>1, DistMonotone
    <3>3. D[i][<<x, m>>] = D[i][<<m, x>>]
      BY <1>0, <2>1, DistSymmetric
    <3>4. x \in Blockers(t)
      BY <2>4
    <3>5. ~(D[i][<<m, x>>] + D[h - i][<<x, u>>] <= d)
      BY <1>2, <2>1, <3>4 DEF Between
    <3>6. D[i][<<x, m>>] \in Nat /\ D[p.hop][<<x, m>>] \in Nat /\ D[h - i][<<x, u>>] \in Nat
      BY <1>0, <1>1, <2>1, <3>1
    <3>7. p.dist = best /\ best \in Nat /\ l.dist \in Nat /\ d \in Nat
      BY <1>2, <2>1, <2>4, <3>1
    <3>8. D[h - i][<<x, u>>] <= l.dist
      BY <2>1
    <3> HIDE DEF d, best, m
    <3> QED BY ONLY <3>1, <3>2, <3>3, <3>5, <3>6, <3>7, <3>8
  <2> QED BY <2>2, <2>3, <2>4 DEF x, i
<1>6. S \subseteq Nat /\ S # {} /\ \A y \in S : d < y
  BY <1>0, <1>2, <1>5
<1>7. Min(S) \in S
  <2> HIDE DEF S
  <2> QED BY <1>6, MinNatural
<1>8. Query(s, u, h) = Min(S)
  BY DEF Query
<1> HIDE DEF S
<1> QED BY <1>6, <1>7, <1>8
----------------------------------------------------------------------------
(* What a step of a task leaves alone: the graph, labels already there,    *)
(* and the data of the other tasks.                                        *)
Frame(t) ==
  /\ UNCHANGED <<w, cpuType>> /\ Grows
  /\ \A u \in Workers \ {t} :
       /\ pc'[u] = pc[u] /\ vk'[u] = vk[u] /\ used'[u] = used[u]
       /\ loop'[u] = loop[u] /\ snap'[u] = snap[u]
       /\ Holds(u) => Untouched(u)

LEMMA FrameOf ==
  ASSUME SlotInv, NEW t \in Workers, OthersKept(t), UNCHANGED w, Holds(t),
         \A s \in Slots \ {used[t]} :
           Temp'[s] = Temp[s] /\ distHop'[s] = distHop[s] /\ Vh'[s] = Vh[s],
         UNCHANGED used
  PROVE  Frame(t)
<1>1. ASSUME NEW u \in Workers \ {t}, Holds(u) PROVE Untouched(u)
  <2>1. used[u] \in Slots \ {used[t]}
    BY <1>1 DEF SlotInv, SlotTypes, SlotExclusive
  <2> QED BY <2>1 DEF Untouched, OthersKept
<1> QED BY <1>1 DEF Frame, OthersKept

LEMMA SameLabels ==
  ASSUME ScratchTypes, UNCHANGED L
  PROVE  Grows
BY DEF Grows, ScratchTypes

LEMMA StepFrame ==
  ASSUME SlotInv, ScratchInv, ScratchInv', NEW t \in Workers, Step(t)
  PROVE  Frame(t)
<1>1. /\ ScratchTypes /\ ScratchTypes' /\ pc \in [Workers -> PcStates]
      /\ used \in [Workers -> Slots]
  BY DEF ScratchInv, SlotInv, SlotTypes
<1>2. UNCHANGED <<w, cpuType>>
  BY DEF Step, TakeTask, TakeSlot, Snapshot, Test, Push, NextHop, Reset, ReturnSlot, main
<1>3. CASE TakeTask(t) \/ TakeSlot(t) \/ ReturnSlot(t)
  <2>1. UNCHANGED <<Temp, distHop, Vh, L, snap>>
    BY <1>3 DEF TakeTask, TakeSlot, ReturnSlot
  <2>2. \A u \in Workers \ {t} : /\ pc'[u] = pc[u] /\ vk'[u] = vk[u] /\ used'[u] = used[u]
                                 /\ loop'[u] = loop[u]
    BY <1>1, <1>3 DEF TakeTask, TakeSlot, ReturnSlot, ScratchTypes
  <2>3. Grows
    BY <1>1, <2>1, SameLabels
  <2> QED BY <1>2, <2>1, <2>2, <2>3 DEF Frame, Untouched
<1>4. CASE Snapshot(t) \/ Test(t) \/ NextHop(t) \/ Reset(t)
  <2>1. /\ UNCHANGED <<used, L, vk>> /\ Holds(t)
    BY <1>4 DEF Snapshot, Test, NextHop, Reset, Holds
  <2>2. Grows
    BY <1>1, <2>1, SameLabels
  <2>3. \A u \in Workers \ {t} : /\ pc'[u] = pc[u] /\ loop'[u] = loop[u] /\ snap'[u] = snap[u]
    <3>1. CASE Snapshot(t)
      <4>1. \E x, y : loop' = [loop EXCEPT ![t] = x] /\ snap' = [snap EXCEPT ![t] = y]
        BY <3>1 DEF Snapshot
      <4>2. pc' = [pc EXCEPT ![t] = "walk"]
        BY <3>1 DEF Snapshot
      <4> QED BY <1>1, <4>1, <4>2 DEF ScratchTypes
    <3>2. CASE Test(t)
      BY <1>1, <3>2 DEF Test, ScratchTypes
    <3>3. CASE NextHop(t)
      <4>1. /\ pc' = [pc EXCEPT ![t] = "reset"] \/ pc' = pc
            /\ (\E x : loop' = [loop EXCEPT ![t] = x]) \/ loop' = loop
            /\ snap' = snap
        BY <3>3 DEF NextHop
      <4> QED BY <1>1, <4>1 DEF ScratchTypes
    <3>4. CASE Reset(t)
      BY <1>1, <3>4 DEF Reset
    <3> QED BY <1>4, <3>1, <3>2, <3>3, <3>4
  <2>4. \A s \in Slots \ {used[t]} :
          Temp'[s] = Temp[s] /\ distHop'[s] = distHop[s] /\ Vh'[s] = Vh[s]
    <3>1. /\ (\E x : Temp' = [Temp EXCEPT ![used[t]] = x]) \/ Temp' = Temp
          /\ (\E x : Vh' = [Vh EXCEPT ![used[t]] = x]) \/ Vh' = Vh
          /\ (\E x : distHop' = [distHop EXCEPT ![used[t]] = x]) \/ distHop' = distHop
      <4>1. CASE Snapshot(t)
        BY <4>1 DEF Snapshot
      <4>2. CASE Test(t)
        BY <4>2 DEF Test
      <4>3. CASE NextHop(t)
        BY <4>3 DEF NextHop
      <4>4. CASE Reset(t)
        BY <4>4 DEF Reset
      <4> QED BY <1>4, <4>1, <4>2, <4>3, <4>4
    <3> QED BY <1>1, <3>1 DEF ScratchTypes
  <2>5. OthersKept(t)
    BY <1>2, <2>1, <2>2, <2>3 DEF OthersKept
  <2> QED BY <1>2, <2>1, <2>4, <2>5, FrameOf
<1>5. CASE Push(t)
  <2>1. /\ UNCHANGED <<used, vk, Temp, distHop, snap>> /\ Holds(t)
        /\ pc' = [pc EXCEPT ![t] = "walk"]
    BY <1>5 DEF Push, Holds
  <2>2. /\ \E x : loop' = [loop EXCEPT ![t] = x]
        /\ \E x : L' = [L EXCEPT ![Here(t)] = Append(L[Here(t)], x)]
    BY <1>5 DEF Push
  <2>3. \E x, y : Vh' = [Vh EXCEPT ![used[t]][x] = y]
    BY <1>5, Zenon DEF Push
  <2>4. Grows
    <3> SUFFICES ASSUME NEW v \in Vertices
                 PROVE  /\ Len(L[v]) <= Len(L'[v])
                        /\ \A i \in 1 .. Len(L[v]) : L'[v][i] = L[v][i]
      BY DEF Grows
    <3>1. L[v] \in Seq(Labels) /\ Len(L[v]) \in Nat
      BY <1>1 DEF ScratchTypes
    <3>2. L'[v] = L[v] \/ \E x : L'[v] = Append(L[v], x)
      BY <1>1, <2>2 DEF ScratchTypes
    <3>3. CASE L'[v] = L[v]
      BY <3>1, <3>3
    <3>4. ASSUME NEW x, L'[v] = Append(L[v], x)
          PROVE  /\ Len(L[v]) <= Len(L'[v])
                 /\ \A i \in 1 .. Len(L[v]) : L'[v][i] = L[v][i]
      BY <3>1, <3>4
    <3> QED BY <3>2, <3>3, <3>4
  <2>5. OthersKept(t)
    BY <1>1, <1>2, <2>1, <2>2, <2>4 DEF OthersKept, ScratchTypes
  <2>6. \A s \in Slots \ {used[t]} : Vh'[s] = Vh[s]
    BY <1>1, <2>3 DEF ScratchTypes
  <2> QED BY <1>2, <2>1, <2>5, <2>6, FrameOf
<1> QED BY <1>3, <1>4, <1>5 DEF Step

(* Labels stay where they are.                                             *)
LEMMA LabelStays ==
  ASSUME ScratchTypes, ScratchTypes', Grows, NEW D, NEW m, NEW v \in Vertices, NEW h,
         LabelIn(D, m, v, h)
  PROVE  LabelIn(D, m, v, h)'
<1>1. PICK i \in DOMAIN L[v] : L[v][i].hub = m /\ L[v][i].hop = h /\ L[v][i].dist = D[h][<<m, v>>]
  BY DEF LabelIn
<1>2. L[v] \in Seq(Labels) /\ L'[v] \in Seq(Labels)
  BY DEF ScratchTypes
<1>3. i \in DOMAIN L'[v] /\ L'[v][i] = L[v][i]
  BY <1>2 DEF Grows
<1> QED BY <1>1, <1>3 DEF LabelIn

(* So the hops behind a walk stay behind it.                               *)
LEMMA LeftKept ==
  ASSUME ScratchTypes, ScratchTypes', Grows, UNCHANGED cpuType, NEW D, NEW t \in Workers,
         vk'[t] = vk[t], loop'[t].hubs = loop[t].hubs
  PROVE  /\ Blockers(t)' = Blockers(t)
         /\ \A v, h : Needs(D, t, v, h)' <=> Needs(D, t, v, h)
         /\ \A v \in Vertices : \A h : LabelIn(D, vk[t], v, h) => LabelIn(D, vk[t], v, h)'
         /\ \A h \in Int : Left(D, t, h) => Left(D, t, h)'
<1>1. vk[t] \in Vertices
  BY DEF ScratchTypes
<1>2. Blockers(t)' = Blockers(t)
  BY DEF Blockers
<1>3. \A v, h : Needs(D, t, v, h)' <=> Needs(D, t, v, h)
  BY <1>2 DEF Needs
<1>4. \A v \in Vertices : \A h : LabelIn(D, vk[t], v, h) => LabelIn(D, vk[t], v, h)'
  <2> SUFFICES ASSUME NEW v \in Vertices, NEW h, LabelIn(D, vk[t], v, h)
               PROVE  LabelIn(D, vk[t], v, h)'
    OBVIOUS
  <2>1. PICK i \in DOMAIN L[v] :
          L[v][i].hub = vk[t] /\ L[v][i].hop = h /\ L[v][i].dist = D[h][<<vk[t], v>>]
    BY DEF LabelIn
  <2>2. L[v] \in Seq(Labels) /\ L'[v] \in Seq(Labels)
    BY DEF ScratchTypes
  <2>3. i \in DOMAIN L'[v] /\ L'[v][i] = L[v][i]
    BY <2>2 DEF Grows
  <2> QED BY <2>1, <2>3 DEF LabelIn
<1>5. \A h \in Int : Left(D, t, h) => Left(D, t, h)'
  <2> SUFFICES ASSUME NEW h \in Int, Left(D, t, h) PROVE Left(D, t, h)'
    OBVIOUS
  <2> SUFFICES ASSUME NEW g \in 0 .. K, NEW v \in Vertices, g < h, Needs(D, t, v, g)'
               PROVE  LabelIn(D, vk[t], v, g)'
    BY DEF Left
  <2> QED BY <1>3, <1>4 DEF Left
<1> QED BY <1>2, <1>3, <1>4, <1>5

(* The rows of the distances, for the graph at hand.                       *)
LEMMA Dists0 ==
  ASSUME ScratchTypes, NEW D, D = HopDist(w)
  PROVE  /\ Undirected(w)
         /\ \A n \in 0 .. K : \A a, b \in Vertices : D[n][<<a, b>>] \in Nat /\ D[n][<<a, b>>] <= Inf
         /\ \A a, b \in Vertices : D[0][<<a, b>>] = IF a = b THEN 0 ELSE Inf
BY CpuGraphIs, DistSteps DEF ScratchTypes

(* What a walk's own frontier is made of.                                  *)
LEMMA FrontierTypes ==
  ASSUME SlotInv, ScratchTypes, NEW t \in Workers
  PROVE  /\ loop[t].h \in 0 .. K /\ loop[t].i \in Nat \ {0} /\ vk[t] \in Vertices
         /\ used[t] \in Slots
         /\ Frontier(t) \in Seq(Vertices) /\ NextFrontier(t) \in Seq(Vertices)
         /\ \A x \in Vertices : distHop[used[t]][x].dist \in Nat
         /\ Blockers(t) \subseteq Vertices
<1>1. /\ loop[t].h \in 0 .. K /\ loop[t].i \in Nat \ {0} /\ vk[t] \in Vertices
      /\ used[t] \in Slots /\ loop[t].hubs \subseteq Vertices
  BY DEF SlotInv, SlotTypes, ScratchTypes, Walks
<1>2. loop[t].h \in 0 .. K + 1 /\ loop[t].h + 1 \in 0 .. K + 1 /\ K \in Nat
  BY <1>1, Sizes
<1>3. Vh \in [Slots -> [0 .. K + 1 -> Seq(Vertices)]]
  BY DEF ScratchTypes
<1>4. Frontier(t) \in Seq(Vertices) /\ NextFrontier(t) \in Seq(Vertices)
  BY ONLY <1>1, <1>2, <1>3 DEF Frontier, NextFrontier
<1>5. \A x \in Vertices : distHop[used[t]][x].dist \in Nat
  BY <1>1, Sizes DEF ScratchTypes, Dists
<1>6. 0 .. vk[t] - 1 \subseteq Vertices
  BY <1>1, Sizes DEF Vertices
<1> QED BY <1>1, <1>4, <1>5, <1>6 DEF Blockers

LEMMA OffersTypes ==
  ASSUME ScratchTypes, NEW t \in Workers
  PROVE  /\ DOMAIN loop[t].upd \subseteq Vertices
         /\ \A x \in DOMAIN loop[t].upd : loop[t].upd[x].dist \in Nat
<1>1. loop[t].upd \in Offers
  BY DEF ScratchTypes, Walks
<1> QED BY <1>1, Sizes DEF Offers, Dists

(* What a walk has passed it has left, and no offer gets worse.            *)
LEMMA PassedKept ==
  ASSUME SlotInv, ScratchTypes, ScratchTypes', Grows, UNCHANGED <<w, cpuType>>,
         NEW D, D = HopDist(w), NEW t \in Workers, vk'[t] = vk[t],
         loop'[t].hubs = loop[t].hubs, loop'[t].h = loop[t].h, Frontier(t)' = Frontier(t),
         \A x \in DOMAIN loop[t].upd :
           x \in DOMAIN loop'[t].upd /\ loop'[t].upd[x].dist <= loop[t].upd[x].dist,
         Passed(D, t)
  PROVE  \A j \in DOMAIN Frontier(t) :
           j < loop[t].i /\ Needs(D, t, Frontier(t)[j], loop[t].h) =>
             /\ LabelIn(D, vk[t], Frontier(t)[j], loop[t].h)'
             /\ loop[t].h < K => Offered(D, t, Frontier(t)[j])'
<1>1. \A j \in DOMAIN Frontier(t) : Frontier(t)[j] \in Vertices
  <2>1. Frontier(t) \in Seq(Vertices)
    BY FrontierTypes
  <2> QED BY <2>1
<1>2. /\ Blockers(t)' = Blockers(t)
      /\ \A v, h : Needs(D, t, v, h)' <=> Needs(D, t, v, h)
      /\ \A v \in Vertices : \A h : LabelIn(D, vk[t], v, h) => LabelIn(D, vk[t], v, h)'
  BY LeftKept
<1>3. ASSUME loop[t].h < K, NEW y \in Vertices, Offered(D, t, y)
      PROVE  Offered(D, t, y)'
  <2>0. loop[t].h + 1 \in 0 .. K /\ vk[t] \in Vertices
    BY <1>3, Sizes, FrontierTypes
  <2>1. PICK n \in 0 .. K : n = loop[t].h + 1 /\ n = loop'[t].h + 1
    BY <2>0
  <2>2. ASSUME NEW x \in Vertices, Needs(D, t, x, n), Leads(w, D, Blockers(t), vk[t], y, x, n)
        PROVE  x \in DOMAIN loop'[t].upd /\ loop'[t].upd[x].dist <= D[n][<<vk[t], x>>]
    <3>1. x \in DOMAIN loop[t].upd /\ loop[t].upd[x].dist <= D[n][<<vk[t], x>>]
      BY <1>3, <2>1, <2>2 DEF Offered
    <3>2. x \in DOMAIN loop'[t].upd /\ loop'[t].upd[x].dist <= loop[t].upd[x].dist
      BY <3>1
    <3>3. loop[t].upd[x].dist \in Nat /\ loop'[t].upd[x].dist \in Nat
      <4>1. \A z \in DOMAIN loop'[t].upd : loop'[t].upd[z].dist \in Nat
        <5>1. loop'[t].upd \in Offers
          BY DEF ScratchTypes, Walks
        <5> QED BY <5>1, Sizes DEF Offers, Dists
      <4> QED BY <3>1, <3>2, <4>1, OffersTypes
    <3>4. D[n][<<vk[t], x>>] \in Nat
      BY <2>0, Dists0
    <3> QED BY <3>1, <3>2, <3>3, <3>4
  <2>3. \A x \in Vertices : Needs(D, t, x, n)' /\ Leads(w, D, Blockers(t), vk[t], y, x, n)' =>
                            x \in DOMAIN loop'[t].upd /\ loop'[t].upd[x].dist <= D[n][<<vk[t], x>>]
    <3> SUFFICES ASSUME NEW x \in Vertices, Needs(D, t, x, n)',
                        Leads(w, D, Blockers(t), vk[t], y, x, n)'
                 PROVE  Needs(D, t, x, n) /\ Leads(w, D, Blockers(t), vk[t], y, x, n)
      BY <2>2
    <3> QED BY <1>2
  <2> QED BY <2>1, <2>3 DEF Offered
<1> SUFFICES ASSUME NEW j \in DOMAIN Frontier(t), j < loop[t].i,
                    Needs(D, t, Frontier(t)[j], loop[t].h)
             PROVE  /\ LabelIn(D, vk[t], Frontier(t)[j], loop[t].h)'
                    /\ loop[t].h < K => Offered(D, t, Frontier(t)[j])'
  OBVIOUS
<1>4. /\ LabelIn(D, vk[t], Frontier(t)[j], loop[t].h)
      /\ loop[t].h < K => Offered(D, t, Frontier(t)[j])
  BY DEF Passed
<1> SUFFICES ASSUME NEW y \in Vertices, y = Frontier(t)[j], NEW n, n = loop[t].h
             PROVE  LabelIn(D, vk[t], y, n)' /\ (n < K => Offered(D, t, y)')
  BY <1>1
<1> QED BY <1>2, <1>3, <1>4

(* A walk that keeps its hop and its distances goes on.                    *)
LEMMA WalkKept ==
  ASSUME SlotInv, ScratchInv, ScratchTypes', Grows, UNCHANGED <<w, cpuType>>,
         NEW D, D = HopDist(w), NEW t \in Workers, pc[t] \in {"walk", "push"}, WalkRight(D, t),
         vk'[t] = vk[t], snap'[t] = snap[t], distHop'[used'[t]] = distHop[used[t]],
         loop'[t].hubs = loop[t].hubs, loop'[t].h = loop[t].h, Frontier(t)' = Frontier(t),
         Careful(D, t)', Passed(D, t)'
  PROVE  WalkRight(D, t)'
<1>1. /\ ScratchTypes /\ vk[t] \in Vertices /\ snap[t] <= Len(L[vk[t]])
      /\ snap[t] \in Nat /\ Len(L[vk[t]]) \in Nat
  BY DEF ScratchInv, ScratchTypes, TaskScratch
<1>2. /\ Blockers(t)' = Blockers(t)
      /\ \A v, h : Needs(D, t, v, h)' <=> Needs(D, t, v, h)
      /\ \A h \in Int : Left(D, t, h) => Left(D, t, h)'
  BY <1>1, LeftKept
<1>3. Seen(t)' = Seen(t)
  <2>1. \A i \in 1 .. snap[t] : L'[vk[t]][i] = L[vk[t]][i]
    BY <1>1 DEF Grows
  <2> QED BY <2>1 DEF Seen
<1>4. Ready(D, t)'
  BY <1>2 DEF WalkRight, Ready
<1>5. Left(D, t, loop[t].h)'
  <2>1. loop[t].h \in Int /\ Left(D, t, loop[t].h)
    BY <1>1, FrontierTypes DEF WalkRight
  <2> SUFFICES ASSUME NEW c \in Int, c = loop[t].h PROVE Left(D, t, c)'
    BY <2>1
  <2> QED BY <1>2, <2>1
<1> QED BY <1>2, <1>3, <1>4, <1>5 DEF WalkRight

(* The progress of a task that does not move.                              *)
LEMMA TaskRightKept ==
  ASSUME SlotInv, ScratchInv, ScratchTypes', NEW D, D = HopDist(w), NEW t \in Workers,
         Frame(t), NEW u \in Workers \ {t}, TaskRight(D, u)
  PROVE  TaskRight(D, u)'
<1>1. /\ ScratchTypes /\ Grows /\ UNCHANGED <<w, cpuType>>
      /\ pc'[u] = pc[u] /\ vk'[u] = vk[u] /\ used'[u] = used[u] /\ loop'[u] = loop[u]
      /\ snap'[u] = snap[u]
  BY DEF ScratchInv, Frame
<1>2. ASSUME pc[u] \in {"walk", "push"} PROVE WalkRight(D, u)'
  <2>1. WalkRight(D, u) /\ Untouched(u)
    BY <1>2 DEF TaskRight, Frame, Holds
  <2>2. /\ distHop'[used'[u]] = distHop[used[u]]
        /\ Frontier(u)' = Frontier(u) /\ NextFrontier(u)' = NextFrontier(u)
    BY <1>1, <2>1 DEF Untouched, Frontier, NextFrontier
  <2>3. Careful(D, u)'
    BY <1>1, <2>1, <2>2 DEF WalkRight, Careful
  <2>4. Passed(D, u)'
    <3>1. Passed(D, u) /\ \A x \in DOMAIN loop[u].upd : loop[u].upd[x].dist <= loop[u].upd[x].dist
      <4>1. \A x \in DOMAIN loop[u].upd : loop[u].upd[x].dist \in Nat
        BY <1>1, OffersTypes
      <4> QED BY <2>1, <4>1 DEF WalkRight
    <3>2. \A j \in DOMAIN Frontier(u) :
            j < loop[u].i /\ Needs(D, u, Frontier(u)[j], loop[u].h) =>
              /\ LabelIn(D, vk[u], Frontier(u)[j], loop[u].h)'
              /\ loop[u].h < K => Offered(D, u, Frontier(u)[j])'
      BY <1>1, <2>2, <3>1, PassedKept
    <3>3. \A v, h : Needs(D, u, v, h)' <=> Needs(D, u, v, h)
      BY <1>1, LeftKept
    <3> QED BY <1>1, <2>2, <3>2, <3>3 DEF Passed
  <2> QED BY <1>1, <1>2, <2>1, <2>2, <2>3, <2>4, WalkKept
<1>3. ASSUME pc[u] \in {"reset", "return"} PROVE Left(D, u, K + 1)'
  <2>1. K + 1 \in Int
    BY Sizes
  <2> QED BY <1>1, <1>3, <2>1, LeftKept DEF TaskRight
<1>4. ASSUME pc[u] = "push", cpuType = 0 PROVE (vk[u] <= Here(u))'
  <2>1. vk[u] <= Here(u) /\ Untouched(u)
    BY <1>4 DEF TaskRight, Frame, Holds
  <2> QED BY <1>1, <2>1 DEF Here, Untouched
<1> QED BY <1>1, <1>2, <1>3, <1>4 DEF TaskRight
----------------------------------------------------------------------------
(* Only a task that has begun is a hub, and no other task has this vertex: *)
(* what a task copies is of its blockers.                                  *)
LEMMA SnapshotBlockers ==
  ASSUME SlotInv, TaskInv, ScratchTypes, NEW D, LabelsRight(D), NEW t \in Workers, Snapshot(t)
  PROVE  \A l \in ToSet(L[vk[t]]) : l.hub \in Blockers(t)'
<1>1. /\ pc[t] = "snapshot" /\ UNCHANGED <<vk, cpuType>>
      /\ loop' = [loop EXCEPT ![t] = Walk(0, 1, {vk[t]}, <<>>, {l.hub : l \in ToSet(L[vk[t]])})]
  BY DEF Snapshot, main
<1>2. loop'[t].hubs = {l.hub : l \in ToSet(L[vk[t]])}
  BY <1>1 DEF ScratchTypes, Walk
<1>3. Blockers(t)' = IF cpuType = 0 THEN 0 .. vk[t] - 1 ELSE {l.hub : l \in ToSet(L[vk[t]])}
  BY <1>1, <1>2 DEF Blockers
<1>4. ASSUME NEW l \in ToSet(L[vk[t]]), cpuType = 0 PROVE l.hub \in 0 .. vk[t] - 1
  <2>1. vk[t] \in Vertices
    BY DEF ScratchTypes
  <2>2. PICK i \in DOMAIN L[vk[t]] : l = L[vk[t]][i]
    BY DEF ToSet
  <2>3. LabelRight(D, vk[t], l)
    BY <2>1, <2>2 DEF LabelsRight
  <2>4. l.hub \in Vertices /\ Started(l.hub) /\ l.hub <= vk[t]
    BY <1>4, <2>3 DEF LabelRight, SoundLabel
  <2>5. ~Started(vk[t])
    <3>1. driver = "wait" /\ Busy(t)
      BY <1>1 DEF TaskInv, Busy
    <3>2. vk[t] \notin finished
      BY <3>1 DEF TaskInv
    <3>3. \A u \in Workers : Busy(u) /\ vk[u] = vk[t] => u = t
      BY <3>1 DEF TaskInv
    <3> QED BY <1>1, <3>2, <3>3 DEF Started, AtWork, Busy
  <2>6. l.hub # vk[t]
    BY <2>4, <2>5
  <2>7. vk[t] \in Nat /\ l.hub \in Nat
    BY <2>1, <2>4 DEF Vertices
  <2> QED BY <2>4, <2>6, <2>7
<1> QED BY <1>3, <1>4

LEMMA SnapshotRight ==
  ASSUME SlotInv, TaskInv, ScratchInv, ScratchTypes', NEW D, D = HopDist(w), LabelsRight(D),
         NEW t \in Workers, Snapshot(t)
  PROVE  TaskRight(D, t)'
<1> DEFINE s == used[t]
           m == vk[t]
<1>1. /\ pc[t] = "snapshot" /\ pc' = [pc EXCEPT ![t] = "walk"]
      /\ Vh' = [Vh EXCEPT ![s][0] = Append(Vh[s][0], m)]
      /\ distHop' = [distHop EXCEPT ![s][m] = [dist |-> 0, par |-> m]]
      /\ loop' = [loop EXCEPT ![t] = Walk(0, 1, {m}, <<>>, {l.hub : l \in ToSet(L[m])})]
      /\ snap' = [snap EXCEPT ![t] = Len(L[m])]
      /\ UNCHANGED <<w, cpuType, vk, used, L>>
  BY DEF Snapshot, main
<1>2. /\ s \in Slots /\ m \in Vertices /\ L[m] \in Seq(Labels)
      /\ Clean(s) /\ ScratchTypes /\ pc \in [Workers -> PcStates]
      /\ K \in Nat /\ Inf \in Nat /\ 0 \in 0 .. K /\ 0 \in 0 .. K + 1
  BY <1>1, Sizes DEF SlotInv, SlotTypes, ScratchInv, ScratchTypes, TaskScratch
<1>3. /\ pc'[t] = "walk" /\ used'[t] = s /\ vk'[t] = m /\ snap'[t] = Len(L[m])
      /\ loop'[t].h = 0 /\ loop'[t].i = 1 /\ loop'[t].upd = <<>>
  <2>1. loop'[t] = Walk(0, 1, {m}, <<>>, {l.hub : l \in ToSet(L[m])})
    BY <1>1, <1>2 DEF ScratchTypes
  <2>2. loop'[t].h = 0 /\ loop'[t].i = 1 /\ loop'[t].upd = <<>>
    BY <2>1 DEF Walk
  <2> QED BY <1>1, <1>2, <2>2 DEF ScratchTypes
<1>4. /\ distHop'[s][m].dist = 0
      /\ \A x \in Vertices \ {m} : distHop'[s][x].dist = Inf
  <2>1. distHop'[s][m] = [dist |-> 0, par |-> m] /\ \A x \in Vertices \ {m} : distHop'[s][x] = distHop[s][x]
    BY <1>1, <1>2 DEF ScratchTypes
  <2>2. \A x \in Vertices : distHop[s][x] = Unseen
    BY <1>2 DEF Clean
  <2> QED BY <2>1, <2>2 DEF Unseen
<1>5. Vh'[s][0] = <<m>>
  <2>1. Vh[s][0] = <<>>
    BY <1>2 DEF Clean
  <2>2. Vh \in [Slots -> [0 .. K + 1 -> Seq(Vertices)]]
    BY <1>2 DEF ScratchTypes
  <2>3. Vh' = [Vh EXCEPT ![s][0] = Append(@, m)]
    BY <1>1
  <2>4. Vh'[s][0] = Append(Vh[s][0], m)
    BY ONLY <1>2, <2>2, <2>3
  <2> QED BY <2>1, <2>4
<1>6. Seen(t)' = ToSet(L[m])
  <2>1. Seen(t)' = {L'[vk'[t]][i] : i \in 1 .. snap'[t]}
    BY DEF Seen
  <2>2. ToSet(L[m]) = {L[m][i] : i \in 1 .. Len(L[m])}
    BY <1>2 DEF ToSet
  <2> QED BY <1>1, <1>3, <2>1, <2>2
<1>7. \A l \in Seen(t)' : l.hub \in Blockers(t)'
  BY <1>2, <1>6, SnapshotBlockers
<1>8. Careful(D, t)'
  <2>1. \A x \in Vertices : D[0][<<m, x>>] <= distHop'[s][x].dist
    BY <1>2, <1>4, Dists0
  <2> QED BY <1>3, <2>1 DEF Careful
<1>9. Ready(D, t)'
  <2>1. ASSUME NEW x \in Vertices, Needed(D, Blockers(t)', m, x, 0)
        PROVE  distHop'[s][x].dist = D[0][<<m, x>>] /\ \E j \in DOMAIN Vh'[s][0] : Vh'[s][0][j] = x
    <3>1. m = x /\ D[0][<<m, x>>] = 0
      BY <1>2, <2>1, Dists0, NeededAtZero
    <3>2. 1 \in DOMAIN Vh'[s][0] /\ Vh'[s][0][1] = m
      BY <1>5
    <3> QED BY <1>4, <3>1, <3>2
  <2> QED BY <1>3, <2>1 DEF Ready, Frontier, Needs
<1>10. Passed(D, t)'
  <2>1. \A j \in DOMAIN Vh'[s][0] : ~(j < 1)
    BY <1>5
  <2> QED BY <1>3, <2>1 DEF Passed, Frontier
<1>11. Left(D, t, loop[t].h)'
  <2>1. \A g \in 0 .. K : ~(g < 0)
    OBVIOUS
  <2> QED BY <1>3, <2>1 DEF Left
<1>12. WalkRight(D, t)'
  BY <1>7, <1>8, <1>9, <1>10, <1>11 DEF WalkRight
<1> QED BY <1>3, <1>12 DEF TaskRight

LEMMA HereTypes ==
  ASSUME SlotInv, ScratchTypes, NEW t \in Workers, AtVertex(t)
  PROVE  /\ Here(t) \in Vertices /\ loop[t].i \in DOMAIN Frontier(t)
         /\ Frontier(t)[loop[t].i] = Here(t)
<1>1. Frontier(t) \in Seq(Vertices) /\ loop[t].i \in Nat \ {0}
  BY FrontierTypes
<1>2. loop[t].i <= Len(Frontier(t))
  BY DEF AtVertex, Frontier
<1>3. loop[t].i \in 1 .. Len(Frontier(t)) /\ DOMAIN Frontier(t) = 1 .. Len(Frontier(t))
  BY <1>1, <1>2
<1>4. Frontier(t)[loop[t].i] \in Vertices
  BY <1>1, <1>3
<1> QED BY <1>3, <1>4 DEF Here, Frontier

(* A needed label passes the test, and the rank pruning.                   *)
LEMMA NeededAccepted ==
  ASSUME SlotInv, ScratchInv, NEW D, D = HopDist(w), LabelsRight(D), NEW t \in Workers,
         pc[t] = "walk", WalkRight(D, t), AtVertex(t), Needs(D, t, Here(t), loop[t].h)
  PROVE  Accepts(t, Here(t))
<1> DEFINE m == vk[t]
           u == Here(t)
           h == loop[t].h
<1>1. /\ ScratchTypes /\ u \in Vertices /\ h \in 0 .. K /\ m \in Vertices
      /\ CopyRight(t) /\ snap[t] <= Len(L[m])
  BY FrontierTypes, HereTypes DEF ScratchInv, TaskScratch
<1>2. distHop[used[t]][u].dist = D[h][<<m, u>>]
  BY <1>1 DEF WalkRight, Ready
<1>3. D[h][<<m, u>>] < Query(used[t], u, h)
  BY <1>1, QueryMisses DEF WalkRight
<1>4. cpuType = 1 \/ u >= m
  <2> SUFFICES ASSUME cpuType # 1, ~(u >= m) PROVE FALSE
    OBVIOUS
  <2>1. cpuType = 0
    BY <1>1, CpuTypeAssumption DEF ScratchTypes
  <2>2. u \in 0 .. m - 1
    BY <1>1 DEF Vertices
  <2>3. Between(D, u, m, u, h)
    BY <1>1, Dists0, EndsBetween
  <2> QED BY <2>1, <2>2, <2>3 DEF Needs, Needed, Blockers
<1> QED BY <1>2, <1>3, <1>4 DEF Accepts

LEMMA TestRight ==
  ASSUME SlotInv, ScratchInv, ScratchTypes', NEW D, D = HopDist(w), LabelsRight(D),
         NEW t \in Workers, TaskRight(D, t), Test(t)
  PROVE  TaskRight(D, t)'
<1>1. /\ pc[t] = "walk" /\ AtVertex(t) /\ ScratchTypes /\ pc \in [Workers -> PcStates]
      /\ UNCHANGED <<w, cpuType, vk, used, Vh, distHop, L, snap>> /\ Grows
  BY SameLabels DEF Test, main, ScratchInv, SlotInv, SlotTypes
<1>2. WalkRight(D, t)
  BY <1>1 DEF TaskRight
<1>3. /\ pc'[t] \in {"walk", "push"}
      /\ pc'[t] = "push" => Accepts(t, Here(t)) /\ UNCHANGED loop
      /\ loop'[t].h = loop[t].h /\ loop'[t].upd = loop[t].upd /\ loop'[t].hubs = loop[t].hubs
      /\ \/ loop'[t].i = loop[t].i
         \/ loop'[t].i = loop[t].i + 1 /\ ~Accepts(t, Here(t))
  <2>1. CASE Accepts(t, Here(t))
    BY <1>1, <2>1 DEF Test
  <2>2. CASE ~Accepts(t, Here(t))
    <3>1. pc' = pc /\ loop' = [loop EXCEPT ![t].i = @ + 1]
      BY <2>2 DEF Test
    <3>2. loop'[t] = [loop[t] EXCEPT !.i = loop[t].i + 1]
      BY <1>1, <3>1 DEF ScratchTypes
    <3>3. loop[t] \in Walks
      BY <1>1 DEF ScratchTypes
    <3> QED BY <1>1, <2>2, <3>1, <3>2, <3>3 DEF Walks
  <2> QED BY <2>1, <2>2
<1>4. /\ Frontier(t)' = Frontier(t) /\ NextFrontier(t)' = NextFrontier(t)
      /\ distHop'[used'[t]] = distHop[used[t]]
  BY <1>1, <1>3 DEF Frontier, NextFrontier
<1>5. Careful(D, t)'
  BY <1>1, <1>2, <1>3, <1>4 DEF WalkRight, Careful
<1>6. Passed(D, t)'
  <2>1. Passed(D, t) /\ \A x \in DOMAIN loop[t].upd : loop[t].upd[x].dist <= loop[t].upd[x].dist
    <3>1. \A x \in DOMAIN loop[t].upd : loop[t].upd[x].dist \in Nat
      BY <1>1, OffersTypes
    <3> QED BY <1>2, <3>1 DEF WalkRight
  <2>2. \A j \in DOMAIN Frontier(t) :
          j < loop[t].i /\ Needs(D, t, Frontier(t)[j], loop[t].h) =>
            /\ LabelIn(D, vk[t], Frontier(t)[j], loop[t].h)'
            /\ loop[t].h < K => Offered(D, t, Frontier(t)[j])'
    BY <1>1, <1>3, <1>4, <2>1, PassedKept
  <2>3. \A v, h : Needs(D, t, v, h)' <=> Needs(D, t, v, h)
    BY <1>1, <1>3, LeftKept
  <2>4. \A j \in DOMAIN Frontier(t) : j < loop'[t].i /\ Needs(D, t, Frontier(t)[j], loop[t].h) => j < loop[t].i
    <3>1. Needs(D, t, Here(t), loop[t].h) => Accepts(t, Here(t))
      BY <1>1, <1>2, NeededAccepted
    <3>2. /\ loop[t].i \in Nat \ {0} /\ \A j \in DOMAIN Frontier(t) : j \in Nat
          /\ Frontier(t)[loop[t].i] = Here(t)
      BY <1>1, FrontierTypes, HereTypes
    <3> QED BY <1>3, <3>1, <3>2
  <2> QED BY <1>1, <1>3, <1>4, <2>2, <2>3, <2>4 DEF Passed
<1>7. WalkRight(D, t)'
  BY <1>1, <1>2, <1>3, <1>4, <1>5, <1>6, WalkKept
<1>8. pc'[t] = "push" /\ cpuType = 0 => vk[t] <= Here(t)
  BY <1>1, <1>3, FrontierTypes, HereTypes DEF Accepts, Vertices
<1> QED BY <1>1, <1>3, <1>7, <1>8 DEF TaskRight, Here

(* At the end of a frontier everything of its hop is left.                 *)
LEMMA HopLeft ==
  ASSUME SlotInv, ScratchInv, NEW D, D = HopDist(w), NEW t \in Workers,
         WalkRight(D, t), ~AtVertex(t)
  PROVE  /\ Left(D, t, loop[t].h + 1)
         /\ loop[t].h < K =>
              \A y \in Vertices : Needs(D, t, y, loop[t].h) => Offered(D, t, y)
<1> DEFINE m == vk[t]
           h == loop[t].h
<1>1. /\ ScratchTypes /\ h \in 0 .. K /\ loop[t].i \in Nat \ {0} /\ Frontier(t) \in Seq(Vertices)
  BY FrontierTypes DEF ScratchInv
<1>2. \A j \in DOMAIN Frontier(t) : j < loop[t].i
  <2>1. ~(loop[t].i <= Len(Frontier(t)))
    BY DEF AtVertex, Frontier
  <2> QED BY <1>1, <2>1
<1>3. ASSUME NEW y \in Vertices, Needs(D, t, y, h)
      PROVE  LabelIn(D, m, y, h) /\ (h < K => Offered(D, t, y))
  <2>1. PICK j \in DOMAIN Frontier(t) : Frontier(t)[j] = y
    BY <1>3 DEF WalkRight, Ready
  <2> QED BY <1>2, <1>3, <2>1 DEF WalkRight, Passed
<1>4. Left(D, t, h + 1)
  <2> SUFFICES ASSUME NEW g \in 0 .. K, NEW v \in Vertices, g < h + 1, Needs(D, t, v, g)
               PROVE  LabelIn(D, m, v, g)
    BY DEF Left
  <2>1. g < h \/ g = h
    BY <1>1
  <2> QED BY <1>3, <2>1 DEF WalkRight, Left
<1> QED BY <1>3, <1>4

LEMMA NextHopRight ==
  ASSUME SlotInv, ScratchInv, ScratchTypes', NEW D, D = HopDist(w),
         NEW t \in Workers, TaskRight(D, t), NextHop(t)
  PROVE  TaskRight(D, t)'
<1> DEFINE s == used[t]
           m == vk[t]
           upd == loop[t].upd
<1>1. /\ pc[t] = "walk" /\ ~AtVertex(t) /\ ScratchTypes /\ pc \in [Workers -> PcStates]
      /\ UNCHANGED <<w, cpuType, vk, used, Vh, L, snap>> /\ Grows
  BY SameLabels DEF NextHop, main, ScratchInv, SlotInv, SlotTypes
<1>2. WalkRight(D, t)
  BY <1>1 DEF TaskRight
<1>3. /\ s \in Slots /\ m \in Vertices /\ loop[t].h \in 0 .. K /\ Blockers(t) \subseteq Vertices
      /\ \A x \in Vertices : distHop[s][x].dist \in Nat
  BY <1>1, FrontierTypes
<1>4. CASE ~(loop[t].h < K)
  <2>1. pc' = [pc EXCEPT ![t] = "reset"] /\ loop' = loop
    BY <1>4 DEF NextHop
  <2>2. loop[t].h + 1 = K + 1 /\ K + 1 \in Int
    BY <1>3, <1>4, Sizes
  <2>3. Left(D, t, K + 1)
    BY <1>1, <1>2, <2>2, HopLeft
  <2>4. Left(D, t, K + 1)'
    BY <1>1, <2>1, <2>2, <2>3, LeftKept
  <2> QED BY <1>1, <2>1, <2>4 DEF TaskRight
<1>5. CASE loop[t].h < K
  <2> DEFINE h == loop[t].h
  <2>1. /\ pc' = pc /\ distHop' = [distHop EXCEPT ![s] = Lowered(distHop[s], upd)]
        /\ loop' = [loop EXCEPT ![t] = Walk(h + 1, 1, loop[t].changed \cup DOMAIN upd, <<>>,
                                            loop[t].hubs)]
    BY <1>5 DEF NextHop
  <2>2. /\ loop'[t].h = h + 1 /\ loop'[t].i = 1 /\ loop'[t].upd = <<>>
        /\ loop'[t].hubs = loop[t].hubs
    <3>1. loop'[t] = Walk(h + 1, 1, loop[t].changed \cup DOMAIN upd, <<>>, loop[t].hubs)
      BY <1>1, <2>1 DEF ScratchTypes
    <3> QED BY <3>1 DEF Walk
  <2>3. distHop'[s] = Lowered(distHop[s], upd)
    BY <1>1, <1>3, <2>1 DEF ScratchTypes
  <2>4. PICK g \in 1 .. K : g = h + 1 /\ g - 1 = h /\ g \in 0 .. K
    <3>1. h + 1 \in 1 .. K /\ (h + 1) - 1 = h /\ h + 1 \in 0 .. K
      BY <1>3, <1>5, Sizes
    <3> QED BY <3>1
  <2>5. /\ \A x \in Vertices : D[h][<<m, x>>] \in Nat /\ D[g][<<m, x>>] \in Nat
        /\ \A x \in Vertices : D[g][<<m, x>>] <= D[h][<<m, x>>]
    BY <1>1, <1>3, <2>4, Dists0, DistSteps
  <2>6. /\ DOMAIN upd \subseteq Vertices /\ \A x \in DOMAIN upd : upd[x].dist \in Nat
    BY <1>1, OffersTypes
  <2>7. /\ \A x \in Vertices : D[h][<<m, x>>] <= distHop[s][x].dist
        /\ \A x \in DOMAIN upd : /\ \E j \in DOMAIN NextFrontier(t) : NextFrontier(t)[j] = x
                                 /\ D[g][<<m, x>>] <= upd[x].dist
    BY <1>2, <1>5, <2>4 DEF WalkRight, Careful
  <2>8. \A x \in Vertices : D[g][<<m, x>>] <= distHop'[s][x].dist
    <3> SUFFICES ASSUME NEW x \in Vertices PROVE D[g][<<m, x>>] <= distHop'[s][x].dist
      OBVIOUS
    <3>1. distHop'[s][x] = IF x \in DOMAIN upd /\ distHop[s][x].dist > upd[x].dist
                           THEN upd[x] ELSE distHop[s][x]
      BY <2>3 DEF Lowered
    <3>2. D[g][<<m, x>>] <= distHop[s][x].dist
      BY <1>3, <2>5, <2>7
    <3> HIDE DEF upd, s, m, h
    <3> QED BY <2>7, <3>1, <3>2
  <2>9. Careful(D, t)'
    <3>1. used'[t] = s /\ vk'[t] = m /\ loop'[t].h = g
      BY <1>1, <2>2, <2>4
    <3>2. DOMAIN loop'[t].upd = {}
      BY <2>2
    <3> QED BY <2>8, <3>1, <3>2 DEF Careful
  <2>10. ASSUME NEW x \in Vertices, Needs(D, t, x, g)
         PROVE  /\ distHop'[s][x].dist = D[g][<<m, x>>]
                /\ \E j \in DOMAIN NextFrontier(t) : NextFrontier(t)[j] = x
    <3>1. PICK y \in Vertices : Leads(w, D, Blockers(t), m, y, x, g)
      BY <1>1, <1>3, <2>10, Dists0, NeededContinues DEF Needs
    <3>2. Offered(D, t, y)
      BY <1>1, <1>2, <1>5, <2>4, <3>1, HopLeft DEF Leads, Needs
    <3>3. x \in DOMAIN upd /\ upd[x].dist <= D[g][<<m, x>>]
      BY <2>4, <2>10, <3>1, <3>2 DEF Offered
    <3>4. upd[x].dist = D[g][<<m, x>>]
      BY <2>5, <2>6, <2>7, <3>3
    <3>5. D[g][<<m, x>>] < D[h][<<m, x>>]
      BY <2>4, <2>10 DEF Needs, Needed
    <3>6. distHop[s][x].dist > upd[x].dist
      BY <1>3, <2>5, <2>7, <3>4, <3>5
    <3>7. distHop'[s][x] = upd[x]
      BY <2>3, <3>3, <3>6 DEF Lowered
    <3> QED BY <2>7, <3>3, <3>4, <3>7
  <2>11. /\ \A x : Needs(D, t, x, g)' <=> Needs(D, t, x, g)
         /\ Left(D, t, g)'
    <3>1. Left(D, t, g) /\ g \in Int
      BY <1>1, <1>2, <2>4, HopLeft
    <3> QED BY <1>1, <2>2, <3>1, LeftKept
  <2>12. Frontier(t)' = NextFrontier(t)
    BY <1>1, <2>2 DEF Frontier, NextFrontier
  <2>13. Ready(D, t)'
    <3>1. \A x \in Vertices : Needs(D, t, x, g)' =>
            /\ distHop'[s][x].dist = D[g][<<m, x>>]
            /\ \E j \in DOMAIN NextFrontier(t) : NextFrontier(t)[j] = x
      BY <2>10, <2>11
    <3> QED BY <1>1, <2>2, <2>4, <2>12, <3>1 DEF Ready
  <2>14. Passed(D, t)'
    <3>1. \A j \in DOMAIN NextFrontier(t) : ~(j < 1)
      <4>1. NextFrontier(t) \in Seq(Vertices)
        BY <1>1, FrontierTypes
      <4> QED BY <4>1
    <3> QED BY <2>2, <2>12, <3>1 DEF Passed
  <2>15. \A l \in Seen(t)' : l.hub \in Blockers(t)'
    <3>1. Seen(t)' = Seen(t) /\ Blockers(t)' = Blockers(t)
      BY <1>1, <2>2 DEF Seen, Blockers
    <3> QED BY <1>2, <3>1 DEF WalkRight
  <2>16. Left(D, t, loop[t].h)'
    BY <2>2, <2>4, <2>11
  <2>17. WalkRight(D, t)'
    BY <2>9, <2>13, <2>14, <2>15, <2>16 DEF WalkRight
  <2> QED BY <1>1, <2>1, <2>17 DEF TaskRight
<1> QED BY <1>4, <1>5

LEMMA ResetRight ==
  ASSUME SlotInv, ScratchInv, ScratchTypes', NEW D, D = HopDist(w),
         NEW t \in Workers, TaskRight(D, t), Reset(t)
  PROVE  TaskRight(D, t)'
<1>1. /\ pc[t] = "reset" /\ pc' = [pc EXCEPT ![t] = "return"] /\ pc \in [Workers -> PcStates]
      /\ UNCHANGED <<w, cpuType, vk, used, loop, L>> /\ ScratchTypes /\ Grows /\ K + 1 \in Int
  BY SameLabels, Sizes DEF Reset, main, ScratchInv, SlotInv, SlotTypes
<1>2. Left(D, t, K + 1)'
  BY <1>1, LeftKept DEF TaskRight
<1> QED BY <1>1, <1>2 DEF TaskRight

(* What a push appends and offers.                                         *)
LEMMA PushEffect ==
  ASSUME SlotInv, ScratchInv, NEW t \in Workers, Push(t)
  PROVE  /\ AtVertex(t) /\ Here(t) \in Vertices /\ pc[t] = "push" /\ pc'[t] = "walk"
         /\ UNCHANGED <<w, cpuType, vk, used, distHop, snap, finished>>
         /\ loop'[t] = Walk(loop[t].h, loop[t].i + 1, loop[t].changed,
                            Offer(loop[t].upd, used[t], Here(t)), loop[t].hubs)
         /\ \A v \in Vertices \ {Here(t)} : L'[v] = L[v]
         /\ \E l : /\ L'[Here(t)] = Append(L[Here(t)], l)
                   /\ l.hub = vk[t] /\ l.hop = loop[t].h
                   /\ l.dist = distHop[used[t]][Here(t)].dist
         /\ Frontier(t)' = Frontier(t)
         /\ \A j \in DOMAIN NextFrontier(t) :
              \E i \in DOMAIN NextFrontier(t)' : NextFrontier(t)'[i] = NextFrontier(t)[j]
         /\ \A x \in Improved(used[t], Here(t)) \ DOMAIN loop[t].upd :
              \E i \in DOMAIN NextFrontier(t)' : NextFrontier(t)'[i] = x
<1> DEFINE s == used[t]
           u == Here(t)
           h == loop[t].h
           upd == loop[t].upd
           S == Improved(s, u) \ DOMAIN upd
           unmet == Ordered(S, <)
           new == [hub |-> vk[t], hop |-> h, dist |-> distHop[s][u].dist,
                   par |-> distHop[s][u].par]
           next == Walk(h, loop[t].i + 1, loop[t].changed, Offer(upd, s, u), loop[t].hubs)
<1>1. /\ pc[t] = "push" /\ pc' = [pc EXCEPT ![t] = "walk"]
      /\ L' = [L EXCEPT ![u] = Append(L[u], new)]
      /\ loop' = [loop EXCEPT ![t] = next]
      /\ UNCHANGED <<w, cpuType, vk, used, distHop, snap, finished>>
  BY DEF Push, main
<1>2. Vh' = [Vh EXCEPT ![s][h + 1] = Vh[s][h + 1] \o unmet]
  BY Zenon DEF Push
<1>3. /\ ScratchTypes /\ pc \in [Workers -> PcStates] /\ AtVertex(t) /\ s \in Slots
      /\ u \in Vertices /\ h \in 0 .. K /\ NextFrontier(t) \in Seq(Vertices)
      /\ h \in 0 .. K + 1 /\ h + 1 \in 0 .. K + 1
  <2>1. ScratchTypes /\ AtVertex(t)
    BY <1>1 DEF ScratchInv, TaskScratch
  <2>2. h \in 0 .. K
    BY <2>1, FrontierTypes
  <2> QED BY <2>1, <2>2, FrontierTypes, HereTypes, Sizes DEF SlotInv, SlotTypes
<1>4. loop'[t] = next
  <2> HIDE DEF next
  <2> QED BY <1>1, <1>3 DEF ScratchTypes
<1>5. L'[u] = Append(L[u], new) /\ \A v \in Vertices \ {u} : L'[v] = L[v]
  <2> HIDE DEF new
  <2> QED BY <1>1, <1>3 DEF ScratchTypes
<1>6. new.hub = vk[t] /\ new.hop = h /\ new.dist = distHop[s][u].dist
  OBVIOUS
<1>7. \E l : L'[u] = Append(L[u], l) /\ l.hub = vk[t] /\ l.hop = h /\ l.dist = distHop[s][u].dist
  <2> HIDE DEF new
  <2> QED BY <1>5, <1>6
<1>8. S \subseteq Vertices
  BY DEF Improved, Nbrs
<1> HIDE DEF S
<1>9. Lists(unmet, S)
  <2>1. IsFiniteSet(S) /\ S \subseteq Int
    BY <1>8, VerticesFinite, FS_Subset
  <2> QED BY <2>1, OrderedNumbers, Zenon
<1> HIDE DEF unmet
<1>10. unmet \in Seq(Vertices) /\ \A x \in S : \E i \in DOMAIN unmet : unmet[i] = x
  BY ONLY <1>8, <1>9 DEF Lists
<1>11. Vh'[s][h] = Vh[s][h] /\ Vh'[s][h + 1] = Vh[s][h + 1] \o unmet
  <2>1. Vh \in [Slots -> [0 .. K + 1 -> Seq(Vertices)]] /\ h # h + 1
    BY <1>3 DEF ScratchTypes
  <2> HIDE DEF s, h
  <2> QED BY ONLY <1>2, <1>3, <2>1
<1>12. NextFrontier(t)' = NextFrontier(t) \o unmet /\ Frontier(t)' = Frontier(t)
  <2>1. loop'[t].h = h /\ used'[t] = s
    BY <1>1, <1>4 DEF Walk
  <2> QED BY <1>11, <2>1 DEF NextFrontier, Frontier
<1>13. \A j \in DOMAIN NextFrontier(t) :
         j \in DOMAIN NextFrontier(t)' /\ NextFrontier(t)'[j] = NextFrontier(t)[j]
  BY <1>3, <1>10, <1>12
<1>14. ASSUME NEW x \in S PROVE \E i \in DOMAIN NextFrontier(t)' : NextFrontier(t)'[i] = x
  <2>1. PICK i \in DOMAIN unmet : unmet[i] = x
    BY <1>10
  <2>2. Len(NextFrontier(t)) + i \in DOMAIN (NextFrontier(t) \o unmet)
        /\ (NextFrontier(t) \o unmet)[Len(NextFrontier(t)) + i] = x
    BY <1>3, <1>10, <2>1
  <2> QED BY <1>12, <2>2
<1>15. pc'[t] = "walk"
  BY <1>1, <1>3
<1> QED BY <1>1, <1>3, <1>4, <1>5, <1>7, <1>12, <1>13, <1>14, <1>15 DEF S

(* An offer keeps the best.                                                *)
LEMMA OfferKeepsBest ==
  ASSUME SlotInv, ScratchTypes, NEW t \in Workers, NEW u \in Vertices,
         NEW new, new = Offer(loop[t].upd, used[t], u)
  PROVE  /\ \A x \in DOMAIN loop[t].upd :
              x \in DOMAIN new /\ new[x].dist <= loop[t].upd[x].dist
         /\ \A x \in Improved(used[t], u) :
              x \in DOMAIN new /\ new[x].dist <= distHop[used[t]][u].dist + w[<<u, x>>]
         /\ \A x \in DOMAIN new :
              \/ x \in DOMAIN loop[t].upd /\ new[x].dist = loop[t].upd[x].dist
              \/ x \in Improved(used[t], u) /\ new[x].dist = distHop[used[t]][u].dist + w[<<u, x>>]
<1> DEFINE s == used[t]
           upd == loop[t].upd
           d(x) == distHop[s][u].dist + w[<<u, x>>]
           better(x) == x \in Improved(s, u) /\ (x \in DOMAIN upd => d(x) < upd[x].dist)
<1>1. new = [x \in DOMAIN upd \cup Improved(s, u) |->
               IF better(x) THEN [dist |-> d(x), par |-> u] ELSE upd[x]]
  BY DEF Offer
<1>2. /\ DOMAIN new = DOMAIN upd \cup Improved(s, u)
      /\ \A x \in DOMAIN new : new[x] = IF better(x) THEN [dist |-> d(x), par |-> u] ELSE upd[x]
  <2> HIDE DEF better, d
  <2> QED BY <1>1
<1>3. \A x \in DOMAIN upd : upd[x].dist \in Nat
  BY OffersTypes
<1>4. \A x \in Improved(s, u) : d(x) \in Nat
  <2> SUFFICES ASSUME NEW x \in Improved(s, u) PROVE d(x) \in Nat
    OBVIOUS
  <2>1. x \in Vertices /\ w[<<u, x>>] \in Nat
    BY CpuGraphIs DEF Improved, Nbrs, Undirected, ScratchTypes
  <2>2. distHop[s][u].dist \in Nat
    BY FrontierTypes
  <2> QED BY <2>1, <2>2
<1>5. \A x \in DOMAIN new : new[x].dist = IF better(x) THEN d(x) ELSE upd[x].dist
  <2> SUFFICES ASSUME NEW x \in DOMAIN new
               PROVE  new[x].dist = IF better(x) THEN d(x) ELSE upd[x].dist
    OBVIOUS
  <2> HIDE DEF better, d
  <2>1. CASE better(x)
    <3>1. new[x] = [dist |-> d(x), par |-> u]
      BY <1>2, <2>1
    <3> QED BY <2>1, <3>1
  <2>2. CASE ~better(x)
    BY <1>2, <2>2
  <2> QED BY <2>1, <2>2
<1> HIDE DEF d, upd
<1>6. ASSUME NEW x \in DOMAIN upd PROVE x \in DOMAIN new /\ new[x].dist <= upd[x].dist
  BY <1>2, <1>3, <1>4, <1>5
<1>7. ASSUME NEW x \in Improved(s, u) PROVE x \in DOMAIN new /\ new[x].dist <= d(x)
  BY <1>2, <1>3, <1>4, <1>5
<1>8. ASSUME NEW x \in DOMAIN new
      PROVE  \/ x \in DOMAIN upd /\ new[x].dist = upd[x].dist
             \/ x \in Improved(s, u) /\ new[x].dist = d(x)
  <2>1. CASE better(x)
    BY <1>5, <2>1
  <2>2. CASE ~better(x)
    <3>1. new[x].dist = upd[x].dist
      BY <1>5, <2>2, Zenon
    <3>2. x \in DOMAIN upd
      BY <1>2, <2>2
    <3> QED BY <3>1, <3>2
  <2> QED BY <2>1, <2>2
<1> QED BY <1>6, <1>7, <1>8 DEF d, upd

(* A vertex the walk stands at offers its neighbours no less than their    *)
(* distance.                                                               *)
LEMMA OfferIsCareful ==
  ASSUME SlotInv, ScratchTypes, NEW D, D = HopDist(w), NEW t \in Workers, NEW u \in Vertices,
         Careful(D, t), NEW x \in Improved(used[t], u)
  PROVE  /\ x \in Vertices /\ w[<<u, x>>] \in Nat
         /\ loop[t].h < K => D[loop[t].h + 1][<<vk[t], x>>] <= distHop[used[t]][u].dist + w[<<u, x>>]
<1>1. /\ Undirected(w) /\ x \in Vertices /\ w[<<u, x>>] \in Nat /\ u \in Nbrs(w, x)
      /\ w[<<u, x>>] > 0
  BY CpuGraphIs DEF Improved, Nbrs, Undirected, ScratchTypes
<1>2. loop[t].h \in 0 .. K /\ vk[t] \in Vertices /\ distHop[used[t]][u].dist \in Nat
  BY FrontierTypes
<1>3. ASSUME loop[t].h < K
      PROVE  D[loop[t].h + 1][<<vk[t], x>>] <= distHop[used[t]][u].dist + w[<<u, x>>]
  <2>1. loop[t].h + 1 \in 1 .. K /\ (loop[t].h + 1) - 1 = loop[t].h /\ loop[t].h + 1 \in 0 .. K
    BY <1>2, <1>3, Sizes
  <2>2. PICK g \in 1 .. K : g = loop[t].h + 1 /\ g - 1 = loop[t].h /\ g \in 0 .. K
    BY <2>1
  <2>3. D[g][<<vk[t], x>>] <= D[g - 1][<<vk[t], u>>] + w[<<u, x>>]
    BY <1>1, <1>2, <2>2, DistSteps
  <2>4. D[g - 1][<<vk[t], u>>] <= distHop[used[t]][u].dist
    BY <2>2 DEF Careful
  <2>5. D[g][<<vk[t], x>>] \in Nat /\ D[g - 1][<<vk[t], u>>] \in Nat
    BY <1>1, <1>2, <2>2, Dists0
  <2>6. D[g][<<vk[t], x>>] <= distHop[used[t]][u].dist + w[<<u, x>>]
    BY <1>1, <1>2, <2>3, <2>4, <2>5
  <2> QED BY <2>2, <2>6
<1> QED BY <1>1, <1>3

LEMMA PushRight ==
  ASSUME SlotInv, ScratchInv, ScratchTypes', Grows, NEW D, D = HopDist(w),
         NEW t \in Workers, TaskRight(D, t), Push(t)
  PROVE  TaskRight(D, t)'
<1> DEFINE s == used[t]
           m == vk[t]
           upd == loop[t].upd
<1>0. PICK u \in Vertices : u = Here(t)
  BY PushEffect
<1>1. /\ AtVertex(t) /\ u \in Vertices /\ pc[t] = "push" /\ pc'[t] = "walk"
      /\ UNCHANGED <<w, cpuType, vk, used, distHop, snap>> /\ ScratchTypes
  BY PushEffect DEF ScratchInv
<1>2. WalkRight(D, t)
  BY <1>1 DEF TaskRight
<1>3. /\ loop'[t].h = loop[t].h /\ loop'[t].i = loop[t].i + 1 /\ loop'[t].hubs = loop[t].hubs
      /\ loop'[t].upd = Offer(upd, s, u)
  <2>1. loop'[t] = Walk(loop[t].h, loop[t].i + 1, loop[t].changed, Offer(upd, s, u), loop[t].hubs)
    BY <1>0, PushEffect
  <2> QED BY <2>1 DEF Walk
<1>4. Frontier(t)' = Frontier(t)
  BY PushEffect
<1>5. /\ \A x \in DOMAIN upd :
           x \in DOMAIN loop'[t].upd /\ loop'[t].upd[x].dist <= upd[x].dist
      /\ \A x \in Improved(s, u) :
           x \in DOMAIN loop'[t].upd /\ loop'[t].upd[x].dist <= distHop[s][u].dist + w[<<u, x>>]
      /\ \A x \in DOMAIN loop'[t].upd :
           \/ x \in DOMAIN upd /\ loop'[t].upd[x].dist = upd[x].dist
           \/ x \in Improved(s, u) /\ loop'[t].upd[x].dist = distHop[s][u].dist + w[<<u, x>>]
  BY <1>1, <1>3, OfferKeepsBest
<1>6. Careful(D, t)'
  <2>1. Careful(D, t)
    BY <1>2 DEF WalkRight
  <2>2. ASSUME NEW x \in DOMAIN loop'[t].upd
        PROVE  /\ \E j \in DOMAIN NextFrontier(t)' : NextFrontier(t)'[j] = x
               /\ loop[t].h < K => D[loop[t].h + 1][<<m, x>>] <= loop'[t].upd[x].dist
    <3>1. CASE x \in DOMAIN upd /\ loop'[t].upd[x].dist = upd[x].dist
      <4>1. \E j \in DOMAIN NextFrontier(t) : NextFrontier(t)[j] = x
        BY <2>1, <3>1 DEF Careful
      <4>2. \E i \in DOMAIN NextFrontier(t)' : NextFrontier(t)'[i] = x
        BY <1>0, <4>1, PushEffect
      <4> QED BY <2>1, <3>1, <4>2 DEF Careful
    <3>2. CASE x \notin DOMAIN upd /\ x \in Improved(s, u) /\
               loop'[t].upd[x].dist = distHop[s][u].dist + w[<<u, x>>]
      <4>1. \E i \in DOMAIN NextFrontier(t)' : NextFrontier(t)'[i] = x
        BY <1>0, <3>2, PushEffect
      <4>2. loop[t].h < K => D[loop[t].h + 1][<<m, x>>] <= distHop[s][u].dist + w[<<u, x>>]
        BY <1>1, <2>1, <3>2, OfferIsCareful
      <4> QED BY <3>2, <4>1, <4>2
    <3>3. CASE x \in DOMAIN upd /\ x \in Improved(s, u) /\
               loop'[t].upd[x].dist = distHop[s][u].dist + w[<<u, x>>]
      <4>1. \E j \in DOMAIN NextFrontier(t) : NextFrontier(t)[j] = x
        BY <2>1, <3>3 DEF Careful
      <4>2. \E i \in DOMAIN NextFrontier(t)' : NextFrontier(t)'[i] = x
        BY <1>0, <4>1, PushEffect
      <4>3. loop[t].h < K => D[loop[t].h + 1][<<m, x>>] <= distHop[s][u].dist + w[<<u, x>>]
        BY <1>1, <2>1, <3>3, OfferIsCareful
      <4> QED BY <3>3, <4>2, <4>3
    <3> QED BY <1>5, <3>1, <3>2, <3>3
  <2> QED BY <1>1, <1>3, <2>1, <2>2 DEF Careful
<1>7. Passed(D, t)'
  <2>1. \A j \in DOMAIN Frontier(t) :
          j < loop[t].i /\ Needs(D, t, Frontier(t)[j], loop[t].h) =>
            /\ LabelIn(D, vk[t], Frontier(t)[j], loop[t].h)'
            /\ loop[t].h < K => Offered(D, t, Frontier(t)[j])'
    BY <1>1, <1>2, <1>3, <1>4, <1>5, PassedKept DEF WalkRight
  <2>2. \A v, h : Needs(D, t, v, h)' <=> Needs(D, t, v, h)
    BY <1>1, <1>3, LeftKept
  <2>3. /\ loop[t].i \in Nat \ {0} /\ loop[t].i \in DOMAIN Frontier(t) /\ Frontier(t)[loop[t].i] = u
        /\ \A j \in DOMAIN Frontier(t) : j \in Nat
        /\ loop[t].h \in 0 .. K /\ m \in Vertices /\ distHop[s][u].dist \in Nat
    BY <1>0, <1>1, FrontierTypes, HereTypes
  <2>4. ASSUME Needs(D, t, u, loop[t].h)
        PROVE  LabelIn(D, vk[t], u, loop[t].h)' /\ (loop[t].h < K => Offered(D, t, u)')
    <3>1. distHop[s][u].dist = D[loop[t].h][<<m, u>>]
      BY <1>1, <1>2, <2>4 DEF WalkRight, Ready
    <3>2. PICK l : /\ L'[u] = Append(L[u], l)
                   /\ l.hub = m /\ l.hop = loop[t].h /\ l.dist = distHop[s][u].dist
      BY <1>0, PushEffect
    <3>3. L[u] \in Seq(Labels)
      BY <1>1 DEF ScratchTypes
    <3>4. Len(L[u]) + 1 \in DOMAIN L'[u] /\ L'[u][Len(L[u]) + 1] = l
      BY <3>2, <3>3
    <3>5. LabelIn(D, vk[t], u, loop[t].h)'
      <4> SUFFICES \E i \in DOMAIN L'[u] : /\ L'[u][i].hub = m /\ L'[u][i].hop = loop[t].h
                                           /\ L'[u][i].dist = D[loop[t].h][<<m, u>>]
        BY <1>1, <1>3 DEF LabelIn
      <4> QED BY <3>1, <3>2, <3>4
    <3>6. ASSUME loop[t].h < K PROVE Offered(D, t, u)'
      <4>1. PICK n \in 0 .. K : n = loop[t].h + 1 /\ n = loop'[t].h + 1 /\ n - 1 = loop[t].h
        <5>1. loop[t].h + 1 \in 0 .. K /\ (loop[t].h + 1) - 1 = loop[t].h
          BY <2>3, <3>6, Sizes
        <5> QED BY <1>3, <5>1
      <4>2. ASSUME NEW x \in Vertices, Needs(D, t, x, n), Leads(w, D, Blockers(t), m, u, x, n)
            PROVE  x \in DOMAIN loop'[t].upd /\ loop'[t].upd[x].dist <= D[n][<<m, x>>]
        <5>1. /\ u \in Nbrs(w, x) /\ D[n][<<m, x>>] = distHop[s][u].dist + w[<<u, x>>]
          BY <3>1, <4>1, <4>2 DEF Leads
        <5>2. x \in Nbrs(w, u)
          BY <1>1, <5>1, Dists0 DEF Nbrs, Undirected
        <5>3. D[n][<<m, x>>] < D[loop[t].h][<<m, x>>]
          BY <2>3, <4>1, <4>2 DEF Needs, Needed
        <5>4. D[loop[t].h][<<m, x>>] <= distHop[s][x].dist
          BY <1>2 DEF WalkRight, Careful
        <5>5. /\ D[n][<<m, x>>] \in Nat /\ D[loop[t].h][<<m, x>>] \in Nat
              /\ distHop[s][x].dist \in Nat
          BY <1>1, <2>3, Dists0, FrontierTypes
        <5>6. x \in Improved(s, u)
          <6>1. D[n][<<m, x>>] < distHop[s][x].dist
            BY <5>3, <5>4, <5>5
          <6> QED BY <5>1, <5>2, <6>1 DEF Improved
        <5> QED BY <1>5, <5>1, <5>6
      <4>3. \A x \in Vertices : Needs(D, t, x, n)' /\ Leads(w, D, Blockers(t), m, u, x, n)' =>
               x \in DOMAIN loop'[t].upd /\ loop'[t].upd[x].dist <= D[n][<<m, x>>]
        <5> SUFFICES ASSUME NEW x \in Vertices, Needs(D, t, x, n)',
                            Leads(w, D, Blockers(t), m, u, x, n)'
                     PROVE  Needs(D, t, x, n) /\ Leads(w, D, Blockers(t), m, u, x, n)
          BY <4>2
        <5>1. Blockers(t)' = Blockers(t)
          BY <1>1, <1>3, LeftKept
        <5> QED BY <1>1, <2>2, <5>1
      <4> QED BY <1>1, <4>1, <4>3 DEF Offered
    <3> QED BY <3>5, <3>6
  <2> SUFFICES ASSUME NEW j \in DOMAIN Frontier(t), j < loop[t].i + 1,
                      Needs(D, t, Frontier(t)[j], loop[t].h)
               PROVE  /\ LabelIn(D, vk[t], Frontier(t)[j], loop[t].h)'
                      /\ loop[t].h < K => Offered(D, t, Frontier(t)[j])'
    BY <1>3, <1>4, <2>2 DEF Passed
  <2>5. CASE j < loop[t].i
    BY <2>1, <2>5
  <2>6. CASE j = loop[t].i
    <3> SUFFICES LabelIn(D, vk[t], u, loop[t].h)' /\ (loop[t].h < K => Offered(D, t, u)')
      BY <1>3, <1>4, <2>3, <2>6
    <3> QED BY <2>3, <2>4, <2>6
  <2> QED BY <2>3, <2>5, <2>6
<1>8. WalkRight(D, t)'
  BY <1>1, <1>2, <1>3, <1>4, <1>6, <1>7, WalkKept
<1> QED BY <1>1, <1>8 DEF TaskRight
----------------------------------------------------------------------------
(* How a step moves its task: it begins, goes on with the same blockers,   *)
(* or ends.                                                                *)
LEMMA StepCourse ==
  ASSUME SlotInv, ScratchInv, NEW t \in Workers, Step(t)
  PROVE  /\ ~AtWork(t) => UNCHANGED finished
         /\ AtWork(t)' /\ ~AtWork(t) => Snapshot(t) /\ vk'[t] = vk[t]
         /\ AtWork(t) =>
              /\ vk'[t] = vk[t]
              /\ \/ UNCHANGED finished /\ AtWork(t)' /\ Blockers(t)' = Blockers(t)
                 \/ pc[t] = "return" /\ finished' = finished \cup {vk[t]}
<1>1. pc \in [Workers -> PcStates] /\ ScratchTypes
  BY DEF SlotInv, SlotTypes, ScratchInv
<1>2. CASE TakeTask(t) \/ TakeSlot(t)
  <2>1. pc[t] \in {"idle", "slot"} /\ pc'[t] \in {"slot", "snapshot"} /\ UNCHANGED finished
    BY <1>1, <1>2 DEF TakeTask, TakeSlot
  <2> QED BY <2>1 DEF AtWork
<1>3. CASE Snapshot(t)
  <2>1. pc[t] = "snapshot" /\ UNCHANGED <<finished, vk>>
    BY <1>3 DEF Snapshot
  <2> QED BY <1>3, <2>1 DEF AtWork
<1>4. CASE Test(t)
  <2>1. /\ pc[t] = "walk" /\ pc'[t] \in {"walk", "push"} /\ UNCHANGED <<finished, vk, cpuType>>
        /\ loop' = loop \/ loop' = [loop EXCEPT ![t].i = @ + 1]
    BY <1>1, <1>4 DEF Test, main
  <2>2. loop'[t].hubs = loop[t].hubs
    BY <1>1, <2>1 DEF ScratchTypes, Walks
  <2> QED BY <2>1, <2>2 DEF AtWork, Blockers
<1>5. CASE Push(t)
  <2>1. /\ pc[t] = "push" /\ pc'[t] = "walk" /\ UNCHANGED <<finished, vk, cpuType>>
    BY <1>5, PushEffect
  <2>2. loop'[t] = Walk(loop[t].h, loop[t].i + 1, loop[t].changed,
                        Offer(loop[t].upd, used[t], Here(t)), loop[t].hubs)
    BY <1>5, PushEffect
  <2>3. loop'[t].hubs = loop[t].hubs
    BY <2>2 DEF Walk
  <2> QED BY <2>1, <2>3 DEF AtWork, Blockers
<1>6. CASE NextHop(t)
  <2>1. /\ pc[t] = "walk" /\ pc'[t] \in {"walk", "reset"} /\ UNCHANGED <<finished, vk, cpuType>>
        /\ \/ loop' = loop
           \/ loop' = [loop EXCEPT ![t] =
                Walk(loop[t].h + 1, 1, loop[t].changed \cup DOMAIN loop[t].upd, <<>>, loop[t].hubs)]
    BY <1>1, <1>6 DEF NextHop, main
  <2>2. loop'[t].hubs = loop[t].hubs
    BY <1>1, <2>1 DEF ScratchTypes, Walk
  <2> QED BY <2>1, <2>2 DEF AtWork, Blockers
<1>7. CASE Reset(t)
  <2>1. pc[t] = "reset" /\ pc'[t] = "return" /\ UNCHANGED <<finished, vk, loop, cpuType>>
    BY <1>1, <1>7 DEF Reset, main
  <2> QED BY <2>1 DEF AtWork, Blockers
<1>8. CASE ReturnSlot(t)
  <2>1. /\ pc[t] = "return" /\ pc'[t] = "idle" /\ UNCHANGED vk
        /\ finished' = finished \cup {vk[t]}
    BY <1>1, <1>8 DEF ReturnSlot
  <2> QED BY <2>1 DEF AtWork
<1> QED BY <1>2, <1>3, <1>4, <1>5, <1>6, <1>7, <1>8 DEF Step

LEMMA StartedStays ==
  ASSUME SlotInv, ScratchInv, NEW t \in Workers, Step(t), Frame(t), NEW m, Started(m)
  PROVE  Started(m)'
<1>1. CASE m \in finished
  <2>1. m \in finished'
    BY <1>1, StepCourse
  <2> QED BY <2>1 DEF Started
<1>2. ASSUME NEW u \in Workers, AtWork(u), vk[u] = m PROVE Started(m)'
  <2>1. CASE u = t
    <3>1. m \in finished' \/ (AtWork(t)' /\ vk'[t] = m)
      BY <1>2, <2>1, StepCourse
    <3> QED BY <3>1 DEF Started
  <2>2. CASE u # t
    <3>1. AtWork(u)' /\ vk'[u] = m
      BY <1>2, <2>2 DEF Frame, AtWork
    <3> QED BY <3>1 DEF Started
  <2> QED BY <2>1, <2>2
<1> QED BY <1>1, <1>2 DEF Started

(* Of the labels only the one a push appends is new.                       *)
LEMMA LabelsRightNext ==
  ASSUME SlotInv, ScratchInv, ScratchTypes', NEW D, D = HopDist(w), LabelsRight(D),
         NEW t \in Workers, Step(t), Frame(t), TaskRight(D, t)
  PROVE  LabelsRight(D)'
<1>1. ScratchTypes /\ UNCHANGED cpuType
  BY DEF ScratchInv, Frame
<1>2. ASSUME NEW v \in Vertices, NEW l, LabelRight(D, v, l)
      PROVE  LabelRight(D, v, l)'
  BY <1>1, <1>2, StartedStays DEF LabelRight
<1>3. CASE Push(t)
  <2>1. PICK u \in Vertices : u = Here(t) /\ AtVertex(t)
    BY <1>3, PushEffect
  <2>2. PICK l : /\ L'[u] = Append(L[u], l)
                 /\ l.hub = vk[t] /\ l.hop = loop[t].h /\ l.dist = distHop[used[t]][u].dist
    BY <1>3, <2>1, PushEffect
  <2>3. /\ \A v \in Vertices \ {u} : L'[v] = L[v]
        /\ vk'[t] = vk[t] /\ pc[t] = "push" /\ pc'[t] = "walk"
    BY <1>3, <2>1, PushEffect
  <2>4. /\ loop[t].h \in 0 .. K /\ vk[t] \in Vertices /\ distHop[used[t]][u].dist \in Nat
    BY <1>1, FrontierTypes
  <2>5. WalkRight(D, t) /\ (cpuType = 0 => vk[t] <= u)
    BY <2>1, <2>3 DEF TaskRight
  <2>6. D[loop[t].h][<<vk[t], u>>] <= distHop[used[t]][u].dist
    BY <2>5 DEF WalkRight, Careful
  <2>7. Started(l.hub)'
    BY <2>2, <2>3 DEF Started, AtWork
  <2>8. SoundLabel(D, l, u)
    BY <2>2, <2>4, <2>6 DEF SoundLabel
  <2>9. LabelRight(D, u, l)'
    BY <1>1, <2>2, <2>5, <2>7, <2>8 DEF LabelRight
  <2>10. ASSUME NEW i \in DOMAIN L'[u] PROVE LabelRight(D, u, L[u][i])'
    <3>1. L[u] \in Seq(Labels)
      BY <1>1 DEF ScratchTypes
    <3>2. L'[u][i] = l \/ (i \in DOMAIN L[u] /\ L'[u][i] = L[u][i])
      BY <2>2, <3>1
    <3>3. CASE L'[u][i] = l
      BY <2>9, <3>3
    <3>4. CASE i \in DOMAIN L[u] /\ L'[u][i] = L[u][i]
      <4>1. LabelRight(D, u, L[u][i])
        BY <3>4 DEF LabelsRight
      <4> SUFFICES ASSUME NEW a, a = L[u][i] PROVE LabelRight(D, u, a)'
        BY <3>4
      <4> QED BY <1>2, <4>1
    <3> QED BY <3>2, <3>3, <3>4
  <2>11. ASSUME NEW v \in Vertices \ {u}, NEW i \in DOMAIN L'[v] PROVE LabelRight(D, v, L[v][i])'
    <3>1. i \in DOMAIN L[v] /\ L'[v] = L[v]
      BY <2>3
    <3>2. LabelRight(D, v, L[v][i])
      BY <3>1 DEF LabelsRight
    <3> SUFFICES ASSUME NEW a, a = L[v][i] PROVE LabelRight(D, v, a)'
      BY <3>1
    <3> QED BY <1>2, <3>2
  <2> QED BY <2>10, <2>11 DEF LabelsRight
<1>4. CASE UNCHANGED L
  <2> SUFFICES ASSUME NEW v \in Vertices, NEW i \in DOMAIN L[v] PROVE LabelRight(D, v, L[v][i])'
    BY <1>4 DEF LabelsRight
  <2>1. LabelRight(D, v, L[v][i])
    BY DEF LabelsRight
  <2> SUFFICES ASSUME NEW a, a = L[v][i] PROVE LabelRight(D, v, a)'
    BY <1>4
  <2> QED BY <1>2, <2>1
<1>5. Push(t) \/ UNCHANGED L
  BY DEF Step, TakeTask, TakeSlot, Snapshot, Test, NextHop, Reset, ReturnSlot
<1> QED BY <1>3, <1>4, <1>5

(* A task that ends has left every label no blocker of it can answer.      *)
LEMMA TaskLeaves ==
  ASSUME SlotInv, ScratchInv, NEW D, NEW t \in Workers, pc[t] = "return", TaskRight(D, t),
         NEW v \in Vertices, NEW h \in 0 .. K, Needs(D, t, v, h)
  PROVE  LabelIn(D, vk[t], v, h)
<1>1. Left(D, t, K + 1) /\ h < K + 1
  BY Sizes DEF TaskRight
<1> QED BY <1>1 DEF Left

LEMMA RankKeptNext ==
  ASSUME SlotInv, ScratchInv, ScratchTypes', NEW D, cpuType = 0, RankKept(D),
         NEW t \in Workers, Step(t), Frame(t), TaskRight(D, t)
  PROVE  RankKept(D)'
<1>1. ScratchTypes /\ Grows
  BY DEF ScratchInv, Frame
<1> SUFFICES ASSUME NEW m \in finished', NEW v \in Vertices, NEW h \in 0 .. K,
                    Needed(D, 0 .. m - 1, m, v, h)
             PROVE  LabelIn(D, m, v, h)'
  BY DEF RankKept
<1>2. LabelIn(D, m, v, h)
  <2>1. CASE m \in finished
    BY <2>1 DEF RankKept
  <2>2. CASE m \notin finished
    <3>1. m = vk[t] /\ pc[t] = "return"
      BY <2>2, StepCourse
    <3>2. Needs(D, t, v, h)
      BY <3>1 DEF Needs, Blockers
    <3> QED BY <3>1, <3>2, TaskLeaves
  <2> QED BY <2>1, <2>2
<1> QED BY <1>1, <1>2, LabelStays

LEMMA FirstKeptNext ==
  ASSUME SlotInv, TaskInv, ScratchInv, ScratchTypes', NEW D, cpuType = 1, LabelsRight(D),
         FirstKept(D), NEW t \in Workers, Step(t), Frame(t), TaskRight(D, t)
  PROVE  FirstKept(D)'
<1>1. ScratchTypes /\ Grows /\ UNCHANGED cpuType
  BY DEF ScratchInv, Frame
<1> SUFFICES ASSUME NEW M \in SUBSET Vertices, NEW n \in M, Started(n)'
             PROVE  \E c \in M : FirstOf(D, M, c)'
  BY DEF FirstKept
<1>2. CASE \E m \in M : Started(m)
  <2>1. PICK c \in M : FirstOf(D, M, c)
    BY <1>2 DEF FirstKept
  <2>2. CASE c \in finished /\ \A v \in Vertices, h \in 0 .. K :
                                  Needed(D, Vertices \ M, c, v, h) => LabelIn(D, c, v, h)
    <3>1. c \in finished'
      BY <2>2, StepCourse
    <3>2. \A v \in Vertices, h \in 0 .. K :
            Needed(D, Vertices \ M, c, v, h) => LabelIn(D, c, v, h)'
      BY <1>1, <2>2, LabelStays
    <3> QED BY <3>1, <3>2 DEF FirstOf
  <2>3. ASSUME NEW u \in Workers, AtWork(u), vk[u] = c, Blockers(u) \cap M = {}
        PROVE  FirstOf(D, M, c)'
    <3>1. CASE u # t
      <4>1. AtWork(u)' /\ vk'[u] = c /\ Blockers(u)' = Blockers(u)
        BY <1>1, <2>3, <3>1 DEF Frame, AtWork, Blockers
      <4> QED BY <2>3, <4>1 DEF FirstOf
    <3>2. CASE u = t /\ AtWork(t)' /\ Blockers(t)' = Blockers(t)
      BY <2>3, <3>2, StepCourse DEF FirstOf
    <3>3. CASE u = t /\ pc[t] = "return" /\ finished' = finished \cup {vk[t]}
      <4>1. ASSUME NEW v \in Vertices, NEW h \in 0 .. K, Needed(D, Vertices \ M, c, v, h)
            PROVE  LabelIn(D, c, v, h)'
        <5>1. Blockers(t) \subseteq Vertices \ M
          BY <1>1, <2>3, <3>3, FrontierTypes
        <5>2. Needs(D, t, v, h)
          BY <2>3, <3>3, <4>1, <5>1 DEF Needs, Needed
        <5>3. LabelIn(D, c, v, h)
          BY <2>3, <3>3, <5>2, TaskLeaves
        <5> QED BY <1>1, <5>3, LabelStays
      <4> QED BY <2>3, <3>3, <4>1 DEF FirstOf
    <3> QED BY <2>3, <3>1, <3>2, <3>3, StepCourse
  <2> QED BY <2>1, <2>2, <2>3 DEF FirstOf
<1>3. CASE ~ \E m \in M : Started(m)
  <2>1. PICK u \in Workers : AtWork(u)' /\ vk'[u] = n
    <3>1. n \notin finished'
      BY <1>3, StepCourse DEF Started
    <3> QED BY <3>1 DEF Started
  <2>2. u = t /\ Snapshot(t) /\ vk[t] = n
    <3>1. CASE u # t
      <4>1. AtWork(u) /\ vk[u] = n
        BY <2>1, <3>1 DEF Frame, AtWork
      <4> QED BY <1>3, <4>1 DEF Started
    <3>2. CASE u = t
      <4>1. ~AtWork(t)
        BY <1>3, <2>1, <3>2, StepCourse DEF Started
      <4> QED BY <2>1, <3>2, <4>1, StepCourse
    <3> QED BY <3>1, <3>2
  <2>3. Blockers(t)' = {l.hub : l \in ToSet(L[n])}
    <3>1. loop' = [loop EXCEPT ![t] = Walk(0, 1, {vk[t]}, <<>>, {l.hub : l \in ToSet(L[vk[t]])})]
      BY <2>2 DEF Snapshot
    <3>2. loop'[t].hubs = {l.hub : l \in ToSet(L[vk[t]])}
      BY <1>1, <3>1 DEF ScratchTypes, Walk
    <3> QED BY <1>1, <2>2, <3>2 DEF Blockers
  <2>4. ASSUME NEW l \in ToSet(L[n]) PROVE l.hub \notin M
    <3>1. PICK i \in DOMAIN L[n] : l = L[n][i]
      BY DEF ToSet
    <3>2. LabelRight(D, n, l)
      BY <3>1 DEF LabelsRight
    <3> QED BY <1>3, <3>2 DEF LabelRight
  <2>5. Blockers(t)' \cap M = {}
    BY <2>3, <2>4
  <2>6. FirstOf(D, M, n)'
    BY <2>1, <2>2, <2>5 DEF FirstOf
  <2> QED BY <2>6
<1> QED BY <1>2, <1>3

(* The inductive invariant, step by step.                                  *)
LEMMA KeptStep ==
  ASSUME CpuInv, CpuInv', NEW D, D = HopDist(w), KeptInv(D), NEW t \in Workers, Step(t)
  PROVE  KeptInv(D)'
<1>1. /\ SlotInv /\ TaskInv /\ ScratchInv /\ ScratchInv' /\ ScratchTypes /\ ScratchTypes'
      /\ LabelsRight(D) /\ TaskRight(D, t)
  BY DEF CpuInv, ScratchInv, KeptInv
<1>2. Frame(t) /\ UNCHANGED <<w, cpuType>> /\ Grows
  BY <1>1, StepFrame DEF Frame
<1>3. TaskRight(D, t)'
  <2>1. CASE TakeTask(t) \/ TakeSlot(t) \/ ReturnSlot(t)
    <3>1. pc'[t] \in {"slot", "snapshot", "idle"}
      BY <1>1, <2>1 DEF TakeTask, TakeSlot, ReturnSlot, SlotInv, SlotTypes
    <3> QED BY <3>1 DEF TaskRight
  <2> QED BY <1>1, <1>2, <2>1, SnapshotRight, TestRight, PushRight, NextHopRight, ResetRight DEF Step
<1>4. ASSUME NEW u \in Workers PROVE TaskRight(D, u)'
  <2>1. CASE u # t
    <3>1. TaskRight(D, u) /\ u \in Workers \ {t}
      BY <2>1 DEF KeptInv
    <3> QED BY <1>1, <1>2, <3>1, TaskRightKept
  <2> QED BY <1>3, <2>1
<1>5. LabelsRight(D)'
  BY <1>1, <1>2, LabelsRightNext
<1>6. cpuType = 0 => RankKept(D)'
  BY <1>1, <1>2, RankKeptNext DEF KeptInv
<1>7. cpuType = 1 => FirstKept(D)'
  BY <1>1, <1>2, FirstKeptNext DEF KeptInv
<1> QED BY <1>2, <1>4, <1>5, <1>6, <1>7 DEF KeptInv

(* Between the steps of the tasks nothing changes, until the labels leave. *)
LEMMA KeptRests ==
  ASSUME NEW D, KeptInv(D),
         UNCHANGED <<w, cpuType, finished, pc, vk, used, loop, distHop, Vh, L, snap>>
  PROVE  KeptInv(D)'
<1>1. \A m : Started(m)' <=> Started(m)
  BY DEF Started, AtWork
<1>2. LabelsRight(D)'
  BY <1>1 DEF KeptInv, LabelsRight, LabelRight
<1>3. ASSUME NEW t \in Workers PROVE TaskRight(D, t)'
  <2>1. TaskRight(D, t)
    BY DEF KeptInv
  <2>2. Blockers(t)' = Blockers(t)
    BY DEF Blockers
  <2>3. \A v, h : Needs(D, t, v, h)' <=> Needs(D, t, v, h)
    BY <2>2 DEF Needs
  <2>4. \A m, v, h : LabelIn(D, m, v, h)' <=> LabelIn(D, m, v, h)
    BY DEF LabelIn
  <2>5. Seen(t)' = Seen(t) /\ Here(t)' = Here(t)
    BY DEF Seen, Here
  <2>6. Frontier(t)' = Frontier(t) /\ NextFrontier(t)' = NextFrontier(t)
    BY DEF Frontier, NextFrontier
  <2>7. Careful(D, t)' <=> Careful(D, t)
    BY <2>6 DEF Careful
  <2>8. Ready(D, t)' <=> Ready(D, t)
    BY <2>3, <2>6 DEF Ready
  <2>9. \A y : Offered(D, t, y)' <=> Offered(D, t, y)
    BY <2>2, <2>3 DEF Offered
  <2>10. Passed(D, t)' <=> Passed(D, t)
    BY <2>3, <2>4, <2>6, <2>9 DEF Passed
  <2>11. \A h : Left(D, t, h)' <=> Left(D, t, h)
    BY <2>3, <2>4 DEF Left
  <2>12. WalkRight(D, t)' <=> WalkRight(D, t)
    BY <2>2, <2>5, <2>7, <2>8, <2>10, <2>11 DEF WalkRight
  <2> QED BY <2>1, <2>5, <2>11, <2>12 DEF TaskRight
<1>4. \A m, v, h : LabelIn(D, m, v, h)' <=> LabelIn(D, m, v, h)
  BY DEF LabelIn
<1>5. cpuType = 0 => RankKept(D)'
  BY <1>4 DEF KeptInv, RankKept
<1>6. cpuType = 1 => FirstKept(D)'
  <2>1. \A t : /\ AtWork(t)' <=> AtWork(t)
               /\ Blockers(t)' = Blockers(t)
    BY DEF AtWork, Blockers
  <2>2. \A M, c : FirstOf(D, M, c) => FirstOf(D, M, c)'
    BY <1>4, <2>1 DEF FirstOf
  <2> QED BY <1>1, <2>2 DEF KeptInv, FirstKept
<1> QED BY <1>2, <1>3, <1>5, <1>6 DEF KeptInv

LEMMA KeptCollect ==
  ASSUME TaskInv, CollectGroup, NEW D
  PROVE  KeptInv(D)'
<1>1. /\ finished' = {} /\ L' = [v \in Vertices |-> <<>>] /\ UNCHANGED pc
  BY DEF CollectGroup
<1>2. \A t \in Workers : pc[t] = "idle"
  BY NoTaskLeft DEF Busy
<1>3. \A m : ~Started(m)'
  BY <1>1, <1>2 DEF Started, AtWork
<1>4. \A v \in Vertices : DOMAIN L'[v] = {}
  BY <1>1
<1> QED BY <1>1, <1>2, <1>3, <1>4 DEF KeptInv, LabelsRight, TaskRight, RankKept, FirstKept

(* The invariant, whatever the distances of the graph are called.          *)
KeptAlways ==
  /\ finished \subseteq Vertices
  /\ \A D : D = HopDist(w) => KeptInv(D)

LEMMA KeptStays ==
  ASSUME KeptAlways,
         UNCHANGED <<w, cpuType, finished, pc, vk, used, loop, distHop, Vh, L, snap>>
  PROVE  KeptAlways'
<1>1. ASSUME NEW D, D = HopDist(w)' PROVE KeptInv(D)'
  <2>1. D = HopDist(w)
    BY <1>1
  <2> QED BY <2>1, KeptRests DEF KeptAlways
<1> QED BY <1>1 DEF KeptAlways

LEMMA KeptMoves ==
  ASSUME CpuInv, CpuInv', KeptAlways, StartGroup \/ CollectGroup \/ \E t \in Workers : Step(t)
  PROVE  KeptAlways'
<1>1. CASE StartGroup
  BY <1>1, KeptStays DEF StartGroup
<1>2. CASE CollectGroup
  <2>1. finished' = {} /\ TaskInv
    BY <1>2 DEF CollectGroup, CpuInv
  <2>2. \A D : KeptInv(D)'
    BY <1>2, <2>1, KeptCollect
  <2> QED BY <2>1, <2>2 DEF KeptAlways
<1>3. ASSUME NEW t \in Workers, Step(t) PROVE KeptAlways'
  <2>1. SlotInv /\ ScratchInv /\ ScratchInv' /\ vk \in [Workers -> Vertices]
    BY DEF CpuInv, TaskInv
  <2>2. w' = w
    BY <1>3, <2>1, StepFrame DEF Frame
  <2>3. finished' \subseteq Vertices
    <3>1. finished' \in {finished, finished \cup {vk[t]}}
      BY <1>3 DEF Step, TakeTask, TakeSlot, Snapshot, Test, Push, NextHop, Reset, ReturnSlot
    <3> QED BY <2>1, <3>1 DEF KeptAlways
  <2>4. ASSUME NEW D, D = HopDist(w)' PROVE KeptInv(D)'
    <3>1. D = HopDist(w)
      BY <2>2, <2>4
    <3>2. KeptInv(D)
      BY <3>1 DEF KeptAlways
    <3> QED BY <1>3, <3>1, <3>2, KeptStep
  <2> QED BY <2>3, <2>4 DEF KeptAlways
<1> QED BY <1>1, <1>2, <1>3

LEMMA CanonicalLeft == CpuInv /\ KeptAlways => CanonicalKept
<1> SUFFICES ASSUME CpuInv, KeptAlways, cpuType = 0,
                    NEW m \in finished, NEW v \in Vertices, NEW h \in 0 .. K,
                    Canonical(HopDist(w), m, v, h)
             PROVE  \E i \in DOMAIN L[v] : /\ L[v][i].hub = m /\ L[v][i].hop = h
                                           /\ L[v][i].dist = HopDist(w)[h][<<m, v>>]
  BY Zenon DEF CanonicalKept
<1>0. PICK D : D = HopDist(w)
  OBVIOUS
<1>1. m \in Vertices /\ Undirected(w)
  BY CpuGraphIs DEF KeptAlways, CpuInv, ScratchInv, ScratchTypes
<1>2. Needed(D, 0 .. m - 1, m, v, h)
  BY <1>0, <1>1, CanonicalIsNeeded
<1>3. LabelIn(D, m, v, h)
  BY <1>0, <1>2 DEF KeptAlways, KeptInv, RankKept
<1> QED BY <1>0, <1>3 DEF LabelIn

(* When a task of the optimized function ends, its canonical labels are    *)
(* all in L_temp_599, whatever labels the tasks beside it have appended.   *)
THEOREM CanonicalAlwaysKept == Spec => []CanonicalKept
<1>1. Init => CpuInv /\ KeptAlways
  <2>1. Init => finished = {}
    BY DEF Init
  <2> QED BY <2>1, CpuInit, KeptInit DEF KeptAlways
<1>2. CpuInv /\ KeptAlways /\ [Next]_vars => (CpuInv /\ KeptAlways)'
  <2> SUFFICES ASSUME CpuInv, KeptAlways, [Next]_vars PROVE CpuInv' /\ KeptAlways'
    OBVIOUS
  <2>1. CpuInv'
    BY CpuNext
  <2>2. CASE StartGroup \/ CollectGroup \/ \E t \in Workers : Step(t)
    BY <2>1, <2>2, KeptMoves
  <2>3. CASE Done \/ UNCHANGED vars
    BY <2>1, <2>3, KeptStays DEF Done, vars
  <2> QED BY <2>1, <2>2, <2>3 DEF Next
<1>3. CpuInv /\ KeptAlways => CanonicalKept
  BY CanonicalLeft
<1> QED BY <1>1, <1>2, <1>3, PTL DEF Spec

LEMMA LoopKept ==
  ASSUME LoopInv, KeptAlways, [GenerationNext]_genVars
  PROVE  LoopInv' /\ KeptAlways'
<1>1. LoopInv'
  BY LoopNext
<1>2. CASE OnCpu
  BY <1>1, <1>2, KeptMoves DEF LoopInv, OnCpu
<1>3. CASE Dispatch \/ GenerationDone \/ UNCHANGED genVars
  <2>1. UNCHANGED vars
    BY <1>3 DEF Dispatch, GenerationDone, genVars
  <2> QED BY <1>1, <2>1, KeptStays DEF vars
<1>4. CASE OnGpu
  BY <1>1, <1>4, GpuLeaves, KeptStays
<1>5. CASE Convert
  <2>1. UNCHANGED w /\ UNCHANGED cpuVars
    BY <1>5, Zenon DEF Convert, GPU!Collect
  <2> QED BY <1>1, <2>1, KeptStays DEF cpuVars
<1> QED BY <1>2, <1>3, <1>4, <1>5 DEF GenerationNext

LEMMA LoopKeptInit == GenerationInit => LoopInv /\ KeptAlways
<1> SUFFICES ASSUME GenerationInit PROVE LoopInv /\ KeptAlways
  OBVIOUS
<1>1. Init /\ finished = {}
  BY DEF GenerationInit, Init
<1> QED BY <1>1, LoopInit, KeptInit DEF KeptAlways

(* And so for every group main gives a CPU executor.                       *)
THEOREM LoopCanonicalKept == GenerationSpec => []CanonicalKept
<1>1. LoopInv /\ KeptAlways /\ [GenerationNext]_genVars => (LoopInv /\ KeptAlways)'
  BY LoopKept
<1>2. LoopInv /\ KeptAlways => CanonicalKept
  BY CanonicalLeft DEF LoopInv
<1> QED BY <1>1, <1>2, LoopKeptInit, PTL DEF GenerationSpec
----------------------------------------------------------------------------
(***************************************************************************)
(* What is proved of the GPU generator holds of the one in the loop: its   *)
(* module and the theory of its labels, with the loop's variables.  The    *)
(* definitions two instances share are the same, which the provers are     *)
(* told one at a time.                                                     *)
(***************************************************************************)
GP == INSTANCE GpuLabelGenProofs WITH pc <- gpc, L <- hostL

LEMMA SameMin == \A S : GP!Min(S) = Min(S)
BY DEF GP!Min, Min

LEMMA SameGraph ==
  /\ GP!Vertices = Vertices /\ GP!Inf = Inf
  /\ \A g, v : GP!Nbrs(g, v) = Nbrs(g, v)
  /\ \A g : GP!NoIsolated(g) <=> NoIsolated(g)
BY DEF GP!Vertices, Vertices, GP!Inf, Inf, GP!NoIsolated, NoIsolated, GP!Nbrs, Nbrs

LEMMA SameGraphs == GP!GraphAssumption
<1>1. ASSUME NEW g \in Graphs
      PROVE /\ g \in [GP!Vertices \X GP!Vertices -> Nat]
            /\ \A u, v \in GP!Vertices : g[<<u, v>>] = g[<<v, u>>] /\ K * g[<<u, v>>] < GP!Inf
            /\ GP!NoIsolated(g)
  <2>1. /\ g \in [Vertices \X Vertices -> Nat]
        /\ \A u, v \in Vertices : g[<<u, v>>] = g[<<v, u>>] /\ K * g[<<u, v>>] < Inf
    BY CpuGraphAssumption, Zenon
  <2>2. NoIsolated(g)
    BY GpuGraphAssumption
  <2>3. GP!Vertices = Vertices /\ GP!Inf = Inf /\ GP!NoIsolated(g)
    BY <2>2, SameGraph
  <2> QED BY <2>1, <2>3, Zenon
<1> QED BY <1>1 DEF GP!GraphAssumption

LEMMA Assumed ==
  GP!SizeAssumption /\ GP!GraphAssumption /\ GP!GroupAssumption
<1>1. GP!SizeAssumption
  BY SizeAssumption DEF GP!SizeAssumption
<1>2. GP!GroupAssumption
  BY SameGraph, CpuGroupAssumption DEF GP!GroupAssumption, GP!ToSet, ToSet, GP!IsInjective, IsInjective
<1> QED BY <1>1, <1>2, SameGraphs

LEMMA SameSteps ==
  /\ GP!NoHops = NoHops
  /\ \A g, d : GP!OneHopMore(g, d) = OneHopMore(g, d)
<1>1. GP!NoHops = NoHops
  BY SameGraph DEF GP!NoHops, NoHops
<1>2. ASSUME NEW g, NEW d PROVE GP!OneHopMore(g, d) = OneHopMore(g, d)
  <2> DEFINE P == Vertices \X Vertices
             S1(p) == {GP!Min({Inf, d[<<p[1], x>>] + g[<<x, p[2]>>]}) : x \in Nbrs(g, p[2])}
             S2(p) == {Min({Inf, d[<<p[1], x>>] + g[<<x, p[2]>>]}) : x \in Nbrs(g, p[2])}
  <2>1. \A p \in P : S1(p) = S2(p)
    BY SameMin
  <2>2. GP!OneHopMore(g, d) = [p \in P |-> GP!Min({d[p]} \cup S1(p))]
    BY SameGraph, Zenon DEF GP!OneHopMore
  <2>3. OneHopMore(g, d) = [p \in P |-> Min({d[p]} \cup S2(p))]
    BY Zenon DEF OneHopMore
  <2> HIDE DEF S1, S2, P
  <2>4. \A p \in P : GP!Min({d[p]} \cup S1(p)) = Min({d[p]} \cup S2(p))
    BY <2>1, SameMin
  <2> QED BY <2>2, <2>3, <2>4
<1> QED BY <1>1, <1>2

LEMMA SameDist ==
  ASSUME NEW g, Undirected(g)
  PROVE  GP!HopDist(g) = HopDist(g)
<1> DEFINE A == HopDist(g)
           B == GP!HopDist(g)
           Q == {k \in 0 .. K : A[k] = B[k]}
<1>1. /\ A \in [0 .. K -> Distances] /\ A[0] = NoHops
      /\ \A k \in 1 .. K : A[k] = OneHopMore(g, A[k - 1])
  BY DistRecursion
<1>2. /\ B = [k \in 0 .. K |-> B[k]] /\ B[0] = NoHops
      /\ \A k \in 1 .. K : B[k] = OneHopMore(g, B[k - 1])
  <2>1. GP!Undirected(g)
    BY SameGraph DEF Undirected, GP!Undirected
  <2>2. /\ B \in [0 .. K -> GP!Distances] /\ B[0] = GP!NoHops
      /\ \A k \in 1 .. K : B[k] = GP!OneHopMore(g, B[k - 1])
    BY <2>1, Assumed, GP!DistRecursion DEF GP!DistRecursion
  <2> HIDE DEF B
  <2> QED BY <2>2, SameSteps
<1> HIDE DEF A, B
<1>3. K \in Nat
  BY Sizes
<1>4. 0 \in Q
  BY <1>1, <1>2, <1>3
<1>5. ASSUME NEW k \in 0 .. K - 1, k \in Q PROVE k + 1 \in Q
  <2>1. k + 1 \in 1 .. K /\ (k + 1) - 1 = k /\ k + 1 \in 0 .. K
    BY <1>3
  <2> QED BY <1>1, <1>2, <1>5, <2>1
<1>6. 0 .. K \subseteq Q
  <2> HIDE DEF Q
  <2> QED BY <1>3, <1>4, <1>5, UpTo
<1>7. A = B
  <2>1. \A k \in 0 .. K : A[k] = B[k]
    BY <1>6
  <2> QED BY ONLY <1>1, <1>2, <2>1
<1> QED BY <1>7 DEF A, B

LEMMA SameLabel ==
  /\ \A D, l, v : GP!SoundLabel(D, l, v) <=> SoundLabel(D, l, v)
  /\ \A D, m, v, h : GP!Canonical(D, m, v, h) <=> Canonical(D, m, v, h)
BY DEF GP!SoundLabel, SoundLabel, GP!Vertices, Vertices, GP!Canonical, Canonical, GP!Inf, Inf
LEMMA SameSelf == \A v : GPU!SelfLabel(v) = GP!SelfLabel(v)
BY DEF GPU!SelfLabel, GP!SelfLabel, GPU!FirstNbr, GP!FirstNbr, GPU!Nbrs, GP!Nbrs, GPU!Vertices,
       GP!Vertices, GPU!Min, GP!Min

LEMMA SamePut == \A buf, pos, s : GPU!Put(buf, pos, s) = GP!Put(buf, pos, s)
BY DEF GPU!Put, GP!Put

LEMMA SameSelect == \A buf, S : GPU!Select(buf, S) = GP!Select(buf, S)
BY DEF GPU!Select, GP!Select, GPU!Ordered, GP!Ordered, GPU!Cardinality, GP!Cardinality

LEMMA SameRadixSort == \A S : GPU!RadixSort(S) = GP!RadixSort(S)
BY DEF GP!RadixSort, GPU!RadixSort, GP!WordLess, GPU!WordLess, GP!Word, GPU!Word,
       GPU!Ordered, GP!Ordered, GP!Cardinality, GPU!Cardinality

LEMMA SameAt == \A buf, i : GPU!At(buf, i) = GP!At(buf, i)
BY SameSelf DEF GPU!At, GP!At, GPU!ZeroLabel, GP!ZeroLabel

LEMMA SameInsertAll ==
  \A f, labels, hops : GPU!InsertAll(f, labels, hops) = GP!InsertAll(f, labels, hops)
BY DEF GPU!InsertAll, GP!InsertAll, GPU!Keys, GP!Keys

LEMMA SameSelections == \A C : GPU!Selections(C) = GP!Selections(C)
BY DEF GP!Selections, GPU!Selections, GP!Cheapest, GPU!Cheapest, GP!SameKey, GPU!SameKey

LEMMA SameCandidates == GPU!Candidates = GP!Candidates
BY DEF GPU!Candidates, GP!Candidates, GP!Spreads, GPU!Spreads, GPU!Nbrs, GP!Nbrs, GPU!Vertices, GP!Vertices

LEMMA SamePruned == \A l : GPU!Pruned(l) <=> GP!Pruned(l)
<1>1. \A key : GPU!HashQuery(key) = GP!HashQuery(key)
  BY DEF GPU!HashQuery, GP!HashQuery, GPU!Inf, GP!Inf
<1> QED BY ONLY <1>1, SameAt DEF GPU!Pruned, GP!Pruned

LEMMA SamePrune == GPU!Prune => GP!Prune
<1> SUFFICES ASSUME GPU!Prune PROVE GP!Prune
  OBVIOUS
<1> DEFINE new == lastPos .. lastPos + lastSize - 1
           stay == {i \in new : ~GPU!Pruned(T[i])}
           kept == GPU!Select(T, stay)
<1>1. stay = {i \in new : ~GP!Pruned(T[i])}
  BY SamePruned
<1>2. kept = GP!Select(T, {i \in new : ~GP!Pruned(T[i])})
  BY <1>1, SameSelect, Zenon
<1>3. /\ gpc = "prune" /\ T' = GPU!Put(T, lastPos, kept) /\ hostL' = GPU!Put(hostL, totL + lastPos, kept)
      /\ lastSize' = Len(kept) /\ gpc' = "update"
      /\ UNCHANGED <<w, groups, gid, hop, lastPos, begin, end, has, totL, LHybrid, own>>
  BY Zenon DEF GPU!Prune
<1>4. T' = GP!Put(T, lastPos, kept) /\ hostL' = GP!Put(hostL, totL + lastPos, kept)
  BY <1>3, SamePut, Zenon
<1> HIDE DEF kept
<1>5. GP!Prune <=>
      /\ gpc = "prune" /\ T' = GP!Put(T, lastPos, kept) /\ hostL' = GP!Put(hostL, totL + lastPos, kept)
      /\ lastSize' = Len(kept) /\ gpc' = "update"
      /\ UNCHANGED <<w, groups, gid, hop, lastPos, begin, end, has, totL, LHybrid, own>>
  BY <1>2, Zenon DEF GP!Prune
<1> QED BY <1>3, <1>4, <1>5

LEMMA SameStartGroup == GPU!StartGroup => GP!StartGroup
<1> DEFINE grp == groups[gid]
           mine == [i \in 1 .. Len(grp) |-> GPU!SelfLabel(grp[i])]
           self == [i \in 1 .. Len(grp) |-> GP!SelfLabel(grp[i])]
<1>1. mine = self
  BY SameSelf
<1>2. GPU!Vertices = GP!Vertices /\ (\A s : GPU!ToSet(s) = GP!ToSet(s))
  BY DEF GPU!ToSet, GP!ToSet, GPU!Vertices, GP!Vertices
<1>3. GPU!Put(T, 1, mine) = GP!Put(T, 1, self) /\ GPU!Put(hostL, totL + 1, mine) = GP!Put(hostL, totL + 1, self)
  BY <1>1, SamePut
<1>4. GPU!InsertAll(has, GPU!ToSet(mine), 0 .. K) = GP!InsertAll(has, GP!ToSet(self), 0 .. K)
  BY <1>1, <1>2, SameInsertAll
<1> QED BY ONLY <1>2, <1>3, <1>4, Zenon DEF GPU!StartGroup, GP!StartGroup

LEMMA SameExpand == GPU!Expand => GP!Expand
BY SamePut, SameRadixSort, SameSelections, SameCandidates
DEF GPU!Expand, GP!Expand, GP!Cardinality, GPU!Cardinality

LEMMA SameUpdateHash == GPU!UpdateHash => GP!UpdateHash
<1>1. \A S : GPU!Min(S) = GP!Min(S) /\ GPU!Max(S) = GP!Max(S)
  BY DEF GPU!Min, GP!Min, GPU!Max, GP!Max
<1> QED BY ONLY <1>1, SameAt, SameInsertAll, SMTT(60) DEF GPU!UpdateHash, GP!UpdateHash

LEMMA SameOffsetsOwn == GPU!OffsetsOwn <=> GP!OffsetsOwn
BY DEF GPU!OffsetsOwn, GP!OffsetsOwn, GPU!Vertices, GP!Vertices

LEMMA SameFinishGroup == GPU!FinishGroup => GP!FinishGroup
BY SameOffsetsOwn DEF GPU!FinishGroup, GP!FinishGroup, GPU!ClearedKeys, GP!ClearedKeys, GPU!Keys, GP!Keys

LEMMA SameInit == GPU!Init => GP!Init
BY DEF GPU!Init, GP!Init, GPU!Sentinel, GP!Sentinel, GPU!Vertices, GP!Vertices
LEMMA StepAlone ==
  ASSUME NEW t \in Workers, Step(t)
  PROVE  UNCHANGED <<w, groups, gid, LHybrid>>
<1>1. UNCHANGED main
  BY Zenon DEF Step, TakeTask, TakeSlot, Snapshot, Test, Push, NextHop, Reset, ReturnSlot
<1> QED BY <1>1 DEF main

(* The GPU's data change only while a GPU executor has the group.          *)
GpuHeld == GP!GpuInv /\ (GP!InGroup => turn.type = 1)

LEMMA GpuHeldInit == GenerationInit => GpuHeld
<1> SUFFICES ASSUME GenerationInit PROVE GpuHeld
  OBVIOUS
<1>1. GP!Init /\ gpc = "idle"
  BY SameInit DEF GenerationInit, GPU!Init
<1>2. GP!GpuInv
  BY <1>1, Assumed, GP!GpuInit DEF GP!GpuInit
<1> QED BY <1>1, <1>2 DEF GpuHeld, GP!InGroup

LEMMA GpuHeldNext ==
  ASSUME LoopInv, LoopInv', GpuHeld, [GenerationNext]_genVars
  PROVE  GpuHeld' /\ GP!HostStays
<1>0. GP!GpuInv /\ gid' \in Nat \ {0} /\ (gpc \in {"idle", "done"} \/ GP!InGroup)
  BY DEF GpuHeld, GP!GpuInv, GP!GpuTypes, LoopInv, CpuInv, TaskInv
<1>1. ASSUME ~GP!InGroup, gpc' \in {"idle", "done"},
             UNCHANGED <<w, groups, T, lastPos, lastSize, begin, end, has, hostL, totL>>
      PROVE  GpuHeld' /\ GP!HostStays
  <2>1. GP!GpuInv' /\ GP!HostStays
    BY <1>0, <1>1, Assumed, GP!GpuRests DEF GP!GpuRests
  <2> QED BY <1>1, <2>1 DEF GpuHeld, GP!InGroup
<1>2. turn.type # 1 => ~GP!InGroup /\ gpc \in {"idle", "done"}
  BY <1>0 DEF GpuHeld
<1>3. CASE Dispatch
  <2>1. turn.type # 1 /\ UNCHANGED <<vars, gpuVars>>
    BY <1>3 DEF Dispatch, NoTurn
  <2> QED BY <1>1, <1>2, <2>1 DEF vars, gpuVars
<1>4. CASE OnCpu
  <2>1. turn.type # 1 /\ UNCHANGED gpuVars
    BY <1>4 DEF OnCpu
  <2>2. UNCHANGED <<w, groups>>
    <3>1. CASE StartGroup \/ CollectGroup
      BY <3>1 DEF StartGroup, CollectGroup
    <3>2. ASSUME NEW t \in Workers, Step(t) PROVE UNCHANGED <<w, groups>>
      BY <3>2, StepAlone
    <3> QED BY <1>4, <3>1, <3>2 DEF OnCpu
  <2> QED BY <1>1, <1>2, <2>1, <2>2 DEF gpuVars
<1>5. CASE OnGpu
  <2>1. turn.type = 1
    BY <1>5 DEF OnGpu
  <2>2. CASE (GPU!StartGroup \/ GPU!Expand \/ GPU!Prune \/ GPU!UpdateHash) /\ UNCHANGED turn
    <3>1. GP!StartGroup \/ GP!Expand \/ GP!Prune \/ GP!UpdateHash
      BY <2>2, SameStartGroup, SameExpand, SamePrune, SameUpdateHash
    <3>2. GP!GpuInv' /\ GP!HostStays
      BY <1>0, <3>1, Assumed, GP!GpuSteps DEF GP!GpuSteps
    <3> QED BY <2>1, <2>2, <3>2 DEF GpuHeld
  <2>3. CASE GPU!FinishGroup
    <3>1. GP!FinishGroup /\ gpc' = "idle"
      BY <2>3, SameFinishGroup DEF GPU!FinishGroup
    <3>2. GP!GpuInv' /\ GP!HostStays
      BY <1>0, <3>1, Assumed, GP!GpuSteps DEF GP!GpuSteps
    <3> QED BY <3>1, <3>2 DEF GpuHeld, GP!InGroup
  <2> QED BY <1>5, <2>2, <2>3 DEF OnGpu
<1>6. CASE Convert
  <2>1. turn.type # 1
    BY <1>6 DEF Convert, NoTurn
  <2>2. gpc' = "done" /\ UNCHANGED <<w, groups, T, lastPos, lastSize, begin, end, has, hostL, totL>>
    BY <1>6, Zenon DEF Convert, GPU!Collect
  <2> QED BY <1>1, <1>2, <2>1, <2>2
<1>7. CASE GenerationDone \/ UNCHANGED genVars
  <2>1. UNCHANGED GP!vars /\ UNCHANGED <<gpc, turn>>
    BY <1>7 DEF GenerationDone, genVars, gpuVars, vars, GP!vars
  <2>2. GP!GpuInv' /\ GP!HostStays
    BY <1>0, <2>1, Assumed, GP!GpuStutters DEF GP!GpuStutters
  <2> QED BY <2>1, <2>2 DEF GpuHeld, GP!InGroup
<1> QED BY <1>3, <1>4, <1>5, <1>6, <1>7 DEF GenerationNext
(***************************************************************************)
(* The labels of a finished group, wherever they are: in L_hybrid if a CPU *)
(* executor had it, in main's buffer if a GPU executor had.  Of every set  *)
(* of vertices whose highest ranked one is of the group, one has left all  *)
(* labels that no vertex outside the set answers: with rank pruning, and   *)
(* on the GPU, that one; else the one whose task copied its labels first.  *)
(***************************************************************************)
Mixed(D, c, v, h) ==
  \/ \E i \in DOMAIN LHybrid[v] :
       /\ LHybrid[v][i].hub = c /\ LHybrid[v][i].hop = h
       /\ LHybrid[v][i].dist = D[h][<<c, v>>]
  \/ \E j \in 1 .. totL :
       /\ hostL[j].hub = c /\ hostL[j].to = v /\ hostL[j].hop = h
       /\ hostL[j].dist = D[h][<<c, v>>]
Serves(D, M, c) ==
  \A v \in Vertices, h \in 0 .. K : Needed(D, Vertices \ M, c, v, h) => Mixed(D, c, v, h)
Tops(M, m) == m \in M /\ \A x \in M : m <= x
GroupServed(D, g) ==
  \A M \in SUBSET Vertices :
    (\E m \in ToSet(groups[g]) : Tops(M, m)) => \E c \in M : Serves(D, M, c)

HybridSound(D) == \A v \in Vertices : \A i \in DOMAIN LHybrid[v] : SoundLabel(D, LHybrid[v][i], v)
MixedInv ==
  gpc # "done" =>
    /\ LHybrid \in [Vertices -> Seq(Labels)]
    /\ \A D : D = HopDist(w) =>
         /\ HybridSound(D)
         /\ own => \A g \in DOMAIN groups : g < gid => GroupServed(D, g)

LEMMA MixedInit == GenerationInit => MixedInv
<1> SUFFICES ASSUME GenerationInit PROVE MixedInv
  OBVIOUS
<1>1. /\ gid = 1 /\ groups \in Seq(Seq(Vertices)) /\ LHybrid = [v \in Vertices |-> <<>>]
  BY CpuGroupAssumption DEF GenerationInit, Init
<1>2. /\ LHybrid \in [Vertices -> Seq(Labels)]
      /\ \A v \in Vertices : DOMAIN LHybrid[v] = {}
      /\ \A g \in DOMAIN groups : ~(g < gid)
  BY <1>1
<1> QED BY <1>2 DEF MixedInv, HybridSound

(* A vertex above all others of the set needs the fewest to pass.          *)
LEMMA TopNeeds ==
  ASSUME NEW D, NEW M \in SUBSET Vertices, NEW m, Tops(M, m), NEW v, NEW h,
         Needed(D, Vertices \ M, m, v, h)
  PROVE  m \in Vertices /\ Needed(D, 0 .. m - 1, m, v, h)
<1>1. m \in Vertices /\ \A x \in 0 .. m - 1 : x \in Vertices /\ ~(m <= x)
  BY Sizes DEF Tops, Vertices
<1>2. 0 .. m - 1 \subseteq Vertices \ M
  BY <1>1 DEF Tops
<1> QED BY <1>1, <1>2 DEF Needed

(* What is handed out or offloaded stays.                                  *)
HybridStays ==
  \A v \in Vertices : \A i \in DOMAIN LHybrid[v] :
    i \in DOMAIN LHybrid'[v] /\ LHybrid'[v][i] = LHybrid[v][i]

LEMMA MixedStays ==
  ASSUME HybridStays, GP!HostStays, totL \in Nat, totL' \in Nat, UNCHANGED groups,
         NEW D, NEW g, GroupServed(D, g)
  PROVE  GroupServed(D, g)'
<1>1. ASSUME NEW c, NEW v \in Vertices, NEW h, Mixed(D, c, v, h) PROVE Mixed(D, c, v, h)'
  <2>1. CASE \E i \in DOMAIN LHybrid[v] :
               /\ LHybrid[v][i].hub = c /\ LHybrid[v][i].hop = h
               /\ LHybrid[v][i].dist = D[h][<<c, v>>]
    <3>1. PICK i \in DOMAIN LHybrid[v] :
               /\ LHybrid[v][i].hub = c /\ LHybrid[v][i].hop = h
               /\ LHybrid[v][i].dist = D[h][<<c, v>>]
      BY <2>1
    <3>2. i \in DOMAIN LHybrid'[v] /\ LHybrid'[v][i] = LHybrid[v][i]
      BY DEF HybridStays
    <3> QED BY <3>1, <3>2 DEF Mixed
  <2>2. CASE \E j \in 1 .. totL :
               /\ hostL[j].hub = c /\ hostL[j].to = v /\ hostL[j].hop = h
               /\ hostL[j].dist = D[h][<<c, v>>]
    <3>1. PICK j \in 1 .. totL :
               /\ hostL[j].hub = c /\ hostL[j].to = v /\ hostL[j].hop = h
               /\ hostL[j].dist = D[h][<<c, v>>]
      BY <2>2
    <3>2. totL <= totL' /\ hostL'[j] = hostL[j]
      BY DEF GP!HostStays
    <3>3. j \in 1 .. totL'
      BY <3>2
    <3> QED BY <3>1, <3>2, <3>3 DEF Mixed
  <2> QED BY <1>1, <2>1, <2>2 DEF Mixed
<1>2. \A M, c : Serves(D, M, c) => Serves(D, M, c)'
  BY <1>1 DEF Serves
<1> QED BY <1>2 DEF GroupServed

(* A group is added, or none.                                              *)
LEMMA MixedGrows ==
  ASSUME MixedInv, gpc # "done", HybridStays, GP!HostStays, totL \in Nat, totL' \in Nat,
         gid \in Nat, UNCHANGED <<w, groups>>, groups \in Seq(Seq(Vertices)), own' => own,
         LHybrid' \in [Vertices -> Seq(Labels)],
         \A D : D = HopDist(w) => HybridSound(D)',
         \/ gid' = gid
         \/ gid' = gid + 1 /\ (own' => \A D, n : D = HopDist(w) /\ n = gid => GroupServed(D, n)')
  PROVE  MixedInv'
<1>0. \A D : D = HopDist(w)' => D = HopDist(w)
  OBVIOUS
<1> SUFFICES \A D : D = HopDist(w)' => HybridSound(D)' /\ (own' => \A g \in DOMAIN groups' : g < gid' => GroupServed(D, g)')
  BY Zenon DEF MixedInv
<1> SUFFICES ASSUME NEW D, D = HopDist(w)', own', NEW g \in DOMAIN groups', g < gid'
             PROVE  GroupServed(D, g)'
  BY <1>0
<1>1. D = HopDist(w) /\ g \in DOMAIN groups /\ g \in Int
  OBVIOUS
<1>2. CASE g < gid
  BY <1>1, <1>2, MixedStays DEF MixedInv
<1>3. CASE gid' = gid + 1 /\ g = gid
  BY <1>1, <1>3
<1> QED BY <1>1, <1>2, <1>3
(* The entries of two sequences, one after the other.                      *)
Joined(a, b, c) ==
  /\ \A i \in DOMAIN a : i \in DOMAIN c /\ c[i] = a[i]
  /\ \A i \in DOMAIN b : Len(a) + i \in DOMAIN c /\ c[Len(a) + i] = b[i]
  /\ \A i \in DOMAIN c : (\E k \in DOMAIN a : c[i] = a[k]) \/ (\E k \in DOMAIN b : c[i] = b[k])
LEMMA BothParts ==
  ASSUME NEW S, NEW a \in Seq(S), NEW b \in Seq(S)
  PROVE  a \o b \in Seq(S) /\ Joined(a, b, a \o b)
<1>1. /\ Len(a) \in Nat /\ Len(b) \in Nat /\ DOMAIN a = 1 .. Len(a) /\ DOMAIN b = 1 .. Len(b)
      /\ a \o b \in Seq(S) /\ DOMAIN (a \o b) = 1 .. Len(a) + Len(b)
  OBVIOUS
<1>2. \A i \in 1 .. Len(a) + Len(b) : (a \o b)[i] = IF i <= Len(a) THEN a[i] ELSE b[i - Len(a)]
  OBVIOUS
<1>3. \A i \in DOMAIN a : i \in DOMAIN (a \o b) /\ (a \o b)[i] = a[i]
  BY <1>1, <1>2
<1>4. \A i \in DOMAIN b : Len(a) + i \in DOMAIN (a \o b) /\ (a \o b)[Len(a) + i] = b[i]
  <2> TAKE i \in DOMAIN b
  <2>1. /\ Len(a) + i \in 1 .. Len(a) + Len(b) /\ ~(Len(a) + i <= Len(a))
        /\ (Len(a) + i) - Len(a) = i
    BY <1>1
  <2> QED BY <1>1, <1>2, <2>1
<1>5. ASSUME NEW i \in DOMAIN (a \o b)
      PROVE  (\E k \in DOMAIN a : (a \o b)[i] = a[k]) \/ (\E k \in DOMAIN b : (a \o b)[i] = b[k])
  <2>1. i \in 1 .. Len(a) + Len(b) /\ (i <= Len(a) => i \in DOMAIN a)
        /\ (~(i <= Len(a)) => i - Len(a) \in DOMAIN b)
    BY <1>1
  <2> QED BY <1>2, <2>1
<1> QED BY <1>1, <1>3, <1>4, <1>5, Zenon DEF Joined

(* The labels of a group of the pool's go to L_hybrid.                     *)
LEMMA CollectMoves ==
  ASSUME LoopInv, KeptAlways, CollectGroup, LHybrid \in [Vertices -> Seq(Labels)]
  PROVE  /\ LHybrid' \in [Vertices -> Seq(Labels)] /\ HybridStays
         /\ \A D : D = HopDist(w) => (HybridSound(D) => HybridSound(D)')
         /\ \A D, n : D = HopDist(w) /\ n = gid => GroupServed(D, n)'
<1>1. /\ LHybrid' = [v \in Vertices |-> LHybrid[v] \o L[v]] /\ UNCHANGED <<w, groups>>
      /\ finished = ToSet(groups[gid]) /\ L \in [Vertices -> Seq(Labels)] /\ cpuType \in {0, 1}
  BY CpuTypeAssumption DEF CollectGroup, LoopInv, CpuInv, ScratchInv, ScratchTypes
<1>3. ASSUME NEW v \in Vertices
      PROVE  LHybrid[v] \o L[v] \in Seq(Labels) /\ Joined(LHybrid[v], L[v], LHybrid'[v])
  <2>1. LHybrid[v] \in Seq(Labels) /\ L[v] \in Seq(Labels) /\ LHybrid'[v] = LHybrid[v] \o L[v]
    BY <1>1
  <2> QED BY <2>1, BothParts
<1>4. LHybrid' \in [Vertices -> Seq(Labels)]
  BY <1>1, <1>3
<1>5. HybridStays
  BY <1>3 DEF HybridStays, Joined
<1>6. ASSUME NEW v \in Vertices, NEW i \in DOMAIN L[v]
      PROVE  Len(LHybrid[v]) + i \in DOMAIN LHybrid'[v] /\ LHybrid'[v][Len(LHybrid[v]) + i] = L[v][i]
  BY <1>3 DEF Joined
<1>7. ASSUME NEW D, D = HopDist(w), HybridSound(D) PROVE HybridSound(D)'
  <2> SUFFICES ASSUME NEW v \in Vertices, NEW i \in DOMAIN LHybrid'[v]
               PROVE  SoundLabel(D, LHybrid'[v][i], v)
    BY DEF HybridSound
  <2>1. \A k \in DOMAIN LHybrid[v] : SoundLabel(D, LHybrid[v][k], v)
    BY <1>7 DEF HybridSound
  <2>2. \A k \in DOMAIN L[v] : SoundLabel(D, L[v][k], v)
    BY <1>7 DEF KeptAlways, KeptInv, LabelsRight, LabelRight
  <2>3. \/ \E k \in DOMAIN LHybrid[v] : LHybrid'[v][i] = LHybrid[v][k]
        \/ \E k \in DOMAIN L[v] : LHybrid'[v][i] = L[v][k]
    BY <1>3 DEF Joined
  <2> QED BY <2>1, <2>2, <2>3
<1>8. ASSUME NEW D, NEW c, NEW v \in Vertices, NEW h, LabelIn(D, c, v, h)
      PROVE  Mixed(D, c, v, h)'
  <2>1. PICK i \in DOMAIN L[v] : L[v][i].hub = c /\ L[v][i].hop = h /\ L[v][i].dist = D[h][<<c, v>>]
    BY <1>8 DEF LabelIn
  <2> QED BY <1>6, <2>1 DEF Mixed
<1>9. ASSUME NEW D, D = HopDist(w), NEW n, n = gid, NEW M \in SUBSET Vertices,
             NEW m \in ToSet(groups[n]), Tops(M, m)
      PROVE  \E c \in M : Serves(D, M, c)'
  <2>1. KeptInv(D) /\ m \in finished /\ m \in M
    BY <1>1, <1>9 DEF KeptAlways, Tops
  <2>2. CASE cpuType = 0
    <3>1. \A v \in Vertices, h \in 0 .. K : Needed(D, Vertices \ M, m, v, h) => LabelIn(D, m, v, h)
      BY <1>9, <2>1, <2>2, TopNeeds DEF KeptInv, RankKept
    <3>2. Serves(D, M, m)'
      BY <1>8, <3>1 DEF Serves
    <3> QED BY <2>1, <3>2
  <2>3. CASE cpuType = 1
    <3>1. PICK c \in M : FirstOf(D, M, c)
      BY <2>1, <2>3 DEF KeptInv, FirstKept, Started
    <3>2. \A t \in Workers : ~AtWork(t)
      <4>1. \A t \in Workers : pc[t] = "idle"
        BY NoTaskLeft DEF Busy, LoopInv, CpuInv
      <4> QED BY <4>1 DEF AtWork
    <3>3. \A v \in Vertices, h \in 0 .. K : Needed(D, Vertices \ M, c, v, h) => LabelIn(D, c, v, h)
      BY <3>1, <3>2 DEF FirstOf
    <3>4. Serves(D, M, c)'
      BY <1>8, <3>3 DEF Serves
    <3> QED BY <3>4
  <2> QED BY <1>1, <2>2, <2>3
<1>10. ASSUME NEW D, D = HopDist(w), NEW n, n = gid PROVE GroupServed(D, n)'
  BY <1>1, <1>9, <1>10 DEF GroupServed
<1> QED BY <1>4, <1>5, <1>7, <1>10

(* Those of a group of the GPU's lie in main's buffer.                     *)
LEMMA FinishServes ==
  ASSUME LoopInv, GpuHeld, GPU!FinishGroup, own', NEW D, D = HopDist(w), NEW n, n = gid
  PROVE  GroupServed(D, n)'
<1>1. GPU!OffsetsOwn /\ UNCHANGED <<w, groups>>
  BY Zenon DEF GPU!FinishGroup
<1>2. GP!FinishGroup /\ GP!OffsetsOwn
  BY <1>1, SameFinishGroup, SameOffsetsOwn
<1>3. \A m \in GP!ToSet(groups[gid]) : GP!OffloadedOf(m)'
  BY <1>2, Assumed, GP!GroupOffloaded DEF GP!GroupOffloaded, GpuHeld, GP!GpuInv
<1>4. Undirected(w) /\ GP!HopDist(w) = D
  BY CpuGraphIs, SameDist DEF LoopInv, CpuInv, ScratchInv, ScratchTypes
<1> SUFFICES ASSUME NEW M \in SUBSET Vertices, NEW m \in ToSet(groups[n]), Tops(M, m),
                    NEW v \in Vertices, NEW h \in 0 .. K, Needed(D, Vertices \ M, m, v, h)
             PROVE  Mixed(D, m, v, h)'
  BY <1>1 DEF GroupServed, Serves, Tops
<1>5. Canonical(D, m, v, h)
  BY <1>4, TopNeeds, CanonicalIsNeeded
<1>6. GP!OffloadedOf(m)'
  BY <1>3 DEF ToSet, GP!ToSet
<1>7. GP!HopDist(w)' = D /\ GP!Vertices = Vertices
  BY <1>1, <1>4, SameGraph
<1>8. \E j \in 1 .. totL' :
        /\ hostL'[j].hub = m /\ hostL'[j].to = v /\ hostL'[j].hop = h
        /\ hostL'[j].dist = D[h][<<m, v>>]
  <2>1. GP!IsCanonical(m, v, h)'
    BY <1>5, <1>7, SameLabel DEF GP!IsCanonical
  <2> QED BY <1>6, <1>7, <2>1 DEF GP!OffloadedOf, GP!LabelOf
<1> QED BY <1>8 DEF Mixed
LEMMA MixedNext ==
  ASSUME LoopInv, KeptAlways, GpuHeld, GpuHeld', GP!HostStays, MixedInv, [GenerationNext]_genVars
  PROVE  MixedInv'
<1>0. /\ totL \in Nat /\ totL' \in Nat /\ gid \in Nat /\ groups \in Seq(Seq(Vertices))
  BY CpuGroupAssumption DEF GpuHeld, GP!GpuInv, GP!GpuTypes, LoopInv, CpuInv, TaskInv
<1> SUFFICES ASSUME gpc' # "done" PROVE MixedInv'
  BY DEF MixedInv
<1>1. ASSUME UNCHANGED <<w, groups, LHybrid>>, gpc # "done", own' => own,
             \/ gid' = gid
             \/ gid' = gid + 1 /\ (own' => \A D, n : D = HopDist(w) /\ n = gid => GroupServed(D, n)')
      PROVE  MixedInv'
  <2>1. LHybrid' \in [Vertices -> Seq(Labels)] /\ (\A D : D = HopDist(w) => HybridSound(D)')
    BY <1>1 DEF MixedInv, HybridSound
  <2>2. HybridStays
    BY <1>1 DEF HybridStays
  <2> QED BY <1>0, <1>1, <2>1, <2>2, MixedGrows
<1>2. CASE Dispatch
  <2>1. UNCHANGED <<w, groups, LHybrid, gid, gpc, own>>
    BY <1>2 DEF Dispatch, vars, gpuVars
  <2> QED BY <1>1, <2>1
<1>3. CASE OnCpu
  <2>1. UNCHANGED <<gpc, own>>
    BY <1>3 DEF OnCpu, gpuVars
  <2>2. CASE StartGroup
    <3>1. UNCHANGED <<w, groups, LHybrid, gid>>
      BY <2>2 DEF StartGroup
    <3> QED BY <1>1, <2>1, <3>1
  <2>3. CASE CollectGroup
    <3>1. gid' = gid + 1 /\ UNCHANGED <<w, groups>>
      BY <2>3 DEF CollectGroup
    <3>2. LHybrid \in [Vertices -> Seq(Labels)] /\ (\A D : D = HopDist(w) => HybridSound(D))
      BY <2>1 DEF MixedInv
    <3>3. /\ LHybrid' \in [Vertices -> Seq(Labels)] /\ HybridStays
          /\ \A D : D = HopDist(w) => (HybridSound(D) => HybridSound(D)')
          /\ \A D, n : D = HopDist(w) /\ n = gid => GroupServed(D, n)'
      BY <2>3, <3>2, CollectMoves
    <3>4. \A D : D = HopDist(w) => HybridSound(D)'
      BY <3>2, <3>3
    <3> QED BY <1>0, <2>1, <3>1, <3>3, <3>4, MixedGrows
  <2>4. ASSUME NEW t \in Workers, Step(t) PROVE MixedInv'
    BY <1>1, <2>1, <2>4, StepAlone
  <2> QED BY <1>3, <2>2, <2>3, <2>4 DEF OnCpu
<1>4. CASE OnGpu
  <2>1. CASE GPU!StartGroup \/ GPU!Expand \/ GPU!Prune \/ GPU!UpdateHash
    <3>1. UNCHANGED <<w, groups, LHybrid, gid, own>> /\ gpc # "done"
      BY <2>1, Zenon DEF GPU!StartGroup, GPU!Expand, GPU!Prune, GPU!UpdateHash
    <3> QED BY <1>1, <3>1
  <2>2. CASE GPU!FinishGroup
    <3>1. /\ UNCHANGED <<w, groups, LHybrid>> /\ gpc \in {"finish", "expand"}
          /\ gid' = gid + 1 /\ (own' => own)
      BY <2>2, Zenon DEF GPU!FinishGroup
    <3>2. own' => \A D, n : D = HopDist(w) /\ n = gid => GroupServed(D, n)'
      BY <2>2, FinishServes
    <3> QED BY <1>1, <3>1, <3>2
  <2> QED BY <1>4, <2>1, <2>2 DEF OnGpu
<1>5. CASE Convert
  BY <1>5, Zenon DEF Convert, GPU!Collect
<1>6. CASE GenerationDone \/ UNCHANGED genVars
  <2>1. UNCHANGED <<w, groups, LHybrid, gid, gpc, own>>
    BY <1>6 DEF GenerationDone, genVars, vars, gpuVars
  <2> QED BY <1>1, <2>1
<1> QED BY <1>2, <1>3, <1>4, <1>5, <1>6 DEF GenerationNext

(* Of the vertices between two, the highest ranked one is of some group.   *)
LEMMA MixedCovers ==
  ASSUME LoopInv, GpuHeld, MixedInv, gpc = "idle", gid > Len(groups), own
  PROVE  Covers([v \in Vertices |-> ToSet(LHybrid[v]) \cup GPU!Offloaded[v]], w)
<1> DEFINE labels == [v \in Vertices |-> ToSet(LHybrid[v]) \cup GPU!Offloaded[v]]
<1>0. PICK D : D = HopDist(w)
  OBVIOUS
<1>1. /\ Undirected(w) /\ groups \in Groupings /\ gid \in Nat /\ totL \in Nat /\ GP!GpuInv
      /\ LHybrid \in [Vertices -> Seq(Labels)] /\ HybridSound(D)
      /\ \A g \in DOMAIN groups : g < gid => GroupServed(D, g)
  BY <1>0, CpuGraphIs
  DEF LoopInv, CpuInv, ScratchInv, ScratchTypes, TaskInv, GpuHeld, GP!GpuInv, GP!GpuTypes, MixedInv
<1>2. \A g \in DOMAIN groups : GroupServed(D, g)
  <2>1. groups \in Seq(Seq(Vertices))
    BY <1>1, CpuGroupAssumption
  <2> QED BY <1>1, <2>1
<1>3. ASSUME NEW v \in Vertices
      PROVE  labels[v] = {LHybrid[v][i] : i \in DOMAIN LHybrid[v]}
                           \cup {hostL[j] : j \in {i \in 1 .. totL : hostL[i].to = v}}
  BY SameGraph DEF ToSet, GPU!Offloaded, GPU!Vertices, Vertices
<1> HIDE DEF labels
<1>4. ASSUME NEW v \in Vertices, NEW l \in labels[v] PROVE SoundLabel(D, l, v)
  <2>1. CASE \E i \in DOMAIN LHybrid[v] : l = LHybrid[v][i]
    BY <1>1, <2>1 DEF HybridSound
  <2>2. CASE \E j \in 1 .. totL : l = hostL[j] /\ hostL[j].to = v
    <3>1. PICK j \in 1 .. totL : l = hostL[j] /\ hostL[j].to = v
      BY <2>2
    <3>2. GP!SoundLabel(GP!HopDist(w), hostL[j], hostL[j].to)
      BY <1>1, Assumed, GP!HostSound DEF GP!HostSound
    <3> QED BY <1>0, <1>1, <3>1, <3>2, SameDist, SameLabel
  <2> QED BY <1>3, <1>4, <2>1, <2>2
<1>5. ASSUME NEW c, NEW v \in Vertices, NEW h, Mixed(D, c, v, h)
      PROVE  HasLabel(labels, c, v, h, D[h][<<c, v>>])
  BY <1>3, <1>5 DEF Mixed, HasLabel
<1>6. ASSUME NEW u \in Vertices, NEW v \in Vertices, NEW k \in 0 .. K
      PROVE  \E c \in Vertices : Between(D, c, u, v, k) /\ Halves(D, labels, c, Outside(D, u, v, k))
  <2> DEFINE M == {x \in Vertices : Between(D, x, u, v, k)}
  <2>1. M \subseteq Nat /\ u \in M /\ M \in SUBSET Vertices /\ Outside(D, u, v, k) = Vertices \ M
    BY <1>0, <1>1, EndsBetween DEF Vertices, Outside
  <2> HIDE DEF M
  <2>2. PICK m \in M : \A x \in M : m <= x
    BY <2>1, LeastNatural
  <2>3. PICK g \in DOMAIN groups : m \in ToSet(groups[g])
    BY <1>1, <2>1, CpuGroupAssumption
  <2>4. PICK c \in M : Serves(D, M, c)
    BY <1>2, <2>1, <2>2, <2>3 DEF GroupServed, Tops
  <2>5. Halves(D, labels, c, Outside(D, u, v, k))
    BY <1>5, <2>1, <2>4 DEF Serves, Halves
  <2>6. c \in Vertices /\ Between(D, c, u, v, k)
    BY DEF M
  <2> QED BY <2>5, <2>6
<1>7. Covers(labels, w)
  BY <1>0, <1>1, <1>4, <1>6, NeededCovers
<1> QED BY <1>7 DEF labels

(* The labels of the whole generation answer every query within hop_cst,   *)
(* whichever executor had which group, whichever of the two CPU functions  *)
(* ran and however the threads of the pool interleaved, unless a run of a  *)
(* GPU group took in foreign labels.                                       *)
THEOREM AlwaysMixedCover == GenerationSpec => []MixedCover
<1> DEFINE Inv == LoopInv /\ KeptAlways /\ GpuHeld /\ MixedInv
<1>1. GenerationInit => Inv
  BY LoopKeptInit, GpuHeldInit, MixedInit
<1>2. Inv /\ [GenerationNext]_genVars => Inv'
  BY LoopNext, LoopKept, GpuHeldNext, MixedNext
<1>3. Inv => MixedCover
  BY MixedCovers, Zenon DEF MixedCover
<1> QED BY <1>1, <1>2, <1>3, PTL DEF GenerationSpec
=============
