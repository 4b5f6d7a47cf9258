-------------------------- MODULE DeviceDataProofs --------------------------
(***************************************************************************)
(* The data that the launches work on: the table has, and the graph on its *)
(* way from the file to the arrays of toCSR.                               *)
(***************************************************************************)
EXTENDS HasTable, CsrGraph, FiniteSetTheorems, TLAPS

(***************************************************************************)
(* 1. HasTable, for every table size, hop bound and set of labels.  For    *)
(* the inserts the argument is the one of linear probing.  For the clear   *)
(* it is that every entry left is in the reach of some thread: a slot      *)
(* where the thread stands, or will start for one of its next keys, from   *)
(* which on to the entry no slot is empty.  Whoever empties a slot in      *)
(* between takes the rest of the run over.                                 *)
(***************************************************************************)
Holds(p, key) == table[p] # Empty /\ KeyOf(table[p]) = key

Active(l) == pc[l] \in {"probe", "claim", "overwrite"}

PcInsert ==
  \A l \in Labels :
    /\ pc[l] \in {"idle", "probe", "claim", "overwrite", "done"}
    /\ pc[l] = "idle" => /\ Hop[l] > launch \/ Hop[l] > LastInsert(l)
                         /\ idx[l] = Hop[l]
                         /\ pos[l] = Home[KeyAt(l, Hop[l])]
    /\ pc[l] # "idle" => Hop[l] <= launch
    /\ Active(l) => Hop[l] = launch /\ idx[l] \in Hop[l] .. LastInsert(l)

ThreadPath ==
  \A l \in Labels : pc[l] \in {"probe", "claim"} =>
    \A q \in Slots :
      Disp(Home[KeyAt(l, idx[l])], q) < Disp(Home[KeyAt(l, idx[l])], pos[l])
        => table[q] # Empty /\ KeyOf(table[q]) # KeyAt(l, idx[l])

EntryPath ==
  \A p \in Slots : table[p] # Empty =>
    \A q \in Slots :
      Disp(Home[KeyOf(table[p])], q) < Disp(Home[KeyOf(table[p])], p)
        => table[q] # Empty /\ KeyOf(table[q]) # KeyOf(table[p])

AtOwnKey ==
  \A l \in Labels : pc[l] = "overwrite" => Holds(pos[l], KeyAt(l, idx[l]))

EntryInserted ==
  \A p \in Slots : table[p] # Empty =>
    \E l \in Labels, k \in 0 .. K :
      table[p] = <<l, k>> /\ Inserts(l, k) /\ Hop[l] <= launch

(* What a label has put into the table so far.                             *)
Written(l, k) == Inserts(l, k) /\ (pc[l] = "done" \/ (Active(l) /\ k < idx[l]))

Held ==
  \A l \in Labels, k \in 0 .. K : Written(l, k) =>
    \E p \in Slots : Holds(p, KeyAt(l, k)) /\ Hop[table[p][1]] >= Hop[l]

InsertInv == /\ PcInsert /\ ThreadPath /\ EntryPath /\ AtOwnKey
             /\ EntryInserted /\ Held

(* From q on to p no slot is empty.                                        *)
Reach(q, p) == \A r \in Slots : Disp(q, r) <= Disp(q, p) => table[r] # Empty

Covers(l, p) ==
  /\ pc[l] \in {"read", "wipe"}
  /\ \/ Reach(pos[l], p)
     \/ \E k \in 0 .. K : k > idx[l] /\ Reach(Home[KeyAt(l, k)], p)

PcClear == \A l \in Labels : pc[l] \in {"read", "wipe", "done"}

EntryCovered ==
  \A p \in Slots : table[p] # Empty => \E l \in Labels : Covers(l, p)

ClearInv == PcClear /\ EntryCovered

IInv == /\ TypeOK
        /\ launch <= K => InsertInv
        /\ launch > K => ClearInv
        /\ launch = K + 2 => \A l \in Labels : pc[l] = "done"
-----------------------------------------------------------------------------
(* Probing distances number the slots from the home slot; Succ advances    *)
(* by one; and what lies between the next slot and p lies between q and p. *)
LEMMA DispFacts ==
  /\ \A h, p, q \in Slots : Disp(h, p) = Disp(h, q) => p = q
  /\ \A h, p, q \in Slots :
       Disp(h, q) < Disp(h, Succ(p)) => Disp(h, q) < Disp(h, p) \/ q = p
  /\ \A p \in Slots : Succ(p) \in Slots
  /\ \A h, p \in Slots : Disp(h, p) \in Nat /\ Disp(h, h) = 0
  BY HasAssumption DEF Disp, Slots, Succ

LEMMA BeyondFacts ==
  ASSUME NEW q \in Slots, NEW p \in Slots, NEW r \in Slots, NEW s \in Slots,
         Disp(q, r) <= Disp(q, p), r # p,
         Disp(Succ(r), s) <= Disp(Succ(r), p)
  PROVE  Disp(q, s) <= Disp(q, p) /\ s # r
  BY HasAssumption DEF Disp, Slots, Succ

(* The constants as typed values.                                          *)
LEMMA Typing ==
  /\ \A l \in Labels, k \in 0 .. K :
       /\ Home[KeyAt(l, k)] \in Slots
       /\ <<l, k>> # Empty
       /\ KeyOf(<<l, k>>) = KeyAt(l, k)
  /\ \A l \in Labels : Hop[l] \in 0 .. K /\ LastInsert(l) \in 0 .. K
  /\ \A l \in Labels, k \in 0 .. K : Inserts(l, k) => Hop[l] <= k /\ k <= K
  /\ K \in Nat
<1>1. \A l \in Labels : Pair[l] \in Pairs /\ Hop[l] \in 0 .. K /\ K \in Nat \ {0}
  BY HasAssumption
<1>2. \A l \in Labels : LastInsert(l) \in 0 .. K
  BY <1>1 DEF LastInsert
<1>3. ASSUME NEW l \in Labels, NEW k \in 0 .. K
      PROVE  /\ Home[KeyAt(l, k)] \in Slots
             /\ <<l, k>> # Empty
             /\ KeyOf(<<l, k>>) = KeyAt(l, k)
  <2>1. KeyAt(l, k) \in Pairs \X (0 .. K)
    BY <1>1 DEF KeyAt
  <2>2. <<l, k>> \in Labels \X (0 .. K)
    OBVIOUS
  <2> QED BY <2>1, <2>2, HasAssumption DEF Slots, KeyOf, KeyAt
<1> QED BY <1>1, <1>2, <1>3, HasAssumption DEF Inserts

(* Of two entries of one key the farther would have the nearer on its path.*)
LEMMA EntriesUnique ==
  ASSUME EntryPath, EntryInserted, NEW p \in Slots, NEW q \in Slots,
         table[p] # Empty, Holds(q, KeyOf(table[p]))
  PROVE  p = q
<1> DEFINE h == Home[KeyOf(table[p])]
<1>1. h \in Slots
  BY Typing DEF EntryInserted
<1>2. ~(Disp(h, q) < Disp(h, p)) /\ ~(Disp(h, p) < Disp(h, q))
  BY DEF EntryPath, Holds
<1>3. Disp(h, p) = Disp(h, q)
  BY <1>1, <1>2, DispFacts
<1> QED BY <1>1, <1>3, DispFacts

(* A thread that stands at an empty slot knows its key is nowhere.         *)
LEMMA EmptyMeansAbsent ==
  ASSUME TypeOK, ThreadPath, EntryPath, NEW l \in Labels,
         pc[l] \in {"probe", "claim"}, table[pos[l]] = Empty
  PROVE  \A p \in Slots : ~Holds(p, KeyAt(l, idx[l]))
<1> SUFFICES ASSUME NEW p \in Slots, Holds(p, KeyAt(l, idx[l])) PROVE FALSE
  OBVIOUS
<1> DEFINE h == Home[KeyAt(l, idx[l])]
<1>1. h \in Slots /\ pos[l] \in Slots
  BY Typing DEF TypeOK
<1>2. ~(Disp(h, p) < Disp(h, pos[l]))
  BY DEF ThreadPath, Holds
<1>3. ~(Disp(h, pos[l]) < Disp(h, p))
  BY <1>1 DEF EntryPath, Holds
<1>4. p = pos[l]
  BY <1>1, <1>2, <1>3, DispFacts
<1> QED BY <1>4 DEF Holds
-----------------------------------------------------------------------------
LEMMA InitIInv == ASSUME Init PROVE IInv
<1>1. TypeOK
  <2>1. Hop \in [Labels -> 0 .. K] /\ 0 \in 0 .. K + 2
    BY HasAssumption
  <2>2. \A l \in Labels : Home[KeyAt(l, Hop[l])] \in Slots
    BY Typing
  <2> QED BY <2>1, <2>2 DEF Init, TypeOK, Words
<1>2. PcInsert
  <2> SUFFICES ASSUME NEW l \in Labels
               PROVE  /\ pc[l] \in {"idle", "probe"}
                      /\ pc[l] = "idle" => Hop[l] > 0
                      /\ pc[l] # "idle" => Hop[l] = 0
                      /\ Hop[l] = 0 => LastInsert(l) = K
                      /\ idx[l] = Hop[l] /\ launch = 0
                      /\ pos[l] = Home[KeyAt(l, Hop[l])]
    BY Typing DEF PcInsert, Active, Init
  <2> QED BY Typing DEF Init, LastInsert
<1>3. ThreadPath
  <2> SUFFICES ASSUME NEW l \in Labels, NEW q \in Slots
               PROVE  ~(Disp(Home[KeyAt(l, idx[l])], q)
                          < Disp(Home[KeyAt(l, idx[l])], pos[l]))
    BY DEF ThreadPath
  <2>1. /\ pos[l] = Home[KeyAt(l, idx[l])]
        /\ Home[KeyAt(l, idx[l])] \in Slots
    BY Typing DEF Init
  <2>2. Disp(pos[l], pos[l]) = 0 /\ Disp(pos[l], q) \in Nat
    BY <2>1, DispFacts
  <2> QED BY <2>1, <2>2
<1>4. EntryPath /\ AtOwnKey /\ EntryInserted
  BY DEF Init, EntryPath, AtOwnKey, EntryInserted
<1>5. Held
  <2> SUFFICES ASSUME NEW l \in Labels, NEW k \in 0 .. K, Written(l, k)
               PROVE  FALSE
    BY DEF Held
  <2>1. pc[l] # "done" /\ idx[l] = Hop[l]
    BY DEF Init
  <2> QED BY <2>1, Typing DEF Written
<1>6. launch = 0 /\ K \in Nat \ {0}
  BY HasAssumption DEF Init
<1> QED BY <1>1, <1>2, <1>3, <1>4, <1>5, <1>6 DEF IInv, InsertInv
-----------------------------------------------------------------------------
(* An insert that ends moves its thread to the home slot of the next key.  *)
LEMMA AdvanceFacts ==
  ASSUME TypeOK, PcInsert, NEW l \in Labels, Active(l), Advance(l)
  PROVE  /\ pc' \in [Labels -> {"idle", "probe", "claim", "overwrite", "read",
                               "wipe", "done"}]
         /\ idx' \in [Labels -> 0 .. K] /\ pos' \in [Labels -> Slots]
         /\ \A m \in Labels : m # l => /\ pc'[m] = pc[m]
                                       /\ idx'[m] = idx[m]
                                       /\ pos'[m] = pos[m]
         /\ \/ /\ pc'[l] = "probe" /\ idx'[l] = idx[l] + 1
               /\ idx[l] < LastInsert(l)
               /\ pos'[l] = Home[KeyAt(l, idx'[l])]
            \/ pc'[l] = "done" /\ idx[l] = LastInsert(l)
<1> USE DEF TypeOK
<1>0. /\ idx[l] \in Hop[l] .. LastInsert(l) /\ LastInsert(l) \in 0 .. K
      /\ Hop[l] \in 0 .. K
  BY Typing DEF PcInsert
<1>1. CASE idx[l] < LastInsert(l)
  <2>1. idx[l] + 1 \in 0 .. K
    BY <1>0, <1>1, Typing
  <2>2. Home[KeyAt(l, idx[l] + 1)] \in Slots
    BY <2>1, Typing
  <2> QED BY <1>1, <2>1, <2>2 DEF Advance
<1>2. CASE ~(idx[l] < LastInsert(l))
  BY <1>0, <1>2 DEF Advance
<1> QED BY <1>1, <1>2

LEMMA TypeStep == ASSUME IInv, [Next]_vars PROVE TypeOK'
<1> USE DEF TypeOK, Words
<1>0. TypeOK /\ \A l \in Labels : pc[l] \in {"probe", "claim", "overwrite"}
                 => PcInsert
  BY Typing DEF IInv, InsertInv, ClearInv, PcClear
<1>1. ASSUME NEW l \in Labels, Probe(l) PROVE TypeOK'
  BY <1>0, <1>1, DispFacts DEF Probe
<1>2. ASSUME NEW l \in Labels, Claim(l) PROVE TypeOK'
  <2>1. CASE table[pos[l]] = Empty
    <3>1. PcInsert /\ Active(l) /\ Advance(l)
      BY <1>0, <1>2, <2>1 DEF Claim, Active
    <3>2. <<l, idx[l]>> \in Words
      BY <1>0
    <3>3. table' \in [Slots -> Words] /\ launch' = launch
      BY <1>0, <1>2, <2>1, <3>2 DEF Claim
    <3> QED BY <1>0, <3>1, <3>3, AdvanceFacts
  <2>2. CASE table[pos[l]] # Empty
    BY <1>0, <1>2, <2>2 DEF Claim
  <2> QED BY <2>1, <2>2
<1>3. ASSUME NEW l \in Labels, Overwrite(l) PROVE TypeOK'
  BY <1>0, <1>3, AdvanceFacts DEF Overwrite, Active
<1>4. ASSUME NEW l \in Labels, Read(l) PROVE TypeOK'
  <2>1. CASE table[pos[l]] = Empty /\ idx[l] < K
    <3>1. idx[l] + 1 \in 0 .. K
      BY <1>0, <2>1, Typing
    <3> QED BY <1>0, <1>4, <2>1, <3>1, Typing DEF Read
  <2>2. CASE ~(table[pos[l]] = Empty /\ idx[l] < K)
    BY <1>0, <1>4, <2>2 DEF Read
  <2> QED BY <2>1, <2>2
<1>5. ASSUME NEW l \in Labels, Wipe(l) PROVE TypeOK'
  BY <1>0, <1>5, DispFacts DEF Wipe
<1>6. CASE LaunchInsert
  BY <1>0, <1>6, Typing DEF LaunchInsert
<1>7. CASE LaunchClear
  <2>1. Hop \in [Labels -> 0 .. K]
    BY HasAssumption
  <2>2. \A l \in Labels : Home[KeyAt(l, Hop[l])] \in Slots
    BY Typing
  <2> QED BY <1>0, <1>7, <2>1, <2>2, Typing DEF LaunchClear
<1>8. CASE FinishGroup
  BY <1>0, <1>8, Typing DEF FinishGroup
<1>9. CASE UNCHANGED vars
  BY <1>0, <1>9 DEF vars
<1> QED BY <1>1, <1>2, <1>3, <1>4, <1>5, <1>6, <1>7, <1>8, <1>9
        DEF Next, Thread, Stop
-----------------------------------------------------------------------------
(* The steps of an insert.                                                 *)
LEMMA ProbeStep ==
  ASSUME IInv, TypeOK', launch <= K, NEW l \in Labels, Probe(l)
  PROVE  InsertInv'
<1> USE DEF IInv, InsertInv
<1>0. /\ table' = table /\ launch' = launch /\ idx' = idx /\ pc[l] = "probe"
      /\ pc' \in [Labels -> {"idle", "probe", "claim", "overwrite", "read",
                             "wipe", "done"}]
      /\ \A m \in Labels : m # l => pc'[m] = pc[m] /\ pos'[m] = pos[m]
      /\ pos[l] \in Slots /\ idx[l] \in 0 .. K
      /\ pc'[l] \in {"probe", "claim", "overwrite"}
  BY DEF Probe, TypeOK
<1>1. PcInsert'
  BY <1>0 DEF PcInsert, Active
<1>2. ThreadPath'
  <2> SUFFICES ASSUME NEW m \in Labels, pc'[m] \in {"probe", "claim"},
                      NEW q \in Slots,
                      Disp(Home[KeyAt(m, idx[m])], q)
                        < Disp(Home[KeyAt(m, idx[m])], pos'[m])
               PROVE  table[q] # Empty /\ KeyOf(table[q]) # KeyAt(m, idx[m])
    BY <1>0 DEF ThreadPath
  <2>1. CASE m # l
    BY <1>0, <2>1 DEF ThreadPath
  <2>2. CASE m = l /\ pos' = pos
    BY <1>0, <2>2 DEF ThreadPath
  <2>3. CASE m = l /\ pos' # pos
    <3>1. /\ pos'[l] = Succ(pos[l])
          /\ table[pos[l]] # Empty
          /\ KeyOf(table[pos[l]]) # KeyAt(l, idx[l])
      BY <2>3 DEF Probe, TypeOK
    <3>2. Home[KeyAt(l, idx[l])] \in Slots
      BY <1>0, Typing
    <3>3. \/ Disp(Home[KeyAt(l, idx[l])], q)
               < Disp(Home[KeyAt(l, idx[l])], pos[l])
          \/ q = pos[l]
      BY <1>0, <2>3, <3>1, <3>2, DispFacts
    <3> QED BY <1>0, <2>3, <3>1, <3>3 DEF ThreadPath
  <2> QED BY <2>1, <2>2, <2>3
<1>3. EntryPath' /\ EntryInserted'
  BY <1>0 DEF EntryPath, EntryInserted
<1>4. AtOwnKey'
  BY <1>0 DEF Probe, AtOwnKey, Holds, TypeOK
<1>5. Held'
  <2>1. \A m \in Labels, k \in 0 .. K : Written(m, k)' => Written(m, k)
    BY <1>0 DEF Written, Active
  <2> QED BY <1>0, <2>1 DEF Held, Holds
<1> QED BY <1>1, <1>2, <1>3, <1>4, <1>5

(* What both stores of an insert do: thread l puts its word where its key  *)
(* is, or where no entry of the key is, and goes on.                       *)
LEMMA StoreStep ==
  ASSUME IInv, TypeOK', launch <= K, launch' = launch,
         NEW l \in Labels, pc[l] \in {"claim", "overwrite"}, Advance(l),
         table' = [table EXCEPT ![pos[l]] = <<l, idx[l]>>],
         \/ Holds(pos[l], KeyAt(l, idx[l]))
         \/ table[pos[l]] = Empty /\ pc[l] = "claim"
  PROVE  InsertInv'
<1> USE DEF IInv, InsertInv
<1> DEFINE word == <<l, idx[l]>>
           key  == KeyAt(l, idx[l])
<1>0. /\ TypeOK /\ Active(l) /\ idx[l] \in 0 .. K /\ pos[l] \in Slots
      /\ Hop[l] = launch /\ Inserts(l, idx[l])
  BY DEF Active, PcInsert, TypeOK, Inserts
<1>1. word # Empty /\ KeyOf(word) = key /\ word[1] = l
  BY <1>0, Typing
<1>2. /\ \A m \in Labels : m # l => /\ pc'[m] = pc[m]
                                    /\ idx'[m] = idx[m]
                                    /\ pos'[m] = pos[m]
      /\ \/ /\ pc'[l] = "probe" /\ idx'[l] = idx[l] + 1
            /\ idx[l] < LastInsert(l)
            /\ pos'[l] = Home[KeyAt(l, idx'[l])]
         \/ pc'[l] = "done" /\ idx[l] = LastInsert(l)
  BY <1>0, AdvanceFacts
<1>3. \A p \in Slots : table'[p] = IF p = pos[l] THEN word ELSE table[p]
  BY <1>0 DEF TypeOK
<1>4. \A p \in Slots : table[p] # Empty =>
        table'[p] # Empty /\ KeyOf(table'[p]) = KeyOf(table[p])
  BY <1>0, <1>1, <1>3 DEF Holds
<1>5. PcInsert'
  <2>1. \A m \in Labels : m # l => Active(m)' = Active(m)
    BY <1>2 DEF Active
  <2>2. /\ pc'[l] \in {"probe", "done"} /\ Hop[l] = launch
        /\ Active(l)' => idx'[l] \in Hop[l] .. LastInsert(l)
    BY <1>0, <1>2, Typing DEF Active, Inserts
  <2>3. Hop[l] <= launch
    BY <1>0, Typing
  <2> QED BY <1>2, <2>1, <2>2, <2>3 DEF PcInsert
<1>6. ThreadPath'
  <2> SUFFICES ASSUME NEW m \in Labels, pc'[m] \in {"probe", "claim"},
                      NEW q \in Slots,
                      Disp(Home[KeyAt(m, idx'[m])], q)
                        < Disp(Home[KeyAt(m, idx'[m])], pos'[m])
               PROVE  /\ table'[q] # Empty
                      /\ KeyOf(table'[q]) # KeyAt(m, idx'[m])
    BY DEF ThreadPath
  <2>1. CASE m # l
    <3>1. table[q] # Empty /\ KeyOf(table[q]) # KeyAt(m, idx[m])
      BY <1>2, <2>1 DEF ThreadPath
    <3> QED BY <1>2, <1>4, <2>1, <3>1
  <2>2. CASE m = l
    <3>1. pos'[l] = Home[KeyAt(l, idx'[l])] /\ pos'[l] \in Slots
      BY <1>2, <2>2 DEF TypeOK
    <3>2. Disp(pos'[l], pos'[l]) = 0 /\ Disp(pos'[l], q) \in Nat
      BY <3>1, DispFacts
    <3> QED BY <2>2, <3>1, <3>2
  <2> QED BY <2>1, <2>2
<1>7. EntryPath'
  <2> SUFFICES ASSUME NEW p \in Slots, table'[p] # Empty, NEW q \in Slots,
                      Disp(Home[KeyOf(table'[p])], q)
                        < Disp(Home[KeyOf(table'[p])], p)
               PROVE  /\ table'[q] # Empty
                      /\ KeyOf(table'[q]) # KeyOf(table'[p])
    BY DEF EntryPath
  <2>1. CASE table[p] # Empty
    <3>1. table[q] # Empty /\ KeyOf(table[q]) # KeyOf(table[p])
      BY <1>4, <2>1 DEF EntryPath
    <3> QED BY <1>4, <2>1, <3>1
  <2>2. CASE table[p] = Empty
    <3>1. p = pos[l] /\ table'[p] = word /\ pc[l] = "claim"
      BY <1>3, <2>2 DEF Holds
    <3>2. table[q] # Empty /\ KeyOf(table[q]) # key
      BY <1>1, <3>1 DEF ThreadPath
    <3> QED BY <1>1, <1>4, <3>1, <3>2
  <2> QED BY <2>1, <2>2
<1>8. AtOwnKey'
  <2> SUFFICES ASSUME NEW m \in Labels, pc'[m] = "overwrite"
               PROVE  /\ table'[pos'[m]] # Empty
                      /\ KeyOf(table'[pos'[m]]) = KeyAt(m, idx'[m])
    BY DEF AtOwnKey, Holds
  <2>1. m # l
    BY <1>2
  <2>2. pos[m] \in Slots /\ Holds(pos[m], KeyAt(m, idx[m]))
    BY <1>0, <1>2, <2>1 DEF AtOwnKey, TypeOK
  <2> QED BY <1>2, <1>4, <2>1, <2>2 DEF Holds
<1>9. EntryInserted'
  <2> SUFFICES ASSUME NEW p \in Slots, table'[p] # Empty
               PROVE  \E m \in Labels, k \in 0 .. K :
                        /\ table'[p] = <<m, k>> /\ Inserts(m, k)
                        /\ Hop[m] <= launch
    BY DEF EntryInserted
  <2>1. CASE p = pos[l]
    BY <1>0, <1>3, <2>1, Typing
  <2>2. CASE p # pos[l]
    BY <1>3, <2>2 DEF EntryInserted
  <2> QED BY <2>1, <2>2
<1>10. Held'
  <2> SUFFICES ASSUME NEW m \in Labels, NEW k \in 0 .. K, Written(m, k)'
               PROVE  \E p \in Slots : /\ table'[p] # Empty
                                       /\ KeyOf(table'[p]) = KeyAt(m, k)
                                       /\ Hop[table'[p][1]] >= Hop[m]
    BY DEF Held, Holds
  <2>1. CASE m = l /\ k = idx[l]
    BY <1>0, <1>1, <1>3, <2>1, Typing
  <2>2. CASE ~(m = l /\ k = idx[l])
    <3>1. Written(m, k)
      BY <1>0, <1>2, <2>2, Typing DEF Written, Active, Inserts
    <3>2. PICK p \in Slots : /\ Holds(p, KeyAt(m, k))
                             /\ Hop[table[p][1]] >= Hop[m]
      BY <3>1 DEF Held
    <3>3. CASE p # pos[l]
      BY <1>3, <3>2, <3>3 DEF Holds
    <3>4. CASE p = pos[l]
      <4>1. \E x \in Labels, j \in 0 .. K :
              table[p] = <<x, j>> /\ Hop[x] <= launch
        BY <3>2 DEF EntryInserted, Holds
      <4>2. Hop[l] >= Hop[m]
        BY <1>0, <3>2, <4>1, Typing
      <4> QED BY <1>1, <1>3, <1>4, <3>2, <3>4, <4>2 DEF Holds
    <3> QED BY <3>3, <3>4
  <2> QED BY <2>1, <2>2
<1> QED BY <1>5, <1>6, <1>7, <1>8, <1>9, <1>10

LEMMA ClaimStep ==
  ASSUME IInv, TypeOK', launch <= K, NEW l \in Labels, Claim(l)
  PROVE  InsertInv'
<1> USE DEF IInv, InsertInv
<1>1. CASE table[pos[l]] = Empty
  BY <1>1, StoreStep DEF Claim
<1>2. CASE table[pos[l]] # Empty
  <2>0. /\ UNCHANGED <<table, idx, pos, launch>> /\ pc[l] = "claim"
        /\ pc'[l] = "probe" /\ \A m \in Labels : m # l => pc'[m] = pc[m]
    BY <1>2 DEF Claim, TypeOK
  <2>1. PcInsert' /\ ThreadPath' /\ AtOwnKey'
    BY <2>0 DEF PcInsert, Active, ThreadPath, AtOwnKey, Holds
  <2>2. EntryPath' /\ EntryInserted'
    BY <2>0 DEF EntryPath, EntryInserted
  <2>3. Held'
    <3>1. \A m \in Labels, k \in 0 .. K : Written(m, k)' => Written(m, k)
      BY <2>0 DEF Written, Active
    <3> QED BY <2>0, <3>1 DEF Held, Holds
  <2> QED BY <2>1, <2>2, <2>3
<1> QED BY <1>1, <1>2

LEMMA OverwriteStep ==
  ASSUME IInv, TypeOK', launch <= K, NEW l \in Labels, Overwrite(l)
  PROVE  InsertInv'
  BY StoreStep DEF Overwrite, IInv, InsertInv, AtOwnKey

(* The launch of the next hop: labels of smaller hops have ended.          *)
LEMMA LaunchInsertStep ==
  ASSUME IInv, LaunchInsert
  PROVE  InsertInv' /\ launch' <= K
<1> USE DEF IInv, InsertInv
<1>0. /\ TypeOK /\ launch \in Nat /\ K \in Nat /\ launch < K
      /\ launch' = launch + 1
      /\ UNCHANGED <<table, idx, pos>> /\ launch' <= K /\ launch <= K
      /\ \A l \in Labels : /\ pc[l] \in {"idle", "done"}
                           /\ pc'[l] = IF Hop[l] = launch + 1
                                            /\ Hop[l] <= LastInsert(l)
                                       THEN "probe" ELSE pc[l]
  BY Typing DEF LaunchInsert, Returned, TypeOK
<1>1. \A l \in Labels : /\ Hop[l] \in 0 .. K /\ LastInsert(l) \in 0 .. K
                        /\ pc[l] # "idle" => Hop[l] <= launch
                        /\ pc'[l] = "probe" => /\ pc[l] = "idle"
                                               /\ Hop[l] <= LastInsert(l)
                                               /\ Hop[l] = launch'
  <2> SUFFICES ASSUME NEW l \in Labels
               PROVE  /\ Hop[l] \in 0 .. K /\ LastInsert(l) \in 0 .. K
                      /\ pc[l] # "idle" => Hop[l] <= launch
                      /\ pc'[l] = "probe" => /\ pc[l] = "idle"
                                             /\ Hop[l] <= LastInsert(l)
                                             /\ Hop[l] = launch'
    OBVIOUS
  <2>1. Hop[l] \in 0 .. K /\ LastInsert(l) \in 0 .. K
    BY Typing
  <2>2. pc[l] # "idle" => Hop[l] <= launch
    BY <1>0 DEF PcInsert
  <2>3. pc'[l] = "probe" => Hop[l] = launch + 1 /\ Hop[l] <= LastInsert(l)
    BY <1>0
  <2> QED BY <1>0, <2>1, <2>2, <2>3
<1>2. PcInsert'
  <2> SUFFICES ASSUME NEW l \in Labels
               PROVE  /\ pc'[l] \in {"idle", "probe", "done"}
                      /\ pc'[l] = "idle" => /\ \/ Hop[l] > launch'
                                               \/ Hop[l] > LastInsert(l)
                                            /\ idx[l] = Hop[l]
                                            /\ pos[l] = Home[KeyAt(l, Hop[l])]
                      /\ pc'[l] # "idle" => Hop[l] <= launch'
                      /\ pc'[l] = "probe" =>
                           Hop[l] = launch' /\ idx[l] \in Hop[l] .. LastInsert(l)
    BY <1>0 DEF PcInsert, Active
  <2>1. pc[l] = "idle" => /\ Hop[l] > launch \/ Hop[l] > LastInsert(l)
                          /\ idx[l] = Hop[l]
                          /\ pos[l] = Home[KeyAt(l, Hop[l])]
    BY <1>0 DEF PcInsert
  <2> QED BY <1>0, <1>1, <2>1
<1>3. ThreadPath'
  <2> SUFFICES ASSUME NEW l \in Labels, pc'[l] \in {"probe", "claim"},
                      NEW q \in Slots
               PROVE  ~(Disp(Home[KeyAt(l, idx[l])], q)
                          < Disp(Home[KeyAt(l, idx[l])], pos[l]))
    BY <1>0 DEF ThreadPath
  <2>1. /\ pos[l] = Home[KeyAt(l, idx[l])]
        /\ Home[KeyAt(l, idx[l])] \in Slots
    BY <1>0, <1>1, Typing DEF PcInsert, TypeOK
  <2>2. Disp(pos[l], pos[l]) = 0 /\ Disp(pos[l], q) \in Nat
    BY <2>1, DispFacts
  <2> QED BY <2>1, <2>2
<1>4. EntryPath' /\ AtOwnKey'
  BY <1>0 DEF EntryPath, AtOwnKey
<1>5. EntryInserted'
  <2> SUFFICES ASSUME NEW p \in Slots, table[p] # Empty
               PROVE  \E m \in Labels, k \in 0 .. K :
                        /\ table[p] = <<m, k>> /\ Inserts(m, k)
                        /\ Hop[m] <= launch'
    BY <1>0 DEF EntryInserted
  <2>1. PICK m \in Labels, k \in 0 .. K :
          table[p] = <<m, k>> /\ Inserts(m, k) /\ Hop[m] <= launch
    BY <1>0 DEF EntryInserted
  <2> QED BY <1>0, <1>1, <2>1
<1>6. Held'
  <2>1. \A m \in Labels, k \in 0 .. K : Written(m, k)' => Written(m, k)
    BY <1>0, <1>1 DEF Written, Active, PcInsert, Inserts
  <2> QED BY <1>0, <2>1 DEF Held, Holds
<1> QED BY <1>0, <1>2, <1>3, <1>4, <1>5, <1>6

(* The launch of the clear: the probing paths put every entry in reach of  *)
(* the home slot the thread of its label starts from.                      *)
LEMMA LaunchClearStep ==
  ASSUME IInv, LaunchClear
  PROVE  ClearInv' /\ launch' = K + 1
<1> USE DEF IInv, InsertInv
<1>0. /\ launch <= K /\ launch' = K + 1 /\ table' = table
      /\ \A l \in Labels : /\ pc'[l] = "read" /\ idx'[l] = Hop[l]
                           /\ pos'[l] = Home[KeyAt(l, Hop[l])]
  BY Typing DEF LaunchClear
<1>1. EntryCovered'
  <2> SUFFICES ASSUME NEW p \in Slots, table[p] # Empty
               PROVE  \E l \in Labels :
                        \/ Reach(pos'[l], p)
                        \/ \E k \in 0 .. K :
                             k > Hop[l] /\ Reach(Home[KeyAt(l, k)], p)
    BY <1>0 DEF EntryCovered, Covers, Reach
  <2>1. PICK l \in Labels, k \in 0 .. K : table[p] = <<l, k>> /\ Inserts(l, k)
    BY <1>0 DEF EntryInserted
  <2>2. KeyOf(table[p]) = KeyAt(l, k) /\ Home[KeyAt(l, k)] \in Slots
        /\ Hop[l] <= k /\ Hop[l] \in 0 .. K
    BY <2>1, Typing
  <2>3. Reach(Home[KeyAt(l, k)], p)
    <3> SUFFICES ASSUME NEW r \in Slots,
                        Disp(Home[KeyAt(l, k)], r) <= Disp(Home[KeyAt(l, k)], p)
                 PROVE  table[r] # Empty
      BY DEF Reach
    <3>1. CASE r = p
      BY <3>1
    <3>2. CASE r # p
      <4>1. Disp(Home[KeyAt(l, k)], r) < Disp(Home[KeyAt(l, k)], p)
        BY <2>2, <3>2, DispFacts
      <4> QED BY <1>0, <2>2, <4>1 DEF EntryPath
    <3> QED BY <3>1, <3>2
  <2>4. CASE k = Hop[l]
    BY <1>0, <2>3, <2>4
  <2>5. CASE k # Hop[l]
    BY <2>2, <2>3, <2>5
  <2> QED BY <2>4, <2>5
<1> QED BY <1>0, <1>1 DEF ClearInv, PcClear

LEMMA ReadStep ==
  ASSUME IInv, TypeOK', launch > K, NEW l \in Labels, Read(l)
  PROVE  ClearInv'
<1> USE DEF IInv, ClearInv
<1>0. /\ table' = table /\ pc[l] = "read" /\ idx[l] \in 0 .. K
      /\ pos[l] \in Slots /\ K \in Nat
      /\ \A m \in Labels : m # l => /\ pc'[m] = pc[m] /\ idx'[m] = idx[m]
                                    /\ pos'[m] = pos[m]
  BY Typing DEF Read, TypeOK
<1>1. PcClear'
  BY <1>0 DEF Read, PcClear, TypeOK
<1>2. EntryCovered'
  <2> SUFFICES ASSUME NEW p \in Slots, table[p] # Empty
               PROVE  \E m \in Labels : Covers(m, p)'
    BY <1>0 DEF EntryCovered
  <2>1. PICK m \in Labels : Covers(m, p)
    BY DEF EntryCovered
  <2>2. CASE m # l
    BY <1>0, <2>1, <2>2 DEF Covers, Reach
  <2>3. CASE m = l /\ table[pos[l]] # Empty
    <3>1. pc'[l] = "wipe" /\ idx'[l] = idx[l] /\ pos'[l] = pos[l]
      BY <2>3 DEF Read, TypeOK
    <3> QED BY <1>0, <2>1, <2>3, <3>1 DEF Covers, Reach
  <2>4. CASE m = l /\ table[pos[l]] = Empty
    <3>1. ~Reach(pos[l], p)
      BY <1>0, <2>4, DispFacts DEF Reach
    <3>2. PICK k \in 0 .. K : k > idx[l] /\ Reach(Home[KeyAt(l, k)], p)
      BY <2>1, <2>4, <3>1 DEF Covers
    <3>3. /\ pc'[l] = "read" /\ idx'[l] = idx[l] + 1
          /\ pos'[l] = Home[KeyAt(l, idx[l] + 1)]
      BY <1>0, <2>4, <3>2 DEF Read, TypeOK
    <3>4. CASE k = idx[l] + 1
      BY <1>0, <3>2, <3>3, <3>4 DEF Covers, Reach
    <3>5. CASE k # idx[l] + 1
      <4>1. k > idx'[l]
        BY <1>0, <3>2, <3>3, <3>5
      <4> QED BY <1>0, <3>2, <3>3, <4>1 DEF Covers, Reach
    <3> QED BY <3>4, <3>5
  <2> QED BY <2>2, <2>3, <2>4
<1> QED BY <1>1, <1>2

(* A wipe cuts the reach of the others; its own thread takes over behind.  *)
LEMMA WipeStep ==
  ASSUME IInv, TypeOK', launch > K, NEW l \in Labels, Wipe(l)
  PROVE  ClearInv'
<1> USE DEF IInv, ClearInv
<1>0. /\ pc[l] = "wipe" /\ pos[l] \in Slots /\ idx' = idx
      /\ pc'[l] = "read" /\ pos'[l] = Succ(pos[l])
      /\ \A m \in Labels : m # l => pc'[m] = pc[m] /\ pos'[m] = pos[m]
      /\ \A p \in Slots : table'[p] = IF p = pos[l] THEN Empty ELSE table[p]
  BY DEF Wipe, TypeOK
<1>1. PcClear'
  BY <1>0 DEF PcClear
<1>2. EntryCovered'
  <2> SUFFICES ASSUME NEW s \in Slots, s = pos[l],
                      NEW p \in Slots, p # s, table[p] # Empty
               PROVE  \E m \in Labels : Covers(m, p)'
    BY <1>0 DEF EntryCovered
  <2>1. PICK m \in Labels : Covers(m, p)
    BY DEF EntryCovered
  <2>2. ASSUME NEW q \in Slots, Reach(q, p)
        PROVE  (q # s /\ Reach(q, p)') \/ Reach(Succ(s), p)'
    <3>1. CASE Disp(q, s) <= Disp(q, p)
      <4>1. ASSUME NEW r \in Slots, Disp(Succ(s), r) <= Disp(Succ(s), p)
            PROVE  table'[r] # Empty
        <5>1. Disp(q, r) <= Disp(q, p) /\ r # s
          BY <3>1, <4>1, BeyondFacts
        <5> QED BY <1>0, <2>2, <5>1 DEF Reach
      <4> QED BY <4>1 DEF Reach
    <3>2. CASE ~(Disp(q, s) <= Disp(q, p))
      <4>1. q # s
        BY <3>2, DispFacts
      <4>2. \A r \in Slots : Disp(q, r) <= Disp(q, p) => r # s
        BY <3>2
      <4> QED BY <1>0, <2>2, <4>1, <4>2 DEF Reach
    <3> QED BY <3>1, <3>2
  <2>3. CASE Reach(Succ(s), p)'
    <3>1. Reach(pos[l], p)'
      BY <1>0, <2>3 DEF Reach
    <3> QED BY <1>0, <3>1 DEF Covers
  <2>4. CASE ~Reach(Succ(s), p)'
    <3>1. CASE Reach(pos[m], p)
      <4>1. PICK q \in Slots : q = pos[m]
        BY DEF TypeOK
      <4>2. q # s /\ Reach(q, p)'
        BY <2>2, <2>4, <3>1, <4>1
      <4>3. m # l /\ pos'[m] = q
        BY <1>0, <4>1, <4>2
      <4>4. Reach(pos[m], p)'
        BY <4>2, <4>3 DEF Reach
      <4> QED BY <1>0, <2>1, <4>3, <4>4 DEF Covers
    <3>2. CASE ~Reach(pos[m], p)
      <4>1. PICK k \in 0 .. K : k > idx[m] /\ Reach(Home[KeyAt(m, k)], p)
        BY <2>1, <3>2 DEF Covers
      <4>2. Home[KeyAt(m, k)] \in Slots
        BY Typing
      <4>3. Reach(Home[KeyAt(m, k)], p)'
        BY <2>2, <2>4, <4>1, <4>2
      <4>4. pc'[m] \in {"read", "wipe"}
        BY <1>0, <2>1 DEF Covers
      <4> QED BY <1>0, <4>1, <4>3, <4>4 DEF Covers
    <3> QED BY <3>1, <3>2
  <2> QED BY <2>3, <2>4
<1> QED BY <1>1, <1>2
-----------------------------------------------------------------------------
LEMMA StepIInv == ASSUME IInv, [Next]_vars PROVE IInv'
<1>1. TypeOK' /\ launch \in 0 .. K + 2 /\ K \in Nat
  BY TypeStep, Typing DEF IInv, TypeOK
<1>2. ASSUME launch <= K, NEW l \in Labels, Thread(l) PROVE IInv'
  <2>1. pc[l] \notin {"read", "wipe"}
    BY <1>2 DEF IInv, InsertInv, PcInsert
  <2>2. InsertInv' /\ launch' = launch
    BY <1>1, <1>2, <2>1, ProbeStep, ClaimStep, OverwriteStep
       DEF Thread, Read, Wipe, Probe, Claim, Overwrite
  <2> QED BY <1>1, <1>2, <2>2 DEF IInv
<1>3. ASSUME launch > K, NEW l \in Labels, Thread(l) PROVE IInv'
  <2>1. pc[l] \in {"read", "wipe"}
    BY <1>3 DEF IInv, ClearInv, PcClear, Thread, Probe, Claim, Overwrite,
               Read, Wipe
  <2>2. ClearInv' /\ launch' = launch
    BY <1>1, <1>3, <2>1, ReadStep, WipeStep
       DEF Thread, Read, Wipe, Probe, Claim, Overwrite
  <2>3. launch # K + 2
    BY <2>1 DEF IInv
  <2> QED BY <1>1, <1>3, <2>2, <2>3 DEF IInv
<1>4. CASE LaunchInsert
  <2>1. launch' = launch + 1 /\ launch' <= K /\ InsertInv'
    BY <1>4, LaunchInsertStep DEF LaunchInsert
  <2> QED BY <1>1, <2>1 DEF IInv
<1>5. CASE LaunchClear
  BY <1>1, <1>5, LaunchClearStep DEF IInv
<1>6. CASE FinishGroup
  <2>1. /\ launch = K + 1 /\ launch' = K + 2
        /\ UNCHANGED <<table, pc, idx, pos>>
        /\ \A l \in Labels : pc[l] \in {"idle", "done"}
    BY <1>6 DEF FinishGroup, Returned
  <2>2. ClearInv /\ \A l \in Labels : pc[l] = "done"
    BY <1>1, <2>1 DEF IInv, ClearInv, PcClear
  <2>3. ClearInv'
    BY <2>1, <2>2 DEF ClearInv, PcClear, EntryCovered, Covers, Reach
  <2> QED BY <1>1, <2>1, <2>2, <2>3 DEF IInv
<1>7. CASE UNCHANGED vars
  BY <1>1, <1>7
     DEF vars, IInv, InsertInv, ClearInv, PcInsert, ThreadPath, EntryPath,
         AtOwnKey, EntryInserted, Held, Written, Active, Holds, PcClear,
         EntryCovered, Covers, Reach
<1> QED BY <1>1, <1>2, <1>3, <1>4, <1>5, <1>6, <1>7 DEF Next, Stop

(* The invariant is an invariant of the specification.                     *)
THEOREM Invariance == Spec => []IInv
<1>1. Init => IInv
  BY InitIInv
<1>2. IInv /\ [Next]_vars => IInv'
  BY StepIInv
<1> QED BY <1>1, <1>2, PTL DEF Spec

(* The variables keep their types: no thread looks outside d_table.        *)
THEOREM TypeCorrect == Spec => []TypeOK
<1>1. IInv => TypeOK
  BY DEF IInv
<1> QED BY <1>1, Invariance, PTL

(* gen_hash_query between launches meets the newest label put under a key. *)
THEOREM QueryCorrect == Spec => []QueryFindsLatest
<1>1. ASSUME IInv PROVE QueryFindsLatest
  <2> SUFFICES ASSUME launch <= K, Returned,
                      NEW l \in Labels, NEW k \in 0 .. K,
                      Hop[l] <= launch, Inserts(l, k),
                      \A m \in Labels : (Pair[m] = Pair[l] /\ Hop[m] <= launch
                                           /\ Inserts(m, k)) => Hop[m] <= Hop[l]
               PROVE  \E p \in Slots : /\ Found(KeyAt(l, k), p)
                                       /\ table[p] = <<l, k>>
    BY DEF QueryFindsLatest
  <2>0. /\ PcInsert /\ EntryPath /\ EntryInserted /\ Held
        /\ launch \in 0 .. K + 2 /\ K \in Nat
        /\ Hop[l] \in 0 .. K /\ LastInsert(l) \in 0 .. K
    BY <1>1, Typing DEF IInv, InsertInv, TypeOK
  <2>1. pc[l] = "done"
    <3>1. Hop[l] <= LastInsert(l)
      BY <2>0 DEF Inserts
    <3>2. ~(Hop[l] > launch) /\ ~(Hop[l] > LastInsert(l))
      BY <2>0, <3>1
    <3> QED BY <2>0, <3>2 DEF PcInsert, Returned
  <2>2. PICK p \in Slots : Holds(p, KeyAt(l, k)) /\ Hop[table[p][1]] >= Hop[l]
    BY <2>0, <2>1 DEF Held, Written
  <2>3. PICK m \in Labels, j \in 0 .. K :
          table[p] = <<m, j>> /\ Inserts(m, j) /\ Hop[m] <= launch
    BY <2>0, <2>2 DEF EntryInserted, Holds
  <2>4. Pair[m] = Pair[l] /\ j = k
    BY <2>2, <2>3 DEF Holds, KeyOf, KeyAt
  <2>5. Hop[m] = Hop[l]
    <3>1. Hop[m] >= Hop[l] /\ Hop[m] <= Hop[l] /\ Hop[m] \in 0 .. K
      BY <2>2, <2>3, <2>4, Typing
    <3> QED BY <2>0, <3>1
  <2>6. m = l
    BY <2>4, <2>5, OnePerHop
  <2>7. Found(KeyAt(l, k), p)
    BY <2>0, <2>2 DEF Found, Holds, EntryPath
  <2> QED BY <2>3, <2>4, <2>6, <2>7
<1> QED BY <1>1, Invariance, PTL

(* gen_hash_clear empties the whole table under every interleaving.        *)
THEOREM ClearComplete == Spec => []ClearedForNextGroup
<1>1. ASSUME IInv, launch = K + 2 PROVE \A p \in Slots : table[p] = Empty
  BY <1>1, Typing DEF IInv, ClearInv, EntryCovered, Covers
<1> QED BY <1>1, Invariance, PTL DEF ClearedForNextGroup
-----------------------------------------------------------------------------
(***************************************************************************)
(* 2. CsrGraph, for every number of vertices, every set of weights and     *)
(* every file.  A graph is known by the edges its rows hold (HasEdge).     *)
(* Each conversion goes through the entries of the rows one by one, and    *)
(* since no two of them are the same pair, what it holds after n entries   *)
(* is those n edges.  toCSR's arrays list the edges by source and target,  *)
(* and the loop that links them keeps each pointer behind exactly the      *)
(* edges of its vertex whose reverse has been passed.                      *)
(***************************************************************************)
(* Least numbers, induction and iteration, which do not depend on the size of *)
(* a label index.                                                             *)
Theory == INSTANCE HopLabelsProofs WITH N <- 1, K <- 1

LEMMA TheoryHolds == Theory!SizeAssumption
BY DEF Theory!SizeAssumption

LEMMA LeastOf ==
  ASSUME NEW S, S \subseteq Nat, S # {}
  PROVE  \E m \in S : \A k \in S : m <= k
BY TheoryHolds, Theory!LeastNatural

LEMMA AllUpTo ==
  ASSUME NEW n \in Nat, NEW S, 0 \in S, \A i \in 0 .. n - 1 : i \in S => i + 1 \in S
  PROVE  0 .. n \subseteq S
BY TheoryHolds, Theory!UpTo

(* A step applied again and again.                                         *)
Maps(n, R) == [R \X (1 .. n) -> R]
Repeats(n, R, base, step, f) ==
  /\ f \in [0 .. n -> R] /\ f[0] = base
  /\ \A j \in 1 .. n : f[j] = step[<<f[j - 1], j>>]
LEMMA Repeated ==
  ASSUME NEW n \in Nat, NEW R, NEW base \in R, NEW step \in Maps(n, R)
  PROVE  \E f : Repeats(n, R, base, step, f)
<1>1. step \in Theory!Steps(n, R)
  BY DEF Maps, Theory!Steps
<1>2. \E f \in [0 .. n -> R] : f[0] = base /\ \A j \in 1 .. n : f[j] = step[<<f[j - 1], j>>]
  BY <1>1, TheoryHolds, Theory!Iterates
<1> QED BY <1>2 DEF Repeats

(* A set of numbers that goes down to 1 goes up to its size.               *)
LEMMA Down ==
  ASSUME NEW n \in Nat, NEW S \in SUBSET (1 .. n), \A i \in 1 .. n, j \in S : i < j => i \in S
  PROVE  Cardinality(S) \in 0 .. n /\ S = 1 .. Cardinality(S)
<1> DEFINE T == (1 .. n + 1) \ S
<1>1. n + 1 \in T /\ T \subseteq Nat
  OBVIOUS
<1> HIDE DEF T
<1>2. PICK m \in T : \A k \in T : m <= k
  BY <1>1, LeastOf
<1>3. m \in 1 .. n + 1 /\ m \notin S /\ \A k \in 1 .. m - 1 : k \in S
  BY <1>1, <1>2 DEF T
<1>4. S = 1 .. m - 1
  <2>1. \A k \in S : k < m
    <3> TAKE k \in S
    <3>1. k \in 1 .. n /\ m \in Int /\ k # m /\ k \in Int
      BY <1>3
    <3>2. ~(m < k)
      <4> SUFFICES ASSUME m < k PROVE FALSE
        OBVIOUS
      <4>1. m \in 1 .. n
        BY <1>3, <3>1
      <4> QED BY <1>3, <4>1
    <3> QED BY <3>1, <3>2
  <2>2. \A k \in S : k \in 1 .. m - 1
    BY <1>3, <2>1
  <2> QED BY <1>3, <2>2
<1>5. Cardinality(1 .. m - 1) = m - 1
  BY <1>3, FS_Interval
<1> QED BY <1>3, <1>4, <1>5
-----------------------------------------------------------------------------
(* Rows: neighbours in order, each once.                                   *)
Entry == [to : Vertices, wt : Weights]
Row(r) == r \in Seq(Entry) /\ \A i, j \in 1 .. Len(r) : i < j => r[i].to < r[j].to
InRow(r, x, z) == \E i \in 1 .. Len(r) : r[i].to = x /\ r[i].wt = z

LEMMA EntryIs ==
  ASSUME NEW r, Row(r), NEW i \in 1 .. Len(r)
  PROVE  r[i] \in Entry /\ r[i].to \in Vertices /\ r[i].to \in Int /\ r[i].wt \in Weights
<1>1. r[i] \in Entry
  BY DEF Row
<1>2. Vertices \subseteq Int
  BY GraphAssumption DEF Vertices
<1> QED BY <1>1, <1>2 DEF Entry

LEMMA Inserted ==
  ASSUME NEW r, NEW i, NEW e
  PROVE  InsertAt(r, i, e) = SubSeq(r, 1, i - 1) \o <<e>> \o SubSeq(r, i, Len(r))
BY Zenon DEF InsertAt

LEMMA Behind ==
  ASSUME NEW E, NEW r \in Seq(E), NEW p \in 0 .. Len(r)
  PROVE  /\ SubSeq(r, p + 1, Len(r)) \in Seq(E)
         /\ Len(SubSeq(r, p + 1, Len(r))) = Len(r) - p
         /\ \A i \in 1 .. Len(r) - p : SubSeq(r, p + 1, Len(r))[i] = r[i + p]
OBVIOUS

LEMMA InsertRow ==
  ASSUME NEW r, Row(r), NEW key \in Vertices, NEW load \in Weights
  PROVE  /\ Row(Insert(r, key, load))
         /\ \A x, z : InRow(Insert(r, key, load), x, z) <=> IF x = key THEN z = load ELSE InRow(r, x, z)
<1> DEFINE n == Len(r)
           S == {i \in DOMAIN r : r[i].to < key}
           p == Cardinality(S)
           e == [to |-> key, wt |-> load]
           q == Insert(r, key, load)
<1>1. n \in Nat /\ DOMAIN r = 1 .. n /\ r \in Seq(Entry) /\ e \in Entry /\ key \in Int
  BY GraphAssumption DEF Row, Entry, Vertices
<1>2. \A i \in 1 .. n : r[i] \in Entry /\ r[i].to \in Int /\ r[i].wt \in Weights /\ r[i].to \in Vertices
  BY EntryIs
<1>3. \A i, j \in 1 .. n : i < j => r[i].to < r[j].to
  BY DEF Row
<1>4. p \in 0 .. n /\ S = 1 .. p
  <2>1. S \in SUBSET (1 .. n)
    BY <1>1
  <2>2. \A i \in 1 .. n, j \in S : i < j => i \in S
    BY <1>1, <1>2, <1>3
  <2> HIDE DEF S, n
  <2> QED BY <1>1, <2>1, <2>2, Down
<1>5. q = IF p < n /\ r[p + 1].to = key THEN [r EXCEPT ![p + 1].wt = load]
          ELSE InsertAt(r, p + 1, e)
  BY DEF Insert
<1>6. \A i \in 1 .. n : r[i].to < key <=> i <= p
  <2>1. \A i \in 1 .. n : i \in S <=> i \in 1 .. p
    BY <1>4
  <2> QED BY <1>1, <1>4, <2>1
<1> HIDE DEF p, S, n, q
<1>7. CASE p < n /\ r[p + 1].to = key
  <2>1. /\ q = [r EXCEPT ![p + 1].wt = load] /\ p + 1 \in 1 .. n /\ p \in Nat
    BY <1>1, <1>4, <1>5, <1>7
  <2>2. q = [r EXCEPT ![p + 1] = [r[p + 1] EXCEPT !.wt = load]]
    BY <2>1
  <2>3. [r[p + 1] EXCEPT !.wt = load] = e
    BY <1>2, <1>7, <2>1 DEF Entry
  <2>4. /\ q \in Seq(Entry) /\ Len(q) = n
        /\ \A i \in 1 .. n : q[i] = IF i = p + 1 THEN e ELSE r[i]
    BY <1>1, <2>1, <2>2, <2>3 DEF n
  <2>5. \A i \in 1 .. n : q[i].to = r[i].to
    BY <1>7, <2>4
  <2>6. \A i \in 1 .. n : r[i].to = key => i = p + 1
    BY <1>2, <1>3, <1>7, <2>1
  <2>7. Row(q)
    BY <1>3, <2>4, <2>5 DEF Row
  <2>8. \A x, z : InRow(q, x, z) <=> IF x = key THEN z = load ELSE InRow(r, x, z)
    BY <1>1, <2>1, <2>4, <2>5, <2>6 DEF InRow, n
  <2> QED BY <2>7, <2>8 DEF q
<1>8. CASE ~(p < n /\ r[p + 1].to = key)
  <2>1. q = SubSeq(r, 1, p) \o <<e>> \o SubSeq(r, p + 1, n)
    <3>1. (p + 1) - 1 = p
      BY <1>4
    <3>2. q = InsertAt(r, p + 1, e)
      BY <1>5, <1>8
    <3> HIDE DEF e
    <3>3. InsertAt(r, p + 1, e) = SubSeq(r, 1, (p + 1) - 1) \o <<e>> \o SubSeq(r, p + 1, Len(r))
      BY Inserted
    <3>4. SubSeq(r, 1, (p + 1) - 1) = SubSeq(r, 1, p)
      BY <3>1
    <3> QED BY ONLY <3>2, <3>3, <3>4, n = Len(r) DEF n
  <2>2. /\ q \in Seq(Entry) /\ Len(q) = n + 1
        /\ \A i \in 1 .. n + 1 : q[i] = IF i <= p THEN r[i] ELSE IF i = p + 1 THEN e ELSE r[i - 1]
    <3> DEFINE a == SubSeq(r, 1, p)
               b == SubSeq(r, p + 1, n)
    <3>0. p \in Nat /\ p <= n /\ n = Len(r)
      BY <1>4 DEF n
    <3>1. a \in Seq(Entry) /\ Len(a) = p /\ \A i \in 1 .. p : a[i] = r[i]
      BY <1>1, <3>0
    <3>2. b \in Seq(Entry) /\ Len(b) = n - p /\ \A i \in 1 .. n - p : b[i] = r[i + p]
      <4>1. p \in 0 .. Len(r) /\ r \in Seq(Entry)
        BY <1>1, <1>4, <3>0
      <4> HIDE DEF b
      <4>2. b = SubSeq(r, p + 1, Len(r))
        BY <3>0 DEF b
      <4> QED BY ONLY <3>0, <4>1, <4>2, Behind
    <3> HIDE DEF a, b, e
    <3>3. a \o <<e>> \in Seq(Entry) /\ Len(a \o <<e>>) = p + 1
          /\ \A i \in 1 .. p + 1 : (a \o <<e>>)[i] = IF i <= p THEN r[i] ELSE e
      BY <1>1, <1>4, <3>1
    <3> DEFINE c == a \o <<e>>
    <3> HIDE DEF c
    <3>4. c \o b \in Seq(Entry) /\ Len(c \o b) = n + 1
          /\ \A i \in 1 .. n + 1 : (c \o b)[i] = IF i <= p + 1 THEN c[i] ELSE b[i - (p + 1)]
      BY <1>1, <1>4, <3>2, <3>3 DEF c
    <3>5. q = c \o b
      BY <2>1 DEF c, a, b
    <3>6. \A i \in 1 .. n + 1 : i > p + 1 => b[i - (p + 1)] = r[i - 1]
      BY <1>1, <1>4, <3>2
    <3>7. ASSUME NEW i \in 1 .. n + 1
          PROVE  q[i] = IF i <= p THEN r[i] ELSE IF i = p + 1 THEN e ELSE r[i - 1]
      <4>1. q[i] = IF i <= p + 1 THEN c[i] ELSE b[i - (p + 1)]
        BY <3>4, <3>5
      <4>2. CASE i <= p + 1
        BY <1>1, <1>4, <3>3, <4>1, <4>2 DEF c
      <4>3. CASE i > p + 1
        BY <1>1, <1>4, <3>6, <4>1, <4>3
      <4> QED BY <1>1, <1>4, <4>2, <4>3
    <3> QED BY <3>4, <3>5, <3>7
  <2>3. \A i \in 1 .. n : i > p => r[i].to > key
    <3> SUFFICES ASSUME NEW i \in 1 .. n, i > p PROVE r[i].to > key
      OBVIOUS
    <3>1. p + 1 \in 1 .. n /\ ~(r[p + 1].to < key) /\ r[p + 1].to # key
      BY <1>1, <1>4, <1>6, <1>8
    <3>2. r[p + 1].to > key
      BY <1>1, <1>2, <3>1
    <3>3. CASE i = p + 1
      BY <3>2, <3>3
    <3>4. CASE i # p + 1
      <4>1. r[p + 1].to < r[i].to
        BY <1>1, <1>3, <1>4, <3>1, <3>4
      <4> QED BY <1>1, <1>2, <3>1, <3>2, <4>1
    <3> QED BY <3>3, <3>4
  <2>4. \A i \in 1 .. n + 1 : q[i].to = IF i <= p THEN r[i].to ELSE IF i = p + 1 THEN key ELSE r[i - 1].to
    BY <2>2
  <2>5. Row(q)
    <3> SUFFICES ASSUME NEW i \in 1 .. n + 1, NEW j \in 1 .. n + 1, i < j PROVE q[i].to < q[j].to
      BY <2>2 DEF Row
    <3>1. CASE j <= p
      <4>1. i \in 1 .. n /\ j \in 1 .. n /\ i <= p
        BY <1>1, <1>4, <3>1
      <4> QED BY <1>3, <2>4, <3>1, <4>1
    <3>2. CASE j = p + 1
      <4>1. i \in 1 .. n /\ i <= p
        BY <1>1, <1>4, <3>2
      <4> QED BY <1>1, <1>4, <1>6, <2>4, <3>2, <4>1
    <3>3. CASE j > p + 1
      <4>1. j - 1 \in 1 .. n /\ j - 1 > p /\ ~(j <= p) /\ j # p + 1
        BY <1>1, <1>4, <3>3
      <4>2. q[j].to = r[j - 1].to /\ r[j - 1].to > key /\ r[j - 1].to \in Int
        BY <1>2, <2>3, <2>4, <4>1
      <4>3. CASE i <= p
        <5>1. i \in 1 .. n /\ q[i].to = r[i].to /\ r[i].to < key /\ r[i].to \in Int
          BY <1>1, <1>2, <1>4, <1>6, <2>4, <4>3
        <5> QED BY <1>1, <4>2, <5>1
      <4>4. CASE i = p + 1
        BY <1>1, <1>4, <2>4, <4>2, <4>4
      <4>5. CASE i > p + 1
        <5>1. i - 1 \in 1 .. n /\ i - 1 < j - 1 /\ ~(i <= p) /\ i # p + 1
          BY <1>1, <1>4, <4>5
        <5>2. q[i].to = r[i - 1].to
          BY <2>4, <5>1
        <5> QED BY <1>3, <4>1, <4>2, <5>1, <5>2
      <4> QED BY <1>4, <4>3, <4>4, <4>5
    <3> QED BY <1>4, <3>1, <3>2, <3>3
  <2>6. \A x, z : InRow(q, x, z) <=> IF x = key THEN z = load ELSE InRow(r, x, z)
    <3> SUFFICES ASSUME NEW x, NEW z
                 PROVE  InRow(q, x, z) <=> IF x = key THEN z = load ELSE InRow(r, x, z)
      OBVIOUS
    <3>1. \A i \in 1 .. n : r[i].to # key
      <4> TAKE i \in 1 .. n
      <4>1. i <= p \/ i > p
        BY <1>4
      <4> QED BY <1>1, <1>2, <1>6, <2>3, <4>1
    <3>2. p + 1 \in 1 .. n + 1 /\ q[p + 1] = e
      BY <1>1, <1>4, <2>2
    <3>3. ASSUME InRow(q, x, z) PROVE IF x = key THEN z = load ELSE InRow(r, x, z)
      <4>1. PICK i \in 1 .. n + 1 : q[i].to = x /\ q[i].wt = z
        BY <2>2, <3>3 DEF InRow
      <4>2. CASE i = p + 1
        BY <3>2, <4>1, <4>2
      <4>3. CASE i # p + 1
        <5>1. PICK j \in 1 .. n : q[i] = r[j]
          <6>1. CASE i <= p
            BY <1>1, <1>4, <2>2, <6>1
          <6>2. CASE i > p + 1
            BY <1>1, <1>4, <2>2, <6>2
          <6> QED BY <1>4, <4>3, <6>1, <6>2
        <5> QED BY <3>1, <4>1, <5>1 DEF InRow, n
      <4> QED BY <4>2, <4>3
    <3>4. ASSUME x = key, z = load PROVE InRow(q, x, z)
      BY <2>2, <3>2, <3>4 DEF InRow
    <3>5. ASSUME x # key, InRow(r, x, z) PROVE InRow(q, x, z)
      <4>1. PICK j \in 1 .. n : r[j].to = x /\ r[j].wt = z
        BY <3>5 DEF InRow, n
      <4>2. \E i \in 1 .. n + 1 : q[i] = r[j]
        <5>1. CASE j <= p
          BY <1>1, <1>4, <2>2, <5>1
        <5>2. CASE j > p
          <6>1. j + 1 \in 1 .. n + 1 /\ ~(j + 1 <= p) /\ j + 1 # p + 1 /\ j + 1 - 1 = j
            BY <1>1, <1>4, <5>2
          <6> QED BY <2>2, <6>1
        <5> QED BY <1>4, <5>1, <5>2
      <4> QED BY <2>2, <4>1, <4>2 DEF InRow
    <3> QED BY <3>3, <3>4, <3>5
  <2> QED BY <2>5, <2>6 DEF q
<1> QED BY <1>7, <1>8
-----------------------------------------------------------------------------
(* Graphs: a row for each vertex.                                          *)
Graph(adj) == adj \in [Vertices -> Seq(Entry)] /\ \A v \in Vertices : Row(adj[v])
HasEdge(adj, x, y, z) == x \in Vertices /\ InRow(adj[x], y, z)

LEMMA NoEdgesGraph ==
  Graph(NoEdges) /\ \A x, y, z : ~HasEdge(NoEdges, x, y, z)
<1>1. Row(<<>>) /\ \A y, z : ~InRow(<<>>, y, z)
  BY DEF Row, InRow
<1>2. <<>> \in Seq(Entry)
  OBVIOUS
<1>3. NoEdges \in [Vertices -> Seq(Entry)] /\ \A v \in Vertices : NoEdges[v] = <<>>
  BY <1>2 DEF NoEdges
<1> QED BY <1>1, <1>3 DEF Graph, HasEdge

LEMMA InsertGraph ==
  ASSUME NEW adj, Graph(adj), NEW u \in Vertices, NEW v \in Vertices, NEW load \in Weights
  PROVE  LET new == [adj EXCEPT ![u] = Insert(@, v, load)]
         IN  /\ Graph(new)
             /\ \A x, y, z : HasEdge(new, x, y, z) <=> IF x = u /\ y = v THEN z = load ELSE HasEdge(adj, x, y, z)
<1> DEFINE new == [adj EXCEPT ![u] = Insert(@, v, load)]
           row == Insert(adj[u], v, load)
<1>1. Row(adj[u])
  BY DEF Graph
<1>2. Row(row) /\ \A x, z : InRow(row, x, z) <=> IF x = v THEN z = load ELSE InRow(adj[u], x, z)
  BY <1>1, InsertRow
<1>3. row \in Seq(Entry)
  BY <1>2 DEF Row
<1>4. new = [adj EXCEPT ![u] = row]
  OBVIOUS
<1> HIDE DEF new, row
<1>5. /\ new \in [Vertices -> Seq(Entry)]
      /\ \A x \in Vertices : new[x] = IF x = u THEN row ELSE adj[x]
  BY <1>3, <1>4 DEF Graph
<1>6. Graph(new)
  BY <1>2, <1>5 DEF Graph
<1>7. \A x, y, z : HasEdge(new, x, y, z) <=> IF x = u /\ y = v THEN z = load ELSE HasEdge(adj, x, y, z)
  <2> TAKE x, y, z
  <2>1. CASE x = u
    BY <1>2, <1>5, <2>1 DEF HasEdge
  <2>2. CASE x # u
    BY <1>5, <2>2 DEF HasEdge
  <2> QED BY <2>1, <2>2
<1> QED BY <1>6, <1>7 DEF new

Same(x, y, u, v) == {x, y} = {u, v}
LEMMA AddEdgeGraph ==
  ASSUME NEW adj, Graph(adj), NEW u \in Vertices, NEW v \in Vertices, NEW load \in Weights
  PROVE  /\ Graph(AddEdge(adj, u, v, load))
         /\ \A x, y, z : HasEdge(AddEdge(adj, u, v, load), x, y, z) <=>
               IF Same(x, y, u, v) THEN z = load ELSE HasEdge(adj, x, y, z)
<1> DEFINE one == [adj EXCEPT ![u] = Insert(@, v, load)]
           two == [one EXCEPT ![v] = Insert(@, u, load)]
<1>1. /\ Graph(one)
      /\ \A x, y, z : HasEdge(one, x, y, z) <=> IF x = u /\ y = v THEN z = load ELSE HasEdge(adj, x, y, z)
  BY InsertGraph
<1> HIDE DEF one
<1>2. /\ Graph(two)
      /\ \A x, y, z : HasEdge(two, x, y, z) <=> IF x = v /\ y = u THEN z = load ELSE HasEdge(one, x, y, z)
  BY <1>1, InsertGraph
<1>3. AddEdge(adj, u, v, load) = two
  BY DEF AddEdge, one
<1> HIDE DEF two
<1>4. \A x, y, z : HasEdge(two, x, y, z) <=> IF Same(x, y, u, v) THEN z = load ELSE HasEdge(adj, x, y, z)
  <2> TAKE x, y, z
  <2>1. Same(x, y, u, v) <=> (x = u /\ y = v) \/ (x = v /\ y = u)
    BY DEF Same
  <2>2. HasEdge(two, x, y, z) <=> IF x = v /\ y = u THEN z = load ELSE HasEdge(one, x, y, z)
    BY <1>2
  <2>3. HasEdge(one, x, y, z) <=> IF x = u /\ y = v THEN z = load ELSE HasEdge(adj, x, y, z)
    BY <1>1
  <2> QED BY ONLY <2>1, <2>2, <2>3
<1> QED BY <1>2, <1>3, <1>4
-----------------------------------------------------------------------------
(* f[j] is the first j of n sequences in one.                              *)
Joins(n, T, s, f) ==
  /\ f \in [0 .. n -> Seq(T)]
  /\ f[0] = <<>>
  /\ \A j \in 1 .. n : f[j] = f[j - 1] \o s[j]
  /\ FlattenSeq(s) = f[n]
LEMMA Concatenated ==
  ASSUME NEW n \in Nat \ {0}, NEW T, NEW s \in [1 .. n -> Seq(T)]
  PROVE  \E f : Joins(n, T, s, f)
<1> DEFINE R == Seq(T)
           step == [p \in R \X (1 .. n) |-> p[1] \o s[p[2]]]
<1>1. step \in Maps(n, R) /\ <<>> \in R /\ n \in Nat
  BY DEF Maps
<1>2. PICK f \in [0 .. n -> R] : f[0] = <<>> /\ \A j \in 1 .. n : f[j] = step[<<f[j - 1], j>>]
  <2> HIDE DEF step, R
  <2>1. PICK f : Repeats(n, R, <<>>, step, f)
    BY ONLY <1>1, Repeated
  <2> QED BY <2>1 DEF Repeats
<1>9. 1 \in 1 .. n /\ 1 - 1 = 0
  OBVIOUS
<1>3. \A j \in 1 .. n : f[j] = f[j - 1] \o s[j]
  <2> TAKE j \in 1 .. n
  <2>1. f[j - 1] \in R /\ <<f[j - 1], j>> \in R \X (1 .. n)
    <3> HIDE DEF R
    <3>1. j - 1 \in 0 .. n
      BY <1>1
    <3> QED BY <1>2, <3>1
  <2>2. step[<<f[j - 1], j>>] = f[j - 1] \o s[j]
    BY <2>1
  <2> HIDE DEF step
  <2> QED BY <1>2, <2>2
<1> HIDE DEF step
<1>10. f[1] = s[1]
  <2>1. f[1] = <<>> \o s[1] /\ s[1] \in Seq(T)
    BY <1>9, <1>2, <1>3
  <2> QED BY <2>1
<1> DEFINE g == [i \in 1 .. n |-> f[i]]
           Total(at) == at = [i \in 1 .. n |-> IF i = 1 THEN s[i] ELSE at[i - 1] \o s[i]]
           first == CHOOSE at : Total(at)
<1>4. Total(g)
  <2>1. ASSUME NEW i \in 1 .. n PROVE f[i] = IF i = 1 THEN s[i] ELSE g[i - 1] \o s[i]
    <3>1. CASE i = 1
      BY <1>10, <3>1
    <3>2. CASE i # 1
      <4>1. i - 1 \in 1 .. n
        BY <3>2
      <4>2. g[i - 1] = f[i - 1]
        BY <4>1
      <4> QED BY <1>3, <3>2, <4>2
    <3> QED BY <3>1, <3>2
  <2> QED BY <2>1
<1>5. FlattenSeq(s) = first[n]
  <2>1. Len(s) = n
    OBVIOUS
  <2> QED BY <2>1 DEF FlattenSeq
<1>6. Total(first)
  <2> HIDE DEF Total, g
  <2> QED BY <1>4
<1>7. \A i \in 1 .. n : first[i] = IF i = 1 THEN s[i] ELSE first[i - 1] \o s[i]
  BY <1>6
<1> HIDE DEF Total, first
<1>8. n \in Nat /\ first[n] = f[n]
  <2> DEFINE S == {i \in 0 .. n : i = 0 \/ first[i] = f[i]}
  <2>1. 0 \in S
    OBVIOUS
  <2>2. ASSUME NEW i \in 0 .. n - 1, i \in S PROVE i + 1 \in S
    <3>1. CASE i = 0
      <4>1. first[1] = s[1]
        BY <1>9, <1>7
      <4> QED BY <1>10, <3>1, <4>1
    <3>2. CASE i # 0
      <4>1. i + 1 \in 1 .. n /\ i + 1 # 1 /\ (i + 1) - 1 = i /\ first[i] = f[i]
        BY <2>2, <3>2
      <4>2. first[i + 1] = first[i] \o s[i + 1]
        BY <1>7, <4>1
      <4>3. f[i + 1] = f[i] \o s[i + 1]
        BY <1>3, <4>1
      <4>4. first[i + 1] = f[i + 1]
        BY ONLY <4>1, <4>2, <4>3
      <4> QED BY <4>1, <4>4
    <3> QED BY <3>1, <3>2
  <2> HIDE DEF S
  <2>3. 0 .. n \subseteq S
    BY <2>1, <2>2, AllUpTo
  <2> QED BY <2>3 DEF S
<1> QED BY <1>2, <1>3, <1>5, <1>8 DEF Joins

LEMMA Joined ==
  ASSUME NEW X, NEW a \in Seq(X), NEW b \in Seq(X), NEW n, NEW o, n = Len(a), o = Len(b)
  PROVE  /\ a \o b \in Seq(X) /\ Len(a \o b) = n + o
         /\ \A k \in 1 .. n + o : (a \o b)[k] = IF k <= n THEN a[k] ELSE b[k - n]
OBVIOUS
-----------------------------------------------------------------------------
(* A sequence of entries: the edge that a member is.                       *)
Triples == Seq(Vertices \X Entry)
IsEdge(p, x, y, z) == p[1] = x /\ p[2].to = y /\ p[2].wt = z
Later(p, q) == p[1] < q[1] \/ (p[1] = q[1] /\ p[2].to < q[2].to)
InOrder(all) == \A k, l \in 1 .. Len(all) : k < l => Later(all[k], all[l])
(* The entries of the rows before m, and those of all rows.                *)
Upto(adj, all, m) ==
  /\ all \in Triples
  /\ InOrder(all)
  /\ \A x, y, z : HasEdge(adj, x, y, z) /\ x < m <=> \E k \in 1 .. Len(all) : IsEdge(all[k], x, y, z)
Lists(adj, all) ==
  /\ all \in Triples
  /\ InOrder(all)
  /\ \A x, y, z : HasEdge(adj, x, y, z) <=> \E k \in 1 .. Len(all) : IsEdge(all[k], x, y, z)

LEMMA OneRowMore ==
  ASSUME NEW adj, Graph(adj), NEW m \in Nat, m \in Vertices, NEW a, Upto(adj, a, m)
  PROVE  Upto(adj, a \o [j \in DOMAIN adj[m] |-> <<m, adj[m][j]>>], m + 1)
<1> DEFINE r == adj[m]
           b == [j \in DOMAIN r |-> <<m, r[j]>>]
           c == a \o b
           n == Len(a)
           o == Len(r)
<1>1. Row(r) /\ r \in Seq(Entry) /\ o \in Nat /\ DOMAIN r = 1 .. o /\ n \in Nat
  BY DEF Graph, Upto, Row, Triples
<1>2. \A j \in 1 .. o : r[j] \in Entry /\ r[j].to \in Int
  BY <1>1, EntryIs
<1>3. b \in Triples /\ Len(b) = o /\ \A j \in 1 .. o : b[j] = <<m, r[j]>>
  <2> HIDE DEF r, o
  <2>1. b = [j \in 1 .. o |-> <<m, r[j]>>]
    BY <1>1
  <2> QED BY <1>1, <1>2, <2>1 DEF Triples
<1>4. a \in Triples /\ InOrder(a)
  BY DEF Upto
<1> HIDE DEF b, r, n, o
<1>5. /\ c \in Triples /\ Len(c) = n + o
      /\ \A k \in 1 .. n + o : c[k] = IF k <= n THEN a[k] ELSE b[k - n]
  <2> DEFINE X == Vertices \X Entry
  <2>1. a \in Seq(X) /\ b \in Seq(X)
    BY <1>3, <1>4 DEF Triples
  <2> HIDE DEF X
  <2>2. /\ a \o b \in Seq(X) /\ Len(a \o b) = n + o
        /\ \A k \in 1 .. n + o : (a \o b)[k] = IF k <= n THEN a[k] ELSE b[k - n]
    BY ONLY <1>3, <2>1, n = Len(a), Joined DEF n
  <2> QED BY <2>2 DEF X, Triples
<1> HIDE DEF c
<1>6. \A k \in 1 .. n : a[k] \in Vertices \X Entry /\ a[k][1] < m /\ a[k][1] \in Int /\ c[k] = a[k]
  <2> TAKE k \in 1 .. n
  <2>1. a[k] \in Vertices \X Entry /\ c[k] = a[k] /\ k \in 1 .. Len(a)
    BY <1>1, <1>4, <1>5 DEF Triples, n
  <2>2. IsEdge(a[k], a[k][1], a[k][2].to, a[k][2].wt)
    BY DEF IsEdge
  <2>3. a[k][1] < m
    BY <2>1, <2>2 DEF Upto
  <2>4. Vertices \subseteq Int
    BY GraphAssumption DEF Vertices
  <2> QED BY <2>1, <2>3, <2>4
<1>7. \A k \in n + 1 .. n + o : k - n \in 1 .. o /\ c[k] = <<m, r[k - n]>>
  BY <1>1, <1>3, <1>5
<1>8. InOrder(c)
  <2> SUFFICES ASSUME NEW k \in 1 .. n + o, NEW l \in 1 .. n + o, k < l
               PROVE  Later(c[k], c[l])
    BY <1>5 DEF InOrder
  <2>1. CASE l <= n
    <3>1. k \in 1 .. Len(a) /\ l \in 1 .. Len(a) /\ c[k] = a[k] /\ c[l] = a[l]
      BY <1>1, <1>6, <2>1 DEF n
    <3> QED BY <1>4, <3>1 DEF InOrder
  <2>2. CASE l > n /\ k <= n
    <3>1. c[k][1] < m /\ c[l] = <<m, r[l - n]>>
      BY <1>1, <1>6, <1>7, <2>2
    <3> QED BY <3>1 DEF Later
  <2>3. CASE k > n
    <3>1. c[k] = <<m, r[k - n]>> /\ c[l] = <<m, r[l - n]>> /\ k - n \in 1 .. o /\ l - n \in 1 .. o /\ k - n < l - n
      BY <1>1, <1>7, <2>3
    <3>2. r[k - n].to < r[l - n].to
      BY <1>1, <3>1 DEF Row, o
    <3> QED BY <3>1, <3>2 DEF Later
  <2> QED BY <1>1, <2>1, <2>2, <2>3
<1>9. ASSUME NEW x, NEW y, NEW z
      PROVE  HasEdge(adj, x, y, z) /\ x < m + 1 <=> \E k \in 1 .. n + o : IsEdge(c[k], x, y, z)
  <2>1. HasEdge(adj, x, y, z) => x \in Int
    BY GraphAssumption DEF HasEdge, Vertices
  <2>2. HasEdge(adj, x, y, z) /\ x < m <=> \E k \in 1 .. n : IsEdge(a[k], x, y, z)
    BY DEF Upto, n
  <2>3. HasEdge(adj, x, y, z) /\ x = m <=> \E j \in 1 .. o : IsEdge(<<m, r[j]>>, x, y, z)
    BY DEF HasEdge, InRow, IsEdge, r, o
  <2>4. (\E k \in 1 .. n + o : IsEdge(c[k], x, y, z)) <=>
          (\E k \in 1 .. n : IsEdge(a[k], x, y, z)) \/ (\E j \in 1 .. o : IsEdge(<<m, r[j]>>, x, y, z))
    <3>1. ASSUME NEW k \in 1 .. n + o, IsEdge(c[k], x, y, z)
          PROVE  (\E i \in 1 .. n : IsEdge(a[i], x, y, z)) \/ (\E j \in 1 .. o : IsEdge(<<m, r[j]>>, x, y, z))
      <4>1. CASE k <= n
        BY <1>1, <1>6, <3>1, <4>1
      <4>2. CASE k > n
        <5>1. k \in n + 1 .. n + o
          BY <1>1, <4>2
        <5>2. k - n \in 1 .. o /\ c[k] = <<m, r[k - n]>>
          BY <1>7, <5>1
        <5> QED BY <3>1, <5>2
      <4>3. k <= n \/ k > n
        BY <1>1
      <4> QED BY <4>1, <4>2, <4>3
    <3>2. ASSUME NEW k \in 1 .. n, IsEdge(a[k], x, y, z) PROVE \E i \in 1 .. n + o : IsEdge(c[i], x, y, z)
      <4>1. k \in 1 .. n + o
        BY <1>1
      <4> QED BY <1>6, <3>2, <4>1
    <3>3. ASSUME NEW j \in 1 .. o, IsEdge(<<m, r[j]>>, x, y, z) PROVE \E i \in 1 .. n + o : IsEdge(c[i], x, y, z)
      <4>1. j + n \in n + 1 .. n + o /\ j + n \in 1 .. n + o /\ (j + n) - n = j
        BY <1>1
      <4> QED BY <1>7, <3>3, <4>1
    <3> QED BY <3>1, <3>2, <3>3
  <2>5. HasEdge(adj, x, y, z) => (x < m + 1 <=> (x < m \/ x = m))
    BY <2>1
  <2> QED BY <2>2, <2>3, <2>4, <2>5
<1>10. Upto(adj, c, m + 1)
  BY <1>5, <1>8, <1>9 DEF Upto
<1> QED BY <1>10 DEF c, b, r

LEMMA AllListed ==
  ASSUME NEW adj, Graph(adj)
  PROVE  Lists(adj, AllEntries(adj))
<1> DEFINE s == [i \in 1 .. N |-> [j \in DOMAIN adj[i - 1] |-> <<i - 1, adj[i - 1][j]>>]]
           T == Vertices \X Entry
<1>1. N \in Nat \ {0}
  BY GraphAssumption
<1>2. s \in [1 .. N -> Seq(T)]
  <2> SUFFICES ASSUME NEW i \in 1 .. N PROVE [j \in DOMAIN adj[i - 1] |-> <<i - 1, adj[i - 1][j]>>] \in Seq(T)
    OBVIOUS
  <2>1. i - 1 \in Vertices
    BY <1>1 DEF Vertices
  <2>2. adj[i - 1] \in Seq(Entry)
    BY <2>1 DEF Graph
  <2>3. DOMAIN adj[i - 1] = 1 .. Len(adj[i - 1]) /\ Len(adj[i - 1]) \in Nat
        /\ \A j \in 1 .. Len(adj[i - 1]) : adj[i - 1][j] \in Entry
    BY <2>2
  <2> QED BY <2>1, <2>3
<1>3. AllEntries(adj) = FlattenSeq(s)
  BY DEF AllEntries
<1> HIDE DEF s, T
<1>4. PICK f \in [0 .. N -> Seq(T)] :
        f[0] = <<>> /\ (\A j \in 1 .. N : f[j] = f[j - 1] \o s[j]) /\ FlattenSeq(s) = f[N]
  <2>1. PICK f : Joins(N, T, s, f)
    BY ONLY <1>1, <1>2, Concatenated
  <2> QED BY <2>1 DEF Joins
<1> DEFINE S == {m \in 0 .. N : Upto(adj, f[m], m)}
<1>5. 0 \in S
  <2>1. \A x, y, z : ~(HasEdge(adj, x, y, z) /\ x < 0)
    BY <1>1 DEF HasEdge, Vertices
  <2>2. <<>> \in Triples /\ Len(<<>>) = 0 /\ 1 .. 0 = {}
    BY DEF Triples
  <2>3. Upto(adj, <<>>, 0)
    BY <2>1, <2>2 DEF Upto, InOrder
  <2> QED BY <1>1, <1>4, <2>3
<1>6. ASSUME NEW m \in 0 .. N - 1, m \in S PROVE m + 1 \in S
  <2>1. m \in Nat /\ m \in Vertices /\ m + 1 \in 1 .. N /\ (m + 1) - 1 = m /\ m + 1 \in 0 .. N
    BY <1>1 DEF Vertices
  <2>2. Upto(adj, f[m], m)
    BY <1>6
  <2>3. s[m + 1] = [j \in DOMAIN adj[m] |-> <<m, adj[m][j]>>]
    BY <2>1 DEF s
  <2>4. f[m + 1] = f[m] \o s[m + 1]
    BY <1>4, <2>1
  <2>5. Upto(adj, f[m] \o [j \in DOMAIN adj[m] |-> <<m, adj[m][j]>>], m + 1)
    BY <2>1, <2>2, OneRowMore
  <2>6. Upto(adj, f[m + 1], m + 1)
    BY <2>3, <2>4, <2>5
  <2> QED BY <2>1, <2>6
<1>7. Upto(adj, f[N], N)
  <2> HIDE DEF S
  <2>1. 0 .. N \subseteq S
    BY <1>1, <1>5, <1>6, AllUpTo
  <2>2. N \in S
    BY <1>1, <2>1
  <2> QED BY <2>2 DEF S
<1>8. \A x, y, z : HasEdge(adj, x, y, z) => x < N
  BY <1>1 DEF HasEdge, Vertices
<1> QED BY <1>3, <1>4, <1>7, <1>8 DEF Upto, Lists
-----------------------------------------------------------------------------
(* How the reorder step fills the new graph, entry after entry: a name     *)
(* that no two vertices share puts each edge in its place once.            *)
Graphs == {adj \in [Vertices -> Seq(Entry)] : Graph(adj)}
(* What the reorder step adds for an entry.                                *)
Adds(p, name, x, y, z) ==
  p[1] < p[2].to /\ Same(x, y, name[p[1]], name[p[2].to]) /\ p[2].wt = z
AddsUpto(all, name, g, m) ==
  Graph(g) /\ \A x, y, z : HasEdge(g, x, y, z) <=> \E k \in 1 .. m : Adds(all[k], name, x, y, z)
OneAdded(all, name, g, m) ==
  IF all[m][1] < all[m][2].to
  THEN AddEdge(g, name[all[m][1]], name[all[m][2].to], all[m][2].wt)
  ELSE g
Naming(name) == name \in [Vertices -> Vertices] /\ \A u, v \in Vertices : u # v => name[u] # name[v]

LEMMA TripleIs ==
  ASSUME NEW all \in Triples, NEW k \in 1 .. Len(all)
  PROVE  /\ all[k][1] \in Vertices /\ all[k][2] \in Entry
         /\ all[k][2].to \in Vertices /\ all[k][2].wt \in Weights
         /\ all[k][1] \in Int /\ all[k][2].to \in Int /\ Len(all) \in Nat
         /\ all[k] = <<all[k][1], all[k][2]>>
<1>1. all[k] \in Vertices \X Entry /\ Len(all) \in Nat
  <2> DEFINE X == Vertices \X Entry
  <2>1. all \in Seq(X)
    BY DEF Triples
  <2> HIDE DEF X
  <2>2. all[k] \in X /\ Len(all) \in Nat
    BY <2>1
  <2> QED BY <2>2 DEF X
<1>2. Vertices \subseteq Int
  BY GraphAssumption DEF Vertices
<1>3. all[k][1] \in Vertices /\ all[k][2] \in Entry /\ all[k] = <<all[k][1], all[k][2]>>
  BY <1>1
<1>4. all[k][2].to \in Vertices /\ all[k][2].wt \in Weights
  BY <1>3 DEF Entry
<1> QED BY <1>1, <1>2, <1>3, <1>4

LEMMA AddedOnce ==
  ASSUME NEW all \in Triples, InOrder(all), NEW name, Naming(name), NEW m \in 1 .. Len(all),
         NEW g, AddsUpto(all, name, g, m - 1)
  PROVE  AddsUpto(all, name, OneAdded(all, name, g, m), m)
<1> DEFINE u == all[m][1]
           v == all[m][2].to
           wt == all[m][2].wt
<1>1. u \in Vertices /\ v \in Vertices /\ wt \in Weights /\ u \in Int /\ v \in Int /\ m \in Nat /\ m > 0
  BY TripleIs
<1>2. Graph(g) /\ \A x, y, z : HasEdge(g, x, y, z) <=> \E k \in 1 .. m - 1 : Adds(all[k], name, x, y, z)
  BY DEF AddsUpto
<1>3. 1 .. m = 1 .. m - 1 \cup {m}
  BY <1>1
<1>4. CASE ~(u < v)
  <2>1. OneAdded(all, name, g, m) = g
    BY <1>4 DEF OneAdded
  <2>2. \A x, y, z : ~Adds(all[m], name, x, y, z)
    BY <1>4 DEF Adds
  <2> QED BY <1>2, <1>3, <2>1, <2>2 DEF AddsUpto
<1>5. CASE u < v
  <2> DEFINE new == OneAdded(all, name, g, m)
  <2>1. new = AddEdge(g, name[u], name[v], wt)
    BY <1>5 DEF OneAdded
  <2>2. name[u] \in Vertices /\ name[v] \in Vertices
    BY <1>1 DEF Naming
  <2> HIDE DEF u, v, wt
  <2>3. /\ Graph(new)
        /\ \A x, y, z : HasEdge(new, x, y, z) <=> IF Same(x, y, name[u], name[v]) THEN wt = z ELSE HasEdge(g, x, y, z)
    <3>1. /\ Graph(AddEdge(g, name[u], name[v], wt))
          /\ \A x, y, z : HasEdge(AddEdge(g, name[u], name[v], wt), x, y, z) <=>
               IF Same(x, y, name[u], name[v]) THEN z = wt ELSE HasEdge(g, x, y, z)
      BY ONLY <1>1, <1>2, <2>2, AddEdgeGraph
    <3>2. \A z : z = wt <=> wt = z
      OBVIOUS
    <3> QED BY ONLY <2>1, <3>1, <3>2
  <2> HIDE DEF new
  <2>4. ASSUME NEW x, NEW y, NEW z
        PROVE  HasEdge(new, x, y, z) <=> \E k \in 1 .. m : Adds(all[k], name, x, y, z)
    <3>1. Adds(all[m], name, x, y, z) <=> Same(x, y, name[u], name[v]) /\ wt = z
      BY <1>5 DEF Adds, u, v, wt
    <3>2. CASE ~Same(x, y, name[u], name[v])
      BY <1>2, <1>3, <2>3, <3>1, <3>2
    <3>3. CASE Same(x, y, name[u], name[v])
      <4>1. ASSUME NEW k \in 1 .. m - 1, Adds(all[k], name, x, y, z) PROVE FALSE
        <5>1. k \in 1 .. Len(all) /\ k < m /\ m \in 1 .. Len(all)
          BY <1>1
        <5>2. all[k][1] \in Vertices /\ all[k][2].to \in Vertices
              /\ all[k][1] \in Int /\ all[k][2].to \in Int
          BY <5>1, TripleIs
        <5>3. all[k][1] < all[k][2].to /\ {name[all[k][1]], name[all[k][2].to]} = {name[u], name[v]}
          BY <3>3, <4>1 DEF Adds, Same
        <5>4. \/ name[all[k][1]] = name[u] /\ name[all[k][2].to] = name[v]
              \/ name[all[k][1]] = name[v] /\ name[all[k][2].to] = name[u]
          BY <5>3
        <5>5. (all[k][1] = u /\ all[k][2].to = v) \/ (all[k][1] = v /\ all[k][2].to = u)
          BY <1>1, <5>2, <5>4 DEF Naming
        <5>6. all[k][1] = u /\ all[k][2].to = v
          BY <1>1, <1>5, <5>2, <5>3, <5>5
        <5>7. Later(all[k], all[m])
          BY <5>1 DEF InOrder
        <5> QED BY <1>1, <5>6, <5>7 DEF Later, u, v
      <4>2. (\E k \in 1 .. m : Adds(all[k], name, x, y, z)) <=> Adds(all[m], name, x, y, z)
        BY <1>3, <4>1
      <4> QED BY <2>3, <3>1, <3>3, <4>2
    <3> QED BY <3>2, <3>3
  <2> QED BY <2>3, <2>4 DEF AddsUpto, new
<1> QED BY <1>4, <1>5

LEMMA RenamedIs ==
  ASSUME NEW all \in Triples, InOrder(all), NEW name, Naming(name)
  PROVE  AddsUpto(all, name, Renamed(all, name), Len(all))
<1> DEFINE n == Len(all)
           step == [p \in Graphs \X (1 .. n) |-> OneAdded(all, name, p[1], p[2])]
           Total(at) == at = [i \in 0 .. n |-> IF i = 0 THEN NoEdges
                                               ELSE LET e == all[i]
                                                    IN  IF e[1] < e[2].to
                                                        THEN AddEdge(at[i - 1], name[e[1]], name[e[2].to], e[2].wt)
                                                        ELSE at[i - 1]]
           new == CHOOSE at : Total(at)
<1>1. n \in Nat
  BY DEF Triples
<1>2. NoEdges \in Graphs
  BY NoEdgesGraph DEF Graphs, Graph
<1>3. step \in Maps(n, Graphs)
  <2> SUFFICES ASSUME NEW g \in Graphs, NEW i \in 1 .. n PROVE OneAdded(all, name, g, i) \in Graphs
    BY DEF Maps
  <2>1. Graph(g) /\ all[i][1] \in Vertices /\ all[i][2].to \in Vertices /\ all[i][2].wt \in Weights
    BY TripleIs DEF Graphs
  <2>2. name[all[i][1]] \in Vertices /\ name[all[i][2].to] \in Vertices
    BY <2>1 DEF Naming
  <2>3. Graph(AddEdge(g, name[all[i][1]], name[all[i][2].to], all[i][2].wt))
    BY ONLY <2>1, <2>2, AddEdgeGraph
  <2>4. Graph(OneAdded(all, name, g, i))
    BY <2>1, <2>3 DEF OneAdded
  <2> QED BY <2>4 DEF Graphs, Graph
<1>4. PICK f \in [0 .. n -> Graphs] : f[0] = NoEdges /\ \A j \in 1 .. n : f[j] = step[<<f[j - 1], j>>]
  <2> HIDE DEF step, n
  <2>1. PICK f : Repeats(n, Graphs, NoEdges, step, f)
    BY ONLY <1>1, <1>2, <1>3, Repeated
  <2> QED BY <2>1 DEF Repeats
<1>5. \A j \in 1 .. n : f[j] = OneAdded(all, name, f[j - 1], j)
  <2> TAKE j \in 1 .. n
  <2>1. <<f[j - 1], j>> \in Graphs \X (1 .. n)
    BY <1>1, <1>4
  <2>2. step[<<f[j - 1], j>>] = OneAdded(all, name, f[j - 1], j)
    BY <2>1
  <2> HIDE DEF step
  <2> QED BY <1>4, <2>2
<1> HIDE DEF step
<1>6. Total(f)
  <2> HIDE DEF n
  <2>1. ASSUME NEW i \in 0 .. n
        PROVE  f[i] = IF i = 0 THEN NoEdges
                      ELSE IF all[i][1] < all[i][2].to
                           THEN AddEdge(f[i - 1], name[all[i][1]], name[all[i][2].to], all[i][2].wt)
                           ELSE f[i - 1]
    <3>1. CASE i = 0
      BY <1>4, <3>1
    <3>2. CASE i # 0
      <4>1. i \in 1 .. n
        BY <1>1, <3>2
      <4> QED BY <1>5, <3>2, <4>1 DEF OneAdded
    <3> QED BY <3>1, <3>2
  <2> QED BY <2>1
<1>7. Renamed(all, name) = new[n]
  BY DEF Renamed
<1>8. Total(new)
  <2> HIDE DEF Total
  <2> QED BY <1>6
<1> HIDE DEF n
<1>9. new[0] = NoEdges /\ \A j \in 1 .. n : new[j] = OneAdded(all, name, new[j - 1], j)
  <2>1. 0 \in 0 .. n
    BY <1>1
  <2>2. ASSUME NEW j \in 1 .. n PROVE new[j] = OneAdded(all, name, new[j - 1], j)
    <3>1. j \in 0 .. n /\ j # 0
      BY <1>1
    <3> HIDE DEF new
    <3> QED BY <1>8, <3>1 DEF OneAdded
  <2> HIDE DEF new
  <2> QED BY <1>8, <2>1, <2>2
<1> HIDE DEF Total, new
<1>10. AddsUpto(all, name, new[n], n)
  <2> DEFINE S == {m \in 0 .. n : AddsUpto(all, name, new[m], m)}
  <2>1. 0 \in S
    <3>1. 1 .. 0 = {} /\ 0 \in 0 .. n
      BY <1>1
    <3> QED BY <1>9, <3>1, NoEdgesGraph DEF AddsUpto
  <2>2. ASSUME NEW m \in 0 .. n - 1, m \in S PROVE m + 1 \in S
    <3>1. m + 1 \in 1 .. Len(all) /\ (m + 1) - 1 = m /\ m + 1 \in 0 .. n
      BY <1>1 DEF n
    <3>2. AddsUpto(all, name, new[m], (m + 1) - 1)
      BY <2>2, <3>1
    <3>3. AddsUpto(all, name, OneAdded(all, name, new[m], m + 1), m + 1)
      BY <3>1, <3>2, AddedOnce
    <3>4. new[m + 1] = OneAdded(all, name, new[m], m + 1)
      BY <1>9, <3>1 DEF n
    <3> QED BY <3>1, <3>3, <3>4
  <2> HIDE DEF S
  <2>3. 0 .. n \subseteq S
    BY <1>1, <2>1, <2>2, AllUpTo
  <2>4. n \in S
    BY <1>1, <2>3
  <2> QED BY <2>4 DEF S
<1> QED BY <1>7, <1>10 DEF n
-----------------------------------------------------------------------------
(* The same for the conversion that adds one way.                          *)
PutUpto(all, g, m) ==
  Graph(g) /\ \A x, y, z : HasEdge(g, x, y, z) <=> \E k \in 1 .. m : IsEdge(all[k], x, y, z)
OnePut(all, g, m) == [g EXCEPT ![all[m][1]] = Insert(@, all[m][2].to, all[m][2].wt)]

LEMMA PutOnce ==
  ASSUME NEW all \in Triples, InOrder(all), NEW m \in 1 .. Len(all), NEW g, PutUpto(all, g, m - 1)
  PROVE  PutUpto(all, OnePut(all, g, m), m)
<1> DEFINE u == all[m][1]
           v == all[m][2].to
           wt == all[m][2].wt
           new == OnePut(all, g, m)
<1>1. u \in Vertices /\ v \in Vertices /\ wt \in Weights /\ u \in Int /\ v \in Int /\ m \in Nat /\ m > 0
  BY TripleIs
<1>2. Graph(g) /\ \A x, y, z : HasEdge(g, x, y, z) <=> \E k \in 1 .. m - 1 : IsEdge(all[k], x, y, z)
  BY DEF PutUpto
<1>3. 1 .. m = 1 .. m - 1 \cup {m}
  BY <1>1
<1>4. new = [g EXCEPT ![u] = Insert(@, v, wt)]
  BY DEF OnePut
<1>5. \A x, y, z : IsEdge(all[m], x, y, z) <=> x = u /\ y = v /\ z = wt
  BY DEF IsEdge
<1>8. ASSUME NEW k \in 1 .. m - 1, NEW z PROVE ~IsEdge(all[k], u, v, z)
  <2>1. k \in 1 .. Len(all) /\ k < m /\ m \in 1 .. Len(all)
    BY <1>1, TripleIs
  <2>2. Later(all[k], all[m])
    BY <2>1 DEF InOrder
  <2> QED BY <1>1, <2>2 DEF Later, IsEdge
<1> HIDE DEF u, v, wt, new
<1>6. /\ Graph(new)
      /\ \A x, y, z : HasEdge(new, x, y, z) <=> IF x = u /\ y = v THEN z = wt ELSE HasEdge(g, x, y, z)
  BY ONLY <1>1, <1>2, <1>4, InsertGraph
<1>7. ASSUME NEW x, NEW y, NEW z PROVE HasEdge(new, x, y, z) <=> \E k \in 1 .. m : IsEdge(all[k], x, y, z)
  <2>1. CASE x = u /\ y = v
    BY <1>3, <1>5, <1>6, <1>8, <2>1
  <2>2. CASE ~(x = u /\ y = v)
    BY <1>2, <1>3, <1>5, <1>6, <2>2
  <2> QED BY <2>1, <2>2
<1> QED BY <1>6, <1>7 DEF PutUpto, new

LEMMA DirectedIs ==
  ASSUME NEW all \in Triples, InOrder(all)
  PROVE  PutUpto(all, Directed(all), Len(all))
<1> DEFINE n == Len(all)
           step == [p \in Graphs \X (1 .. n) |-> OnePut(all, p[1], p[2])]
           Total(at) == at = [i \in 0 .. n |->
                                IF i = 0 THEN NoEdges
                                ELSE [at[i - 1] EXCEPT ![all[i][1]] = Insert(@, all[i][2].to, all[i][2].wt)]]
           new == CHOOSE at : Total(at)
<1>1. n \in Nat
  BY DEF Triples
<1>2. NoEdges \in Graphs
  BY NoEdgesGraph DEF Graphs, Graph
<1>3. step \in Maps(n, Graphs)
  <2> SUFFICES ASSUME NEW g \in Graphs, NEW i \in 1 .. n PROVE OnePut(all, g, i) \in Graphs
    BY DEF Maps
  <2>1. Graph(g) /\ all[i][1] \in Vertices /\ all[i][2].to \in Vertices /\ all[i][2].wt \in Weights
    BY TripleIs DEF Graphs
  <2>2. Graph(OnePut(all, g, i))
    BY ONLY <2>1, InsertGraph DEF OnePut
  <2> QED BY <2>2 DEF Graphs, Graph
<1>4. PICK f \in [0 .. n -> Graphs] : f[0] = NoEdges /\ \A j \in 1 .. n : f[j] = step[<<f[j - 1], j>>]
  <2> HIDE DEF step, n
  <2>1. PICK f : Repeats(n, Graphs, NoEdges, step, f)
    BY ONLY <1>1, <1>2, <1>3, Repeated
  <2> QED BY <2>1 DEF Repeats
<1>5. \A j \in 1 .. n : f[j] = OnePut(all, f[j - 1], j)
  <2> TAKE j \in 1 .. n
  <2>1. <<f[j - 1], j>> \in Graphs \X (1 .. n)
    BY <1>1, <1>4
  <2>2. step[<<f[j - 1], j>>] = OnePut(all, f[j - 1], j)
    BY <2>1
  <2> HIDE DEF step
  <2> QED BY <1>4, <2>2
<1> HIDE DEF step
<1>6. Total(f)
  <2> HIDE DEF n
  <2>1. ASSUME NEW i \in 0 .. n
        PROVE  f[i] = IF i = 0 THEN NoEdges
                      ELSE [f[i - 1] EXCEPT ![all[i][1]] = Insert(@, all[i][2].to, all[i][2].wt)]
    <3>1. CASE i = 0
      BY <1>4, <3>1
    <3>2. CASE i # 0
      <4>1. i \in 1 .. n
        BY <1>1, <3>2
      <4> QED BY <1>5, <3>2, <4>1 DEF OnePut
    <3> QED BY <3>1, <3>2
  <2> QED BY <2>1
<1>7. Directed(all) = new[n]
  BY DEF Directed
<1>8. Total(new)
  <2> HIDE DEF Total
  <2> QED BY <1>6
<1> HIDE DEF n
<1>9. new[0] = NoEdges /\ \A j \in 1 .. n : new[j] = OnePut(all, new[j - 1], j)
  <2>1. 0 \in 0 .. n
    BY <1>1
  <2>2. ASSUME NEW j \in 1 .. n PROVE new[j] = OnePut(all, new[j - 1], j)
    <3>1. j \in 0 .. n /\ j # 0
      BY <1>1
    <3> HIDE DEF new
    <3> QED BY <1>8, <3>1 DEF OnePut
  <2> HIDE DEF new
  <2> QED BY <1>8, <2>1, <2>2
<1> HIDE DEF Total, new
<1>10. PutUpto(all, new[n], n)
  <2> DEFINE S == {m \in 0 .. n : PutUpto(all, new[m], m)}
  <2>1. 0 \in S
    <3>1. 1 .. 0 = {} /\ 0 \in 0 .. n
      BY <1>1
    <3> QED BY <1>9, <3>1, NoEdgesGraph DEF PutUpto
  <2>2. ASSUME NEW m \in 0 .. n - 1, m \in S PROVE m + 1 \in S
    <3>1. m + 1 \in 1 .. Len(all) /\ (m + 1) - 1 = m /\ m + 1 \in 0 .. n
      BY <1>1 DEF n
    <3>2. PutUpto(all, new[m], (m + 1) - 1)
      BY <2>2, <3>1
    <3>3. PutUpto(all, OnePut(all, new[m], m + 1), m + 1)
      BY <3>1, <3>2, PutOnce
    <3>4. new[m + 1] = OnePut(all, new[m], m + 1)
      BY <1>9, <3>1 DEF n
    <3> QED BY <3>1, <3>3, <3>4
  <2> HIDE DEF S
  <2>3. 0 .. n \subseteq S
    BY <1>1, <2>1, <2>2, AllUpTo
  <2>4. n \in S
    BY <1>1, <2>3
  <2> QED BY <2>4 DEF S
<1> QED BY <1>7, <1>10 DEF n
-----------------------------------------------------------------------------
LEMMA VerticesFinite ==
  IsFiniteSet(Vertices) /\ Cardinality(Vertices) = N /\ Vertices \subseteq Int /\ N \in Nat /\ N > 0
<1>1. N \in Nat /\ N > 0 /\ 0 \in Int /\ N - 1 \in Int
  BY GraphAssumption
<1>2. IsFiniteSet(0 .. N - 1) /\ Cardinality(0 .. N - 1) = N
  BY <1>1, FS_Interval
<1> QED BY <1>1, <1>2 DEF Vertices

(* The names of the vertices: by degree, then by number.                   *)
LEMMA RanksNaming ==
  ASSUME NEW adj, Graph(adj)
  PROVE  Naming(Ranks(adj))
<1> DEFINE d == [v \in Vertices |-> Len(adj[v])]
           Ahead(v) == {x \in Vertices : d[x] > d[v] \/ (d[x] = d[v] /\ x < v)}
           name == Ranks(adj)
<1>1. \A v \in Vertices : d[v] = Len(adj[v]) /\ d[v] \in Nat /\ v \in Int
  BY VerticesFinite DEF Graph
<1> HIDE DEF d
<1>2. name = [v \in Vertices |-> Cardinality(Ahead(v))]
  <2>1. \A v, x \in Vertices : (Len(adj[x]) > Len(adj[v]) \/ (Len(adj[x]) = Len(adj[v]) /\ x < v))
                                 <=> (d[x] > d[v] \/ (d[x] = d[v] /\ x < v))
    BY <1>1
  <2>2. \A v \in Vertices :
          {x \in Vertices : Len(adj[x]) > Len(adj[v]) \/ (Len(adj[x]) = Len(adj[v]) /\ x < v)} = Ahead(v)
    BY <2>1
  <2> HIDE DEF Ahead
  <2> QED BY <2>2 DEF Ranks
<1>3. \A v \in Vertices : Ahead(v) \subseteq Vertices /\ v \notin Ahead(v)
  BY <1>1
<1>4. \A u, v \in Vertices : u # v => u \in Ahead(v) \/ v \in Ahead(u)
  BY <1>1
<1>5. \A u, v \in Vertices : u \in Ahead(v) => Ahead(u) \subseteq Ahead(v)
  <2> SUFFICES ASSUME NEW u \in Vertices, NEW v \in Vertices, u \in Ahead(v), NEW x \in Ahead(u)
               PROVE  x \in Ahead(v)
    OBVIOUS
  <2>1. x \in Vertices /\ d[x] \in Nat /\ d[u] \in Nat /\ d[v] \in Nat /\ x \in Int /\ u \in Int /\ v \in Int
    BY <1>1
  <2> QED BY <2>1
<1> HIDE DEF Ahead, name
<1>6. \A v \in Vertices : IsFiniteSet(Ahead(v)) /\ Cardinality(Ahead(v)) \in Nat
  BY <1>3, VerticesFinite, FS_Subset, FS_CardinalityType
<1>7. ASSUME NEW v \in Vertices PROVE name[v] \in Vertices
  <2>1. Cardinality(Ahead(v)) <= N /\ (Cardinality(Vertices) = Cardinality(Ahead(v)) => Vertices = Ahead(v))
    BY <1>3, VerticesFinite, FS_Subset
  <2>2. Cardinality(Ahead(v)) # N
    BY <1>3, <2>1, VerticesFinite
  <2>3. Cardinality(Ahead(v)) \in 0 .. N - 1
    BY <1>6, <2>1, <2>2, VerticesFinite
  <2> QED BY <1>2, <2>3 DEF Vertices
<1>8. ASSUME NEW u \in Vertices, NEW v \in Vertices, u \in Ahead(v) PROVE name[u] # name[v]
  <2>1. Ahead(u) \subseteq Ahead(v) /\ Ahead(u) # Ahead(v)
    BY <1>3, <1>5, <1>8
  <2>2. Cardinality(Ahead(u)) # Cardinality(Ahead(v))
    BY <1>6, <2>1, FS_Subset
  <2> QED BY <1>2, <2>2
<1>9. name \in [Vertices -> Vertices]
  BY <1>2, <1>7
<1>10. \A u, v \in Vertices : u # v => name[u] # name[v]
  BY <1>4, <1>8
<1> QED BY <1>9, <1>10 DEF Naming, name

LEMMA RowShort ==
  ASSUME NEW r, Row(r)
  PROVE  Len(r) \in 0 .. N
<1> DEFINE n == Len(r)
           S == {i \in 0 .. n : i = 0 \/ r[i].to >= i - 1}
<1>1. n \in Nat
  BY DEF Row
<1>2. \A i \in 1 .. n : r[i].to \in Vertices /\ r[i].to \in Int
  BY EntryIs
<1>3. 0 \in S
  BY <1>1
<1>4. ASSUME NEW i \in 0 .. n - 1, i \in S PROVE i + 1 \in S
  <2>1. i + 1 \in 1 .. n /\ r[i + 1].to \in Int /\ r[i + 1].to >= 0 /\ i + 1 \in 0 .. n
    BY <1>1, <1>2 DEF Vertices
  <2>2. CASE i = 0
    BY <2>1, <2>2
  <2>3. CASE i # 0
    <3>1. i \in 1 .. n /\ r[i].to \in Int /\ r[i].to >= i - 1 /\ r[i].to < r[i + 1].to
      <4>1. i \in 1 .. n /\ i < i + 1
        BY <1>1, <2>3
      <4> QED BY <1>2, <1>4, <2>1, <2>3, <4>1 DEF Row
    <3>2. r[i + 1].to >= (i + 1) - 1
      BY <2>1, <3>1
    <3> QED BY <2>1, <3>2
  <2> QED BY <2>2, <2>3
<1>5. 0 .. n \subseteq S
  <2> HIDE DEF S, n
  <2> QED BY <1>1, <1>3, <1>4, AllUpTo
<1>6. CASE n = 0
  BY <1>6, VerticesFinite
<1>7. CASE n # 0
  <2>1. n \in 1 .. n /\ r[n].to >= n - 1
    BY <1>1, <1>5, <1>7
  <2>2. r[n].to <= N - 1 /\ r[n].to \in Int
    BY <1>2, <2>1, VerticesFinite DEF Vertices
  <2>3. n <= N
    BY <1>1, <2>1, <2>2, VerticesFinite
  <2> QED BY <1>1, <2>3, VerticesFinite
<1> QED BY <1>6, <1>7

LEMMA EntriesAre ==
  ASSUME NEW adj, Graph(adj)
  PROVE  /\ \A e \in Entries(adj) : \E x \in Vertices, y \in Vertices, z \in Weights :
                                       e = <<x, y, z>> /\ HasEdge(adj, x, y, z)
         /\ \A x, y, z : HasEdge(adj, x, y, z) => <<x, y, z>> \in Entries(adj)
<1>1. \A v \in Vertices : DOMAIN adj[v] = 1 .. Len(adj[v]) /\ Row(adj[v]) /\ 1 .. Len(adj[v]) \subseteq 1 .. N
  <2> TAKE v \in Vertices
  <2>1. Row(adj[v]) /\ adj[v] \in Seq(Entry)
    BY DEF Graph
  <2>2. DOMAIN adj[v] = 1 .. Len(adj[v])
    BY <2>1
  <2>3. Len(adj[v]) \in 0 .. N
    BY <2>1, RowShort
  <2>4. 1 .. Len(adj[v]) \subseteq 1 .. N
    BY <2>3, VerticesFinite
  <2> QED BY <2>1, <2>2, <2>4
<1>2. ASSUME NEW p \in Vertices \X (1 .. N), p[2] \in DOMAIN adj[p[1]]
      PROVE  /\ HasEdge(adj, p[1], adj[p[1]][p[2]].to, adj[p[1]][p[2]].wt)
             /\ adj[p[1]][p[2]].to \in Vertices /\ adj[p[1]][p[2]].wt \in Weights /\ p[1] \in Vertices
  <2>1. p[1] \in Vertices /\ p[2] \in 1 .. Len(adj[p[1]]) /\ Row(adj[p[1]])
    BY <1>1, <1>2
  <2> QED BY <2>1, EntryIs DEF HasEdge, InRow
<1>3. ASSUME NEW x, NEW y, NEW z, HasEdge(adj, x, y, z)
      PROVE  \E p \in Vertices \X (1 .. N) : /\ p[2] \in DOMAIN adj[p[1]]
                                             /\ <<x, y, z>> = <<p[1], adj[p[1]][p[2]].to, adj[p[1]][p[2]].wt>>
  <2>1. PICK i \in 1 .. Len(adj[x]) : x \in Vertices /\ adj[x][i].to = y /\ adj[x][i].wt = z
    BY <1>3 DEF HasEdge, InRow
  <2>2. i \in 1 .. N /\ i \in DOMAIN adj[x]
    BY <1>1, <2>1
  <2>3. <<x, i>> \in Vertices \X (1 .. N) /\ <<x, i>>[1] = x /\ <<x, i>>[2] = i
    BY <2>1, <2>2
  <2> QED BY <2>1, <2>2, <2>3
<1>4. \A e \in Entries(adj) : \E x \in Vertices, y \in Vertices, z \in Weights : e = <<x, y, z>> /\ HasEdge(adj, x, y, z)
  <2> TAKE e \in Entries(adj)
  <2>1. PICK p \in Vertices \X (1 .. N) :
          p[2] \in DOMAIN adj[p[1]] /\ e = <<p[1], adj[p[1]][p[2]].to, adj[p[1]][p[2]].wt>>
    BY DEF Entries
  <2> QED BY <1>2, <2>1
<1>5. \A x, y, z : HasEdge(adj, x, y, z) => <<x, y, z>> \in Entries(adj)
  BY <1>3 DEF Entries
<1> QED BY <1>4, <1>5
-----------------------------------------------------------------------------
(* The arrays of toCSR for a graph of m directed edges.                    *)
Arrays(m, e, s, w, st, adj) ==
  /\ m \in Nat
  /\ e \in [0 .. m - 1 -> Vertices] /\ s \in [0 .. m - 1 -> Vertices] /\ w \in [0 .. m - 1 -> Weights]
  /\ \A i, j \in 0 .. m - 1 : i < j => s[i] < s[j] \/ (s[i] = s[j] /\ e[i] < e[j])
  /\ \A x, y, z : HasEdge(adj, x, y, z) <=> \E i \in 0 .. m - 1 : s[i] = x /\ e[i] = y /\ w[i] = z
  /\ st \in [0 .. N -> 0 .. m]
  /\ \A v \in 0 .. N, i \in 0 .. m - 1 : i < st[v] <=> s[i] < v
IsReverse(e, s, i, j) == s[j] = e[i] /\ e[j] = s[i]

(* The entries in the order of the rows fill the arrays.                   *)
LEMMA FilledArrays ==
  ASSUME NEW adj, NEW all, Lists(adj, all)
  PROVE  Arrays(Len(all), [i \in 0 .. Len(all) - 1 |-> all[i + 1][2].to],
                [i \in 0 .. Len(all) - 1 |-> all[i + 1][1]],
                [i \in 0 .. Len(all) - 1 |-> all[i + 1][2].wt],
                [v \in 0 .. N |-> Cardinality({i \in DOMAIN all : all[i][1] \in Before(v)})], adj)
<1> DEFINE m == Len(all)
           e == [i \in 0 .. m - 1 |-> all[i + 1][2].to]
           s == [i \in 0 .. m - 1 |-> all[i + 1][1]]
           w == [i \in 0 .. m - 1 |-> all[i + 1][2].wt]
           First(v) == {i \in DOMAIN all : all[i][1] \in Before(v)}
           st == [v \in 0 .. N |-> Cardinality(First(v))]
<1>1. all \in Triples /\ InOrder(all) /\ m \in Nat /\ DOMAIN all = 1 .. m
  BY DEF Lists, Triples
<1>2. \A k \in 1 .. m : /\ all[k][1] \in Vertices /\ all[k][1] \in Int /\ all[k][2].to \in Vertices
                        /\ all[k][2].wt \in Weights
  BY <1>1, TripleIs
<1>3. \A k, l \in 1 .. m : k < l => all[k][1] < all[l][1] \/ (all[k][1] = all[l][1] /\ all[k][2].to < all[l][2].to)
  BY <1>1 DEF InOrder, Later
<1>4. \A x, y, z : HasEdge(adj, x, y, z) <=> \E k \in 1 .. m : all[k][1] = x /\ all[k][2].to = y /\ all[k][2].wt = z
  BY DEF Lists, IsEdge
<1> HIDE DEF m
<1>5. \A i \in 0 .. m - 1 : i + 1 \in 1 .. m /\ s[i] = all[i + 1][1] /\ e[i] = all[i + 1][2].to
                            /\ w[i] = all[i + 1][2].wt
  BY <1>1
<1>6. e \in [0 .. m - 1 -> Vertices] /\ s \in [0 .. m - 1 -> Vertices] /\ w \in [0 .. m - 1 -> Weights]
  BY <1>1, <1>2
<1> HIDE DEF e, s, w
<1>7. \A i, j \in 0 .. m - 1 : i < j => s[i] < s[j] \/ (s[i] = s[j] /\ e[i] < e[j])
  <2> SUFFICES ASSUME NEW i \in 0 .. m - 1, NEW j \in 0 .. m - 1, i < j
               PROVE  s[i] < s[j] \/ (s[i] = s[j] /\ e[i] < e[j])
    OBVIOUS
  <2>1. i + 1 < j + 1
    BY <1>1
  <2> QED BY <1>3, <1>5, <2>1
<1>8. ASSUME NEW x, NEW y, NEW z
      PROVE  HasEdge(adj, x, y, z) <=> \E i \in 0 .. m - 1 : s[i] = x /\ e[i] = y /\ w[i] = z
  <2>1. ASSUME NEW k \in 1 .. m PROVE k - 1 \in 0 .. m - 1 /\ (k - 1) + 1 = k
    BY <1>1
  <2>2. ASSUME NEW k \in 1 .. m, all[k][1] = x, all[k][2].to = y, all[k][2].wt = z
        PROVE  \E i \in 0 .. m - 1 : s[i] = x /\ e[i] = y /\ w[i] = z
    BY <1>5, <2>1, <2>2
  <2> QED BY <1>4, <1>5, <2>2
<1>9. ASSUME NEW v \in 0 .. N
      PROVE  Cardinality(First(v)) \in 0 .. m /\ \A i \in 0 .. m - 1 : i < Cardinality(First(v)) <=> s[i] < v
  <2>1. \A k \in 1 .. m : k \in First(v) <=> all[k][1] < v
    BY <1>1, <1>2 DEF Before
  <2>2. First(v) \in SUBSET (1 .. m)
    BY <1>1
  <2>3. \A k \in 1 .. m, l \in First(v) : k < l => k \in First(v)
    <3> SUFFICES ASSUME NEW k \in 1 .. m, NEW l \in First(v), k < l PROVE k \in First(v)
      OBVIOUS
    <3>1. l \in 1 .. m /\ all[l][1] < v /\ all[l][1] \in Int /\ all[k][1] \in Int /\ v \in Int
      BY <1>2, <2>1, <2>2, VerticesFinite
    <3>2. all[k][1] <= all[l][1]
      BY <1>3, <3>1
    <3>3. all[k][1] < v
      BY <3>1, <3>2
    <3> QED BY <2>1, <3>3
  <2> HIDE DEF First
  <2>4. Cardinality(First(v)) \in 0 .. m /\ First(v) = 1 .. Cardinality(First(v))
    BY <1>1, <2>2, <2>3, Down
  <2>5. ASSUME NEW i \in 0 .. m - 1 PROVE i < Cardinality(First(v)) <=> s[i] < v
    <3>1. i + 1 \in 1 .. m /\ s[i] = all[i + 1][1]
      BY <1>5
    <3>2. i + 1 \in First(v) <=> s[i] < v
      BY <2>1, <3>1
    <3>3. i + 1 \in First(v) <=> i < Cardinality(First(v))
      BY <1>1, <2>4
    <3> QED BY <3>2, <3>3
  <2> QED BY <2>4, <2>5
<1> HIDE DEF First
<1>10. st \in [0 .. N -> 0 .. m] /\ \A v \in 0 .. N, i \in 0 .. m - 1 : i < st[v] <=> s[i] < v
  BY <1>9
<1> HIDE DEF st
<1>11. Arrays(m, e, s, w, st, adj)
  BY <1>1, <1>6, <1>7, <1>8, <1>10 DEF Arrays
<1> QED BY <1>11 DEF m, e, s, w, st, First

(* What the loop of toCSR has linked so far: the first Len(iv) edges; the  *)
(* pointer of a vertex is behind the edges whose reverse is linked.        *)
Linked(m, e, s, ei, iv, pt) ==
  /\ iv \in Seq(0 .. m - 1) /\ Len(iv) <= m
  /\ \A i \in 0 .. Len(iv) - 1 : IsReverse(e, s, i, iv[i + 1])
  /\ DOMAIN ei = {<<s[i], e[i]>> : i \in 0 .. Len(iv) - 1}
  /\ \A i \in 0 .. Len(iv) - 1 : ei[<<s[i], e[i]>>] = i
  /\ pt \in [Vertices -> 0 .. m]
  /\ \A x \in Vertices, k \in 0 .. m - 1 :
       k < pt[x] <=> s[k] < x \/ (s[k] = x /\ \E l \in 0 .. Len(iv) - 1 : IsReverse(e, s, l, k))

LEMMA ArrayFacts ==
  ASSUME NEW m, NEW e, NEW s, NEW w, NEW st, NEW adj, Arrays(m, e, s, w, st, adj)
  PROVE  /\ m \in Nat
         /\ \A i \in 0 .. m - 1 : e[i] \in Vertices /\ s[i] \in Vertices /\ w[i] \in Weights
                                  /\ e[i] \in Int /\ s[i] \in Int
         /\ \A i, j \in 0 .. m - 1 : i < j => s[i] < s[j] \/ (s[i] = s[j] /\ e[i] < e[j])
         /\ \A i, j \in 0 .. m - 1 : s[i] = s[j] /\ e[i] = e[j] => i = j
<1>1. m \in Nat /\ \A i, j \in 0 .. m - 1 : i < j => s[i] < s[j] \/ (s[i] = s[j] /\ e[i] < e[j])
  BY DEF Arrays
<1>2. \A i \in 0 .. m - 1 : e[i] \in Vertices /\ s[i] \in Vertices /\ w[i] \in Weights
                            /\ e[i] \in Int /\ s[i] \in Int
  BY VerticesFinite DEF Arrays
<1>3. \A i, j \in 0 .. m - 1 : s[i] = s[j] /\ e[i] = e[j] => i = j
  <2> SUFFICES ASSUME NEW i \in 0 .. m - 1, NEW j \in 0 .. m - 1, s[i] = s[j], e[i] = e[j] PROVE i = j
    OBVIOUS
  <2>1. ~(i < j) /\ ~(j < i)
    BY <1>1, <1>2
  <2> QED BY <1>1, <2>1
<1> QED BY <1>1, <1>2, <1>3

(* Both ends of an edge hold it.                                           *)
Symmetric(adj) == \A x, y, z : HasEdge(adj, x, y, z) => HasEdge(adj, y, x, z)

(* The pointer is at the reverse of the next edge: an edge of its target   *)
(* before that one would have a reverse that comes before the next edge,   *)
(* and so be linked.                                                       *)
LEMMA PointsAtReverse ==
  ASSUME NEW m, NEW e, NEW s, NEW w, NEW st, NEW adj, Arrays(m, e, s, w, st, adj), Symmetric(adj),
         NEW ei, NEW iv, NEW pt, Linked(m, e, s, ei, iv, pt), NEW i \in 0 .. m - 1, i = Len(iv)
  PROVE  pt[e[i]] \in 0 .. m - 1 /\ IsReverse(e, s, i, pt[e[i]])
<1> DEFINE p == pt[e[i]]
<1>1. /\ m \in Nat
      /\ \A j \in 0 .. m - 1 : e[j] \in Vertices /\ s[j] \in Vertices /\ e[j] \in Int /\ s[j] \in Int
      /\ \A j, k \in 0 .. m - 1 : j < k => s[j] < s[k] \/ (s[j] = s[k] /\ e[j] < e[k])
      /\ \A j, k \in 0 .. m - 1 : s[j] = s[k] /\ e[j] = e[k] => j = k
  BY ArrayFacts
<1>2. ASSUME NEW j \in 0 .. m - 1 PROVE \E k \in 0 .. m - 1 : IsReverse(e, s, j, k)
  <2>1. HasEdge(adj, s[j], e[j], w[j])
    BY DEF Arrays
  <2>2. HasEdge(adj, e[j], s[j], w[j])
    BY <2>1 DEF Symmetric
  <2> QED BY <2>2 DEF Arrays, IsReverse
<1>3. PICK k \in 0 .. m - 1 : s[k] = e[i] /\ e[k] = s[i]
  BY <1>2 DEF IsReverse
<1>4. p \in 0 .. m /\ i \in Nat
  BY <1>1 DEF Linked
<1>5. \A j \in 0 .. m - 1 :
        j < p <=> s[j] < e[i] \/ (s[j] = e[i] /\ \E l \in 0 .. i - 1 : IsReverse(e, s, l, j))
  BY <1>1 DEF Linked
<1> HIDE DEF p
<1>6. ~(k < p)
  <2> SUFFICES ASSUME k < p PROVE FALSE
    OBVIOUS
  <2>1. ~(s[k] < e[i])
    BY <1>1, <1>3
  <2>2. PICK l \in 0 .. i - 1 : IsReverse(e, s, l, k)
    BY <1>5, <2>1
  <2>3. l \in 0 .. m - 1 /\ e[l] = e[i] /\ s[l] = s[i] /\ l # i
    BY <1>1, <1>3, <2>2 DEF IsReverse
  <2> QED BY <1>1, <2>3
<1>7. ~(p < k)
  <2> SUFFICES ASSUME p < k PROVE FALSE
    OBVIOUS
  <2>1. p \in 0 .. m - 1 /\ ~(p < p)
    BY <1>1, <1>4
  <2>2. ~(s[p] < e[i]) /\ ~(s[p] = e[i] /\ \E l \in 0 .. i - 1 : IsReverse(e, s, l, p))
    BY <1>5, <2>1
  <2>3. s[p] = e[i] /\ e[p] < s[i]
    BY <1>1, <1>3, <2>1, <2>2
  <2>4. PICK l \in 0 .. m - 1 : IsReverse(e, s, p, l)
    BY <1>2, <2>1
  <2>5. s[l] = e[p] /\ e[l] = s[p]
    BY <2>4 DEF IsReverse
  <2>6. l < i
    <3>1. s[l] < s[i] /\ s[l] \in Int /\ s[i] \in Int /\ e[l] \in Int
      BY <1>1, <2>3, <2>5
    <3>2. ~(i < l) /\ l # i
      BY <1>1, <3>1
    <3> QED BY <1>1, <3>2
  <2>7. l \in 0 .. i - 1 /\ IsReverse(e, s, l, p)
    BY <1>1, <2>5, <2>6 DEF IsReverse
  <2> QED BY <2>2, <2>3, <2>7
<1>8. p = k
  BY <1>1, <1>4, <1>6, <1>7
<1> QED BY <1>3, <1>8 DEF p, IsReverse

WithId(e, s, ei, i) ==
  [p \in DOMAIN ei \cup {<<s[i], e[i]>>} |-> IF p = <<s[i], e[i]>> THEN i ELSE ei[p]]
Onwards(pt, x) == [pt EXCEPT ![x] = @ + 1]
LEMMA OneLinked ==
  ASSUME NEW m, NEW e, NEW s, NEW w, NEW st, NEW adj, Arrays(m, e, s, w, st, adj), Symmetric(adj),
         NEW ei, NEW iv, NEW pt, Linked(m, e, s, ei, iv, pt), NEW i \in 0 .. m - 1, i = Len(iv)
  PROVE  Linked(m, e, s, WithId(e, s, ei, i), Append(iv, pt[e[i]]), Onwards(pt, e[i]))
<1> DEFINE k == pt[e[i]]
           jv == Append(iv, k)
           pp == [pt EXCEPT ![e[i]] = @ + 1]
           ej == [p \in DOMAIN ei \cup {<<s[i], e[i]>>} |-> IF p = <<s[i], e[i]>> THEN i ELSE ei[p]]
<1>1. /\ m \in Nat
      /\ \A j \in 0 .. m - 1 : e[j] \in Vertices /\ s[j] \in Vertices /\ e[j] \in Int /\ s[j] \in Int
      /\ \A a, b \in 0 .. m - 1 : a < b => s[a] < s[b] \/ (s[a] = s[b] /\ e[a] < e[b])
      /\ \A a, b \in 0 .. m - 1 : s[a] = s[b] /\ e[a] = e[b] => a = b
  BY ArrayFacts
<1>2. k \in 0 .. m - 1 /\ IsReverse(e, s, i, k)
  BY PointsAtReverse
<1>3. s[k] = e[i] /\ e[k] = s[i]
  BY <1>2 DEF IsReverse
<1>4. /\ iv \in Seq(0 .. m - 1) /\ i = Len(iv)
      /\ \A j \in 0 .. i - 1 : IsReverse(e, s, j, iv[j + 1])
      /\ DOMAIN ei = {<<s[j], e[j]>> : j \in 0 .. i - 1}
      /\ \A j \in 0 .. i - 1 : ei[<<s[j], e[j]>>] = j
      /\ pt \in [Vertices -> 0 .. m]
      /\ \A x \in Vertices, j \in 0 .. m - 1 :
           j < pt[x] <=> s[j] < x \/ (s[j] = x /\ \E l \in 0 .. i - 1 : IsReverse(e, s, l, j))
  BY DEF Linked
<1>5. i \in Nat /\ 0 .. i = 0 .. i - 1 \cup {i} /\ (i + 1) - 1 = i /\ i + 1 <= m
  BY <1>1
<1>6. pt[e[i]] = k
  OBVIOUS
<1> HIDE DEF k
<1>7. jv \in Seq(0 .. m - 1) /\ Len(jv) = i + 1 /\ jv[i + 1] = k /\ \A j \in 0 .. i - 1 : jv[j + 1] = iv[j + 1]
  BY <1>2, <1>4, <1>5
<1> HIDE DEF jv
<1>8. \A j \in 0 .. i : IsReverse(e, s, j, jv[j + 1])
  BY <1>2, <1>4, <1>5, <1>7
<1>9. DOMAIN ej = {<<s[j], e[j]>> : j \in 0 .. i}
  <2>1. DOMAIN ej = DOMAIN ei \cup {<<s[i], e[i]>>}
    OBVIOUS
  <2> HIDE DEF ej
  <2> QED BY <1>4, <1>5, <2>1
<1>10. ASSUME NEW j \in 0 .. i PROVE ej[<<s[j], e[j]>>] = j
  <2>1. CASE j = i
    <3>1. <<s[j], e[j]>> = <<s[i], e[i]>>
      BY <2>1
    <3> QED BY <2>1, <3>1
  <2>2. CASE j # i
    <3>1. j \in 0 .. i - 1 /\ j \in 0 .. m - 1
      BY <1>1, <1>5, <2>2
    <3>2. <<s[j], e[j]>> # <<s[i], e[i]>>
      BY <1>1, <2>2, <3>1
    <3>3. <<s[j], e[j]>> \in DOMAIN ei
      BY <1>4, <3>1
    <3> QED BY <1>4, <3>1, <3>2, <3>3
  <2> QED BY <2>1, <2>2
<1> HIDE DEF ej
<1>11. pp \in [Vertices -> 0 .. m] /\ \A x \in Vertices : pp[x] = IF x = e[i] THEN k + 1 ELSE pt[x]
  <2>1. k + 1 \in 0 .. m /\ pp = [pt EXCEPT ![e[i]] = k + 1]
    BY <1>1, <1>2, <1>6
  <2> HIDE DEF pp
  <2> QED BY <1>4, <2>1
<1> HIDE DEF pp
<1>12. ASSUME NEW x \in Vertices, NEW j \in 0 .. m - 1
       PROVE  j < pp[x] <=> s[j] < x \/ (s[j] = x /\ \E l \in 0 .. i : IsReverse(e, s, l, j))
  <2>1. (\E l \in 0 .. i : IsReverse(e, s, l, j))
           <=> (\E l \in 0 .. i - 1 : IsReverse(e, s, l, j)) \/ IsReverse(e, s, i, j)
    BY <1>5
  <2>2. j < pt[x] <=> s[j] < x \/ (s[j] = x /\ \E l \in 0 .. i - 1 : IsReverse(e, s, l, j))
    BY <1>4
  <2>3. IsReverse(e, s, i, j) <=> j = k
    BY <1>1, <1>2, <1>3 DEF IsReverse
  <2>4. CASE x # e[i]
    <3>1. s[j] = x => ~IsReverse(e, s, i, j)
      BY <2>4 DEF IsReverse
    <3>2. pp[x] = pt[x]
      BY <1>11, <2>4
    <3> QED BY <2>1, <2>2, <3>1, <3>2
  <2>5. CASE x = e[i]
    <3>1. pp[x] = k + 1 /\ pt[x] = k
      BY <1>6, <1>11, <2>5
    <3>2. j < k + 1 <=> (j < k \/ j = k)
      BY <1>1, <1>2
    <3>3. j = k => s[j] = x
      BY <1>3, <2>5
    <3> QED BY <2>1, <2>2, <2>3, <3>1, <3>2, <3>3
  <2> QED BY <2>4, <2>5
<1>13. Linked(m, e, s, ej, jv, pp)
  BY <1>5, <1>7, <1>8, <1>9, <1>10, <1>11, <1>12 DEF Linked
<1> QED BY <1>13 DEF ej, jv, pp, k, WithId, Onwards

LEMMA NothingLinked ==
  ASSUME NEW m, NEW e, NEW s, NEW w, NEW st, NEW adj, Arrays(m, e, s, w, st, adj),
         NEW pt \in [Vertices -> 0 .. m], \A v \in Vertices : pt[v] = st[v]
  PROVE  Linked(m, e, s, <<>>, <<>>, pt)
<1>1. m \in Nat /\ 0 .. Len(<<>>) - 1 = {} /\ Len(<<>>) = 0
  BY DEF Arrays
<1>2. DOMAIN <<>> = {} /\ <<>> \in Seq(0 .. m - 1)
  OBVIOUS
<1>3. Vertices \subseteq 0 .. N
  BY VerticesFinite DEF Vertices
<1>4. \A x \in Vertices, k \in 0 .. m - 1 : k < pt[x] <=> s[k] < x
  BY <1>3 DEF Arrays
<1> QED BY <1>1, <1>2, <1>4 DEF Linked
-----------------------------------------------------------------------------
(* The file has a line for the two, and the last one has the weight z.     *)
InFile(f, x, y, z) == {x, y} \in DOMAIN f /\ z = f[{x, y}]
LEMMA InFileTurned ==
  ASSUME NEW f, NEW u, NEW v, NEW z, InFile(f, u, v, z)
  PROVE  InFile(f, v, u, z)
<1>1. {v, u} = {u, v}
  OBVIOUS
<1> QED BY <1>1 DEF InFile

(* The graph that was read is the file.                                    *)
AsRead(adj, f) ==
  /\ Graph(adj)
  /\ \A x, y, z : HasEdge(adj, x, y, z) <=>
        x \in Vertices /\ y \in Vertices /\ InFile(f, x, y, z)
(* The renamed graph is the file under the new names, without the loops.   *)
AsNamed(adj, name, f) ==
  /\ Graph(adj) /\ Naming(name)
  /\ \A x, y, z : HasEdge(adj, x, y, z) <=>
        \E u, v \in Vertices : /\ u # v /\ x = name[u] /\ y = name[v]
                               /\ InFile(f, u, v, z)
(* a holds the edges of b.                                                 *)
SameEdges(a, b) == Graph(a) /\ \A x, y, z : HasEdge(a, x, y, z) <=> HasEdge(b, x, y, z)

(* The invariant, by stage.                                                *)
LoadInv ==
  /\ stage \in {"read", "convert", "csr", "link", "done"}
  /\ stage \in {"read", "convert", "csr"} => edge_id = <<>> /\ inv = <<>>
  /\ stage = "read" => AsRead(ADJs, file)
  /\ stage # "read" => AsNamed(ADJs, rank, file)
  /\ stage \in {"csr", "link", "done"} => SameEdges(OUTs, ADJs)
  /\ stage \in {"link", "done"} =>
       \E m : Arrays(m, edges, source, weights, start, OUTs)
                 /\ Linked(m, edges, source, edge_id, inv, pointer)
  /\ stage = "done" => Len(inv) \notin DOMAIN edges

LEMMA FirstRead == AsRead(NoEdges, <<>>)
BY NoEdgesGraph DEF AsRead, InFile

WithLine(f, u, v, wt) ==
  [p \in DOMAIN f \cup {{u, v}} |-> IF p = {u, v} THEN wt ELSE f[p]]
LEMMA ReadOneMore ==
  ASSUME NEW adj, NEW f, AsRead(adj, f), NEW u \in Vertices, NEW v \in Vertices, NEW wt \in Weights
  PROVE  AsRead(AddEdge(adj, u, v, wt), WithLine(f, u, v, wt))
<1> DEFINE g == [p \in DOMAIN f \cup {{u, v}} |-> IF p = {u, v} THEN wt ELSE f[p]]
           new == AddEdge(adj, u, v, wt)
<1>1. /\ Graph(new)
      /\ \A x, y, z : HasEdge(new, x, y, z) <=> IF Same(x, y, u, v) THEN z = wt ELSE HasEdge(adj, x, y, z)
  BY AddEdgeGraph DEF AsRead
<1>2. \A p : p \in DOMAIN g <=> p \in DOMAIN f \/ p = {u, v}
  OBVIOUS
<1>3. \A p \in DOMAIN g : g[p] = IF p = {u, v} THEN wt ELSE f[p]
  OBVIOUS
<1> HIDE DEF g, new
<1>4. ASSUME NEW x, NEW y, NEW z
      PROVE  HasEdge(new, x, y, z) <=>
               x \in Vertices /\ y \in Vertices /\ InFile(g, x, y, z)
  <2>1. CASE Same(x, y, u, v)
    <3>1. {x, y} = {u, v}
      BY <2>1 DEF Same
    <3>2. x \in Vertices /\ y \in Vertices
      BY <3>1
    <3>3. {x, y} \in DOMAIN g /\ g[{x, y}] = wt
      BY <1>2, <1>3, <3>1
    <3> QED BY <1>1, <2>1, <3>2, <3>3 DEF InFile
  <2>2. CASE ~Same(x, y, u, v)
    <3>1. {x, y} # {u, v}
      BY <2>2 DEF Same
    <3>2. HasEdge(new, x, y, z) <=> HasEdge(adj, x, y, z)
      BY <1>1, <2>2
    <3>3. HasEdge(adj, x, y, z) <=> x \in Vertices /\ y \in Vertices /\ InFile(f, x, y, z)
      BY DEF AsRead
    <3>4. InFile(g, x, y, z) <=> InFile(f, x, y, z)
      <4> DEFINE p == {x, y}
      <4>1. p # {u, v}
        BY <3>1
      <4> HIDE DEF p
      <4>2. (p \in DOMAIN g <=> p \in DOMAIN f) /\ (p \in DOMAIN g => g[p] = f[p])
        BY <1>2, <1>3, <4>1
      <4> QED BY <4>2 DEF InFile, p
    <3> QED BY <3>2, <3>3, <3>4
  <2> QED BY <2>1, <2>2
<1> QED BY <1>1, <1>4 DEF AsRead, WithLine, g, new

LEMMA AfterReorder ==
  ASSUME NEW adj, NEW f, AsRead(adj, f)
  PROVE  AsNamed(Renamed(AllEntries(adj), Ranks(adj)), Ranks(adj), f)
<1> DEFINE all == AllEntries(adj)
           name == Ranks(adj)
           new == Renamed(all, name)
<1>1. Graph(adj) /\ Naming(name) /\ Lists(adj, all)
  BY RanksNaming, AllListed DEF AsRead
<1> HIDE DEF all, name
<1>2. AddsUpto(all, name, new, Len(all))
  BY <1>1, RenamedIs DEF Lists
<1> HIDE DEF new
<1>3. Graph(new) /\ \A x, y, z : HasEdge(new, x, y, z) <=> \E k \in 1 .. Len(all) : Adds(all[k], name, x, y, z)
  BY <1>2 DEF AddsUpto
<1>4. ASSUME NEW x, NEW y, NEW z
      PROVE  HasEdge(new, x, y, z) <=>
               \E u, v \in Vertices : u # v /\ x = name[u] /\ y = name[v] /\ InFile(f, u, v, z)
  <2>1. ASSUME HasEdge(new, x, y, z)
        PROVE  \E u, v \in Vertices : u # v /\ x = name[u] /\ y = name[v] /\ InFile(f, u, v, z)
    <3>1. PICK k \in 1 .. Len(all) : Adds(all[k], name, x, y, z)
      BY <1>3, <2>1
    <3> DEFINE a == all[k][1]
               b == all[k][2].to
    <3>2. a < b /\ {x, y} = {name[a], name[b]} /\ all[k][2].wt = z
      BY <3>1 DEF Adds, Same
    <3>3. a \in Vertices /\ b \in Vertices /\ a # b
      <4>1. a \in Vertices /\ b \in Vertices /\ a \in Int /\ b \in Int
        BY <1>1, TripleIs DEF Lists
      <4> QED BY <3>2, <4>1
    <3>4. HasEdge(adj, a, b, z)
      <4>1. IsEdge(all[k], a, b, z)
        BY <3>2 DEF IsEdge
      <4> QED BY <1>1, <4>1 DEF Lists
    <3>5. InFile(f, a, b, z) /\ InFile(f, b, a, z)
      <4>1. InFile(f, a, b, z)
        BY <3>4 DEF AsRead
      <4> QED BY <4>1, InFileTurned
    <3>6. (x = name[a] /\ y = name[b]) \/ (x = name[b] /\ y = name[a])
      BY <3>2
    <3> HIDE DEF a, b
    <3> QED BY <3>3, <3>5, <3>6
  <2>2. ASSUME NEW u \in Vertices, NEW v \in Vertices, u < v,
               InFile(f, u, v, z), Same(x, y, name[u], name[v])
        PROVE  HasEdge(new, x, y, z)
    <3>1. HasEdge(adj, u, v, z)
      BY <2>2 DEF AsRead
    <3>2. PICK k \in 1 .. Len(all) : IsEdge(all[k], u, v, z)
      BY <1>1, <3>1 DEF Lists
    <3>3. Adds(all[k], name, x, y, z)
      BY <2>2, <3>2 DEF Adds, IsEdge
    <3> QED BY <1>3, <3>3
  <2>3. ASSUME NEW u \in Vertices, NEW v \in Vertices, u # v, x = name[u], y = name[v],
               InFile(f, u, v, z)
        PROVE  HasEdge(new, x, y, z)
    <3>1. u \in Int /\ v \in Int
      BY VerticesFinite
    <3>2. CASE u < v
      <4>1. Same(x, y, name[u], name[v])
        BY <2>3 DEF Same
      <4> QED BY <2>2, <2>3, <3>2, <4>1
    <3>3. CASE v < u
      <4>1. Same(x, y, name[v], name[u])
        BY <2>3 DEF Same
      <4>2. InFile(f, v, u, z)
        BY <2>3, InFileTurned
      <4> QED BY <2>2, <3>3, <4>1, <4>2
    <3> QED BY <2>3, <3>1, <3>2, <3>3
  <2> QED BY <2>1, <2>3
<1>5. AsNamed(new, name, f)
  BY <1>1, <1>3, <1>4 DEF AsNamed
<1> QED BY <1>5 DEF new, all, name

LEMMA NamedSymmetric ==
  ASSUME NEW adj, NEW name, NEW f, AsNamed(adj, name, f)
  PROVE  Symmetric(adj)
<1> SUFFICES ASSUME NEW x, NEW y, NEW z, HasEdge(adj, x, y, z) PROVE HasEdge(adj, y, x, z)
  BY DEF Symmetric
<1>1. PICK u \in Vertices, v \in Vertices : u # v /\ x = name[u] /\ y = name[v] /\ InFile(f, u, v, z)
  BY DEF AsNamed
<1>2. InFile(f, v, u, z)
  BY <1>1, InFileTurned
<1> QED BY <1>1, <1>2 DEF AsNamed

LEMMA AfterToLDBC ==
  ASSUME NEW adj, Graph(adj)
  PROVE  SameEdges(Directed(AllEntries(adj)), adj)
<1> DEFINE all == AllEntries(adj)
<1>1. Lists(adj, all)
  BY AllListed
<1> HIDE DEF all
<1>2. PutUpto(all, Directed(all), Len(all))
  BY <1>1, DirectedIs DEF Lists
<1>3. SameEdges(Directed(all), adj)
  BY <1>1, <1>2 DEF PutUpto, Lists, SameEdges
<1> QED BY <1>3 DEF all
-----------------------------------------------------------------------------
(* What Link finds, and that it finds the reverse.                         *)
Ready(m, e, s, w, st, adj, ei, iv, pt) ==
  Arrays(m, e, s, w, st, adj) /\ Symmetric(adj) /\ Linked(m, e, s, ei, iv, pt) /\ Len(iv) \in 0 .. m - 1
LEMMA ReadyLinks ==
  ASSUME NEW m, NEW e, NEW s, NEW w, NEW st, NEW adj, NEW ei, NEW iv, NEW pt,
         Ready(m, e, s, w, st, adj, ei, iv, pt)
  PROVE  /\ pt[e[Len(iv)]] \in 0 .. m - 1 /\ e[pt[e[Len(iv)]]] = s[Len(iv)]
         /\ Linked(m, e, s, WithId(e, s, ei, Len(iv)), Append(iv, pt[e[Len(iv)]]),
                   Onwards(pt, e[Len(iv)]))
<1>1. Arrays(m, e, s, w, st, adj) /\ Symmetric(adj) /\ Linked(m, e, s, ei, iv, pt)
  BY DEF Ready
<1>2. PICK i \in 0 .. m - 1 : i = Len(iv)
  BY DEF Ready
<1>3. pt[e[i]] \in 0 .. m - 1 /\ IsReverse(e, s, i, pt[e[i]])
  BY <1>1, <1>2, PointsAtReverse
<1>4. Linked(m, e, s, WithId(e, s, ei, i), Append(iv, pt[e[i]]), Onwards(pt, e[i]))
  BY <1>1, <1>2, OneLinked
<1> QED BY <1>2, <1>3, <1>4 DEF IsReverse

LEMMA LoadInvInit == LoadInit => LoadInv
BY FirstRead DEF LoadInit, LoadInv

LEMMA LoadInvNext == LoadInv /\ [LoadNext]_graphVars => LoadInv'
<1> SUFFICES ASSUME LoadInv, [LoadNext]_graphVars PROVE LoadInv'
  OBVIOUS
<1>1. CASE ReadLine
  <2>1. PICK u \in Vertices, v \in Vertices, wt \in Weights :
          /\ file' = [p \in DOMAIN file \cup {{u, v}} |-> IF p = {u, v} THEN wt ELSE file[p]]
          /\ ADJs' = AddEdge(ADJs, u, v, wt)
    BY <1>1 DEF ReadLine
  <2>2. stage = "read" /\ stage' = "read" /\ edge_id' = edge_id /\ inv' = inv
    BY <1>1 DEF ReadLine, links
  <2>3. AsRead(ADJs, file)
    BY <2>2 DEF LoadInv
  <2>4. AsRead(AddEdge(ADJs, u, v, wt), WithLine(file, u, v, wt))
    BY <2>3, ReadOneMore
  <2>5. AsRead(ADJs', file')
    BY <2>1, <2>4 DEF WithLine
  <2> QED BY <2>2, <2>5 DEF LoadInv
<1>2. CASE Reorder
  <2>1. /\ stage = "read" /\ stage' = "convert" /\ file' = file /\ rank' = Ranks(ADJs)
        /\ ADJs' = Renamed(AllEntries(ADJs), rank') /\ edge_id' = edge_id /\ inv' = inv
    BY <1>2 DEF Reorder, links
  <2>2. AsRead(ADJs, file)
    BY <2>1 DEF LoadInv
  <2>3. AsNamed(Renamed(AllEntries(ADJs), Ranks(ADJs)), Ranks(ADJs), file)
    BY <2>2, AfterReorder
  <2>4. AsNamed(ADJs', rank', file')
    BY <2>1, <2>3
  <2> QED BY <2>1, <2>4 DEF LoadInv
<1>3. CASE ToLDBC
  <2>1. /\ stage = "convert" /\ stage' = "csr" /\ OUTs' = Directed(AllEntries(ADJs))
        /\ file' = file /\ ADJs' = ADJs /\ rank' = rank /\ edge_id' = edge_id /\ inv' = inv
    BY <1>3 DEF ToLDBC, links
  <2>2. AsNamed(ADJs, rank, file)
    BY <2>1 DEF LoadInv
  <2>3. SameEdges(Directed(AllEntries(ADJs)), ADJs)
    BY <2>2, AfterToLDBC DEF AsNamed
  <2>4. SameEdges(OUTs', ADJs') /\ AsNamed(ADJs', rank', file')
    BY <2>1, <2>2, <2>3
  <2> QED BY <2>1, <2>4 DEF LoadInv
<1>4. CASE ToCSR
  <2> DEFINE all == AllEntries(OUTs)
  <2>1. /\ stage = "csr" /\ stage' = "link"
        /\ file' = file /\ ADJs' = ADJs /\ rank' = rank /\ OUTs' = OUTs /\ edge_id' = edge_id /\ inv' = inv
        /\ start' = [v \in 0 .. N |-> Cardinality({i \in DOMAIN all : all[i][1] \in Before(v)})]
        /\ edges' = [i \in 0 .. Len(all) - 1 |-> all[i + 1][2].to]
        /\ source' = [i \in 0 .. Len(all) - 1 |-> all[i + 1][1]]
        /\ weights' = [i \in 0 .. Len(all) - 1 |-> all[i + 1][2].wt]
        /\ pointer' = [v \in Vertices |-> start'[v]]
    BY <1>4 DEF ToCSR, ldbc
  <2>2. AsNamed(ADJs, rank, file) /\ SameEdges(OUTs, ADJs) /\ edge_id = <<>> /\ inv = <<>>
    BY <2>1 DEF LoadInv
  <2>3. Lists(OUTs, all)
    BY <2>2, AllListed DEF SameEdges
  <2> DEFINE m == Len(all)
             st == [v \in 0 .. N |-> Cardinality({i \in DOMAIN all : all[i][1] \in Before(v)})]
  <2> HIDE DEF all
  <2>4. Arrays(m, [i \in 0 .. Len(all) - 1 |-> all[i + 1][2].to],
                  [i \in 0 .. Len(all) - 1 |-> all[i + 1][1]],
                  [i \in 0 .. Len(all) - 1 |-> all[i + 1][2].wt], st, OUTs)
    BY <2>3, FilledArrays
  <2>5. start' = st
    BY <2>1
  <2> HIDE DEF m, st
  <2>6. Arrays(m, edges', source', weights', start', OUTs')
    BY <2>1, <2>4, <2>5
  <2>7. pointer' \in [Vertices -> 0 .. m] /\ \A v \in Vertices : pointer'[v] = start'[v]
    <3>1. st \in [0 .. N -> 0 .. m]
      BY <2>4 DEF Arrays
    <3>2. Vertices \subseteq 0 .. N
      BY VerticesFinite DEF Vertices
    <3>3. pointer' = [v \in Vertices |-> st[v]]
      BY <2>1, <2>5
    <3> QED BY <2>5, <3>1, <3>2, <3>3
  <2>8. Linked(m, edges', source', <<>>, <<>>, pointer')
    BY <2>6, <2>7, NothingLinked
  <2>9. \E i : Arrays(i, edges', source', weights', start', OUTs')
                 /\ Linked(i, edges', source', edge_id', inv', pointer')
    BY <2>1, <2>2, <2>6, <2>8
  <2>10. AsNamed(ADJs', rank', file') /\ SameEdges(OUTs', ADJs')
    BY <2>1, <2>2
  <2> QED BY <2>1, <2>9, <2>10 DEF LoadInv
<1>5. CASE Link
  <2>1. /\ stage = "link" /\ Len(inv) \in DOMAIN edges
        /\ UNCHANGED <<file, ADJs, rank, OUTs, start, edges, source, weights>>
    BY <1>5 DEF Link, ldbc, csr, Id
  <2>2. AsNamed(ADJs, rank, file) /\ SameEdges(OUTs, ADJs)
    BY <2>1 DEF LoadInv
  <2>3. PICK m : Arrays(m, edges, source, weights, start, OUTs)
                 /\ Linked(m, edges, source, edge_id, inv, pointer)
    BY <2>1 DEF LoadInv
  <2> DEFINE i == Len(inv)
             more == WithId(edges, source, edge_id, i)
  <2>4. Symmetric(OUTs)
    <3>1. Symmetric(ADJs)
      BY <2>2, NamedSymmetric
    <3> QED BY <2>2, <3>1 DEF Symmetric, SameEdges
  <2>5. i \in 0 .. m - 1 /\ DOMAIN edges = 0 .. m - 1
    BY <2>1, <2>3 DEF Arrays
  <2>12. Ready(m, edges, source, weights, start, OUTs, edge_id, inv, pointer)
    BY <2>3, <2>4, <2>5 DEF Ready
  <2>6. pointer[edges[i]] \in 0 .. m - 1 /\ edges[pointer[edges[i]]] = source[i]
    BY <2>12, ReadyLinks
  <2>7. Paired
    BY <2>5, <2>6 DEF Paired, Id
  <2>8. /\ edge_id' = more /\ inv' = Append(inv, pointer[edges[i]])
        /\ pointer' = Onwards(pointer, edges[i]) /\ stage' = "link"
    BY <1>5, <2>1, <2>7 DEF Link, Id, WithId, Onwards
  <2>9. Linked(m, edges, source, more, Append(inv, pointer[edges[i]]), Onwards(pointer, edges[i]))
    BY <2>12, ReadyLinks
  <2> HIDE DEF more, i
  <2>10. Arrays(m, edges', source', weights', start', OUTs')
           /\ Linked(m, edges', source', edge_id', inv', pointer')
    BY <2>1, <2>3, <2>8, <2>9
  <2>11. AsNamed(ADJs', rank', file') /\ SameEdges(OUTs', ADJs')
    BY <2>1, <2>2
  <2> QED BY <2>8, <2>10, <2>11 DEF LoadInv
<1>6. CASE Finish
  <2>1. /\ stage = "link" /\ stage' = "done" /\ Len(inv) \notin DOMAIN edges
        /\ UNCHANGED <<file, ADJs, rank, OUTs, edges, source, weights, start, edge_id, inv, pointer>>
    BY <1>6 DEF Finish, ldbc, csr, links, Id
  <2> QED BY <2>1 DEF LoadInv
<1>7. CASE Done
  BY <1>7 DEF Done, LoadInv, graphVars, ldbc, csr, links
<1>8. CASE UNCHANGED graphVars
  BY <1>8 DEF LoadInv, graphVars, ldbc, csr, links
<1> QED BY <1>1, <1>2, <1>3, <1>4, <1>5, <1>6, <1>7, <1>8 DEF LoadNext
-----------------------------------------------------------------------------
(* The right side of GraphIsFile.                                          *)
FileEdges(f, name) ==
  UNION {{<<name[p[1]], name[p[2]], f[{p[1], p[2]}]>> :
            p \in {q \in Vertices \X Vertices : q[1] # q[2] /\ {q[1], q[2]} = pair}} :
         pair \in DOMAIN f}

OfFile(f, name, u, v, e) == u # v /\ {u, v} \in DOMAIN f /\ e = <<name[u], name[v], f[{u, v}]>>
LEMMA FileEdgesAre ==
  ASSUME NEW f, NEW name
  PROVE  /\ \A e \in FileEdges(f, name) : \E u, v \in Vertices : OfFile(f, name, u, v, e)
         /\ \A u, v \in Vertices :
               u # v /\ {u, v} \in DOMAIN f => <<name[u], name[v], f[{u, v}]>> \in FileEdges(f, name)
<1> DEFINE Ends(pair) == {q \in Vertices \X Vertices : q[1] # q[2] /\ {q[1], q[2]} = pair}
           Both(pair) == {<<name[p[1]], name[p[2]], f[{p[1], p[2]}]>> : p \in Ends(pair)}
<1>1. FileEdges(f, name) = UNION {Both(pair) : pair \in DOMAIN f}
  BY DEF FileEdges
<1>2. ASSUME NEW e \in FileEdges(f, name)
      PROVE  \E u, v \in Vertices : u # v /\ {u, v} \in DOMAIN f /\ e = <<name[u], name[v], f[{u, v}]>>
  <2> HIDE DEF Both
  <2>1. PICK pair \in DOMAIN f : e \in Both(pair)
    BY <1>1
  <2> USE DEF Both
  <2> HIDE DEF Ends
  <2>2. PICK p \in Ends(pair) : e = <<name[p[1]], name[p[2]], f[{p[1], p[2]}]>>
    BY <2>1
  <2>3. p[1] \in Vertices /\ p[2] \in Vertices /\ p[1] # p[2] /\ {p[1], p[2]} = pair
    BY DEF Ends
  <2> QED BY <2>1, <2>2, <2>3
<1>3. ASSUME NEW u \in Vertices, NEW v \in Vertices, u # v, {u, v} \in DOMAIN f
      PROVE  <<name[u], name[v], f[{u, v}]>> \in FileEdges(f, name)
  <2>1. PICK pair \in DOMAIN f : pair = {u, v}
    BY <1>3
  <2> DEFINE q == <<u, v>>
  <2>2. q \in Vertices \X Vertices /\ q[1] = u /\ q[2] = v
    OBVIOUS
  <2> HIDE DEF q
  <2>3. q \in Ends(pair)
    BY <1>3, <2>1, <2>2
  <2> HIDE DEF Ends
  <2>4. <<name[q[1]], name[q[2]], f[{q[1], q[2]}]>> \in Both(pair)
    BY <2>3
  <2> HIDE DEF Both
  <2> QED BY <1>1, <2>1, <2>2, <2>4
<1> QED BY <1>2, <1>3 DEF OfFile

LEMMA NamedIsFile ==
  ASSUME NEW adj, NEW name, NEW f, AsNamed(adj, name, f)
  PROVE  Entries(adj) = FileEdges(f, name) /\ \A u, v \in Vertices : u # v => name[u] # name[v]
<1>1. Graph(adj) /\ \A u, v \in Vertices : u # v => name[u] # name[v]
  BY DEF AsNamed, Naming
<1>2. ASSUME NEW e \in Entries(adj) PROVE e \in FileEdges(f, name)
  <2>1. PICK x \in Vertices, y \in Vertices, z \in Weights : e = <<x, y, z>> /\ HasEdge(adj, x, y, z)
    BY <1>1, EntriesAre
  <2>2. PICK u \in Vertices, v \in Vertices : u # v /\ x = name[u] /\ y = name[v] /\ InFile(f, u, v, z)
    BY <2>1 DEF AsNamed
  <2>3. {u, v} \in DOMAIN f /\ z = f[{u, v}]
    BY <2>2 DEF InFile
  <2>4. <<name[u], name[v], f[{u, v}]>> \in FileEdges(f, name)
    BY <2>2, <2>3, FileEdgesAre
  <2> QED BY <2>1, <2>2, <2>3, <2>4
<1>3. ASSUME NEW e \in FileEdges(f, name) PROVE e \in Entries(adj)
  <2>1. PICK u \in Vertices, v \in Vertices :
          u # v /\ {u, v} \in DOMAIN f /\ e = <<name[u], name[v], f[{u, v}]>>
    <3>1. PICK u \in Vertices, v \in Vertices : OfFile(f, name, u, v, e)
      BY FileEdgesAre
    <3> QED BY <3>1 DEF OfFile
  <2>2. InFile(f, u, v, f[{u, v}])
    BY <2>1 DEF InFile
  <2>3. HasEdge(adj, name[u], name[v], f[{u, v}])
    BY <2>1, <2>2 DEF AsNamed
  <2> QED BY <1>1, <2>1, <2>3, EntriesAre
<1> QED BY <1>1, <1>2, <1>3

LEMMA LoadedGraph == LoadInv => GraphIsFile
<1> SUFFICES ASSUME LoadInv, stage # "read"
             PROVE  /\ \A u, v \in Vertices : u # v => rank[u] # rank[v]
                    /\ Entries(ADJs) = FileEdges(file, rank)
  BY DEF GraphIsFile, FileEdges
<1>1. AsNamed(ADJs, rank, file)
  BY DEF LoadInv
<1> QED BY <1>1, NamedIsFile

(* Every edge linked: the ids are right.                                   *)
IdsRight(adj, e, s, w, st, ei, iv) ==
  /\ DOMAIN ei = {<<p[1], p[2]>> : p \in Entries(adj)}
  /\ \A p \in DOMAIN ei :
       LET i == ei[p]
       IN  /\ s[i] = p[1] /\ e[i] = p[2]
           /\ i \in st[p[1]] .. st[p[1] + 1] - 1
           /\ iv[i + 1] = ei[<<p[2], p[1]>>]
           /\ w[i] = w[iv[i + 1]]
LEMMA AllLinked ==
  ASSUME NEW m, NEW e, NEW s, NEW w, NEW st, NEW adj, Arrays(m, e, s, w, st, adj), Symmetric(adj),
         Graph(adj), NEW ei, NEW iv, NEW pt, Linked(m, e, s, ei, iv, pt), Len(iv) = m
  PROVE  IdsRight(adj, e, s, w, st, ei, iv)
<1>1. /\ m \in Nat
      /\ \A i \in 0 .. m - 1 : e[i] \in Vertices /\ s[i] \in Vertices /\ w[i] \in Weights
                               /\ e[i] \in Int /\ s[i] \in Int
      /\ \A i, j \in 0 .. m - 1 : s[i] = s[j] /\ e[i] = e[j] => i = j
  BY ArrayFacts
<1>2. /\ iv \in Seq(0 .. m - 1) /\ Len(iv) = m
      /\ \A i \in 0 .. m - 1 : IsReverse(e, s, i, iv[i + 1])
      /\ DOMAIN ei = {<<s[i], e[i]>> : i \in 0 .. m - 1}
      /\ \A i \in 0 .. m - 1 : ei[<<s[i], e[i]>>] = i
  BY DEF Linked
<1>3. \A i \in 0 .. m - 1 : iv[i + 1] \in 0 .. m - 1 /\ s[iv[i + 1]] = e[i] /\ e[iv[i + 1]] = s[i]
  <2> TAKE i \in 0 .. m - 1
  <2>1. i + 1 \in 1 .. Len(iv)
    BY <1>1, <1>2
  <2>2. iv[i + 1] \in 0 .. m - 1
    BY <1>2, <2>1
  <2> QED BY <1>2, <2>2 DEF IsReverse
<1>4. \A x, y, z : HasEdge(adj, x, y, z) <=> \E i \in 0 .. m - 1 : s[i] = x /\ e[i] = y /\ w[i] = z
  BY DEF Arrays
<1>5. DOMAIN ei = {<<p[1], p[2]>> : p \in Entries(adj)}
  <2>1. ASSUME NEW i \in 0 .. m - 1 PROVE \E p \in Entries(adj) : <<s[i], e[i]>> = <<p[1], p[2]>>
    <3>1. <<s[i], e[i], w[i]>> \in Entries(adj)
      BY <1>4, EntriesAre
    <3> QED BY <3>1
  <2>2. ASSUME NEW p \in Entries(adj) PROVE \E i \in 0 .. m - 1 : <<s[i], e[i]>> = <<p[1], p[2]>>
    <3>1. PICK x \in Vertices, y \in Vertices, z \in Weights : p = <<x, y, z>> /\ HasEdge(adj, x, y, z)
      BY EntriesAre
    <3>2. PICK i \in 0 .. m - 1 : s[i] = x /\ e[i] = y
      BY <1>4, <3>1
    <3>3. p[1] = x /\ p[2] = y
      BY <3>1
    <3> QED BY <3>2, <3>3
  <2> DEFINE L == {<<s[i], e[i]>> : i \in 0 .. m - 1}
             R == {<<p[1], p[2]>> : p \in Entries(adj)}
  <2>3. \A q \in L : q \in R
    <3> TAKE q \in L
    <3>1. PICK i \in 0 .. m - 1 : q = <<s[i], e[i]>>
      OBVIOUS
    <3>2. PICK p \in Entries(adj) : <<s[i], e[i]>> = <<p[1], p[2]>>
      BY <2>1
    <3> QED BY <3>1, <3>2
  <2>4. \A q \in R : q \in L
    <3> TAKE q \in R
    <3>1. PICK p \in Entries(adj) : q = <<p[1], p[2]>>
      OBVIOUS
    <3>2. PICK i \in 0 .. m - 1 : <<s[i], e[i]>> = <<p[1], p[2]>>
      BY <2>2
    <3> QED BY <3>1, <3>2
  <2>5. DOMAIN ei = L
    BY <1>2
  <2> HIDE DEF L, R
  <2>6. L = R
    BY <2>3, <2>4
  <2> QED BY <2>5, <2>6 DEF R
<1>6. ASSUME NEW i \in 0 .. m - 1
      PROVE  /\ i \in st[s[i]] .. st[s[i] + 1] - 1
             /\ iv[i + 1] = ei[<<e[i], s[i]>>]
             /\ w[i] = w[iv[i + 1]]
  <2>1. s[i] \in 0 .. N /\ s[i] + 1 \in 0 .. N /\ i \in Int /\ s[i] < s[i] + 1 /\ ~(s[i] < s[i])
    BY <1>1, VerticesFinite DEF Vertices
  <2>2. st[s[i]] \in Int /\ st[s[i] + 1] \in Int /\ ~(i < st[s[i]]) /\ i < st[s[i] + 1]
    BY <1>1, <2>1 DEF Arrays
  <2>3. i \in st[s[i]] .. st[s[i] + 1] - 1
    BY <2>1, <2>2
  <2> DEFINE j == iv[i + 1]
  <2>4. j \in 0 .. m - 1 /\ s[j] = e[i] /\ e[j] = s[i]
    BY <1>3
  <2> HIDE DEF j
  <2>5. ei[<<s[j], e[j]>>] = j
    BY <1>2, <2>4
  <2>6. ei[<<e[i], s[i]>>] = j
    BY <2>4, <2>5
  <2>7. HasEdge(adj, e[i], s[i], w[i])
    BY <1>4 DEF Symmetric
  <2>8. PICK k \in 0 .. m - 1 : s[k] = e[i] /\ e[k] = s[i] /\ w[k] = w[i]
    BY <1>4, <2>7
  <2>9. w[i] = w[j]
    BY <1>1, <2>4, <2>8
  <2> QED BY <2>3, <2>6, <2>9 DEF j
<1>7. ASSUME NEW p \in DOMAIN ei
      PROVE  \E i \in 0 .. m - 1 : ei[p] = i /\ p = <<s[i], e[i]>>
  <2>1. PICK i \in 0 .. m - 1 : p = <<s[i], e[i]>>
    BY <1>2
  <2> QED BY <1>2, <2>1
<1>8. ASSUME NEW p \in DOMAIN ei
      PROVE  LET i == ei[p]
             IN  /\ s[i] = p[1] /\ e[i] = p[2]
                 /\ i \in st[p[1]] .. st[p[1] + 1] - 1
                 /\ iv[i + 1] = ei[<<p[2], p[1]>>]
                 /\ w[i] = w[iv[i + 1]]
  <2>1. PICK i \in 0 .. m - 1 : ei[p] = i /\ p = <<s[i], e[i]>>
    BY <1>7
  <2>2. p[1] = s[i] /\ p[2] = e[i]
    BY <2>1
  <2> QED BY <1>6, <2>1, <2>2
<1> QED BY <1>5, <1>8 DEF IdsRight

LEMMA LinkedIds == LoadInv => IdsAgree
<1> SUFFICES ASSUME LoadInv PROVE IdsAgree
  OBVIOUS
<1>1. stage # "exit"
  BY DEF LoadInv
<1>2. CASE stage # "done"
  BY <1>1, <1>2 DEF IdsAgree
<1>3. CASE stage = "done"
  <2>1. AsNamed(ADJs, rank, file) /\ SameEdges(OUTs, ADJs)
    BY <1>3 DEF LoadInv
  <2>2. PICK m : Arrays(m, edges, source, weights, start, OUTs)
                 /\ Linked(m, edges, source, edge_id, inv, pointer)
    BY <1>3 DEF LoadInv
  <2>3. Symmetric(ADJs) /\ Graph(ADJs)
    BY <2>1, NamedSymmetric DEF AsNamed
  <2>4. Arrays(m, edges, source, weights, start, ADJs)
    BY <2>1, <2>2 DEF Arrays, SameEdges
  <2>5. Len(inv) = m
    <3>1. DOMAIN edges = 0 .. m - 1 /\ m \in Nat
      BY <2>2 DEF Arrays
    <3>2. Len(inv) \in Nat /\ Len(inv) <= m
      BY <2>2 DEF Linked
    <3>3. Len(inv) \notin DOMAIN edges
      BY <1>3 DEF LoadInv
    <3> QED BY <3>1, <3>2, <3>3
  <2>6. IdsRight(ADJs, edges, source, weights, start, edge_id, inv)
    BY <2>2, <2>3, <2>4, <2>5, AllLinked
  <2> QED BY <1>1, <2>6 DEF IdsAgree, IdsRight
<1> QED BY <1>2, <1>3

(* The invariant is an invariant of the specification.                     *)
THEOREM LoadInvariant == LoadSpec => []LoadInv
<1>1. LoadInit => LoadInv
  BY LoadInvInit
<1>2. LoadInv /\ [LoadNext]_graphVars => LoadInv'
  BY LoadInvNext
<1> QED BY <1>1, <1>2, PTL DEF LoadSpec

(* Whatever the order of the lines, add_edge and the reorder step leave    *)
(* the graph of the file under the new names, each edge at both ends.      *)
THEOREM GraphLoaded == LoadSpec => []GraphIsFile
BY LoadInvariant, LoadedGraph, PTL

(* toCSR finds the reverse of every edge by its pointers and never exits;  *)
(* the ids, the reverses and the start pointers agree.                     *)
THEOREM IdsLinked == LoadSpec => []IdsAgree
BY LoadInvariant, LinkedIds, PTL
=============================================================================
