----------------------------- MODULE HasTable -----------------------------
(***************************************************************************)
(* The table `has' through one vertex group (gpu_label_gen.cu): for each   *)
(* hop a launch whose threads each insert one label under the hop bounds   *)
(* it is good for (gen_init_frontier, gen_update_hash), then one launch in *)
(* which every label of the group clears its keys (gen_hash_clear).  Every *)
(* access to the table is a step.  The reader is gen_hash_query, which     *)
(* runs between the launches.                                              *)
(***************************************************************************)
EXTENDS Integers

CONSTANTS
  TS,       \* TABLE_SIZE
  K,        \* hop_cst
  Labels,   \* the labels a group keeps, one thread each
  Pairs,    \* their (vertex, hub)
  Pair,     \* Pair[l]: the (vertex, hub) of l
  Hop,      \* Hop[l]: the hop of l
  Home,     \* Home[<<m, k>>]: gen_hash_pos of the key (m, k)
  Empty     \* the zero word

ASSUME HasAssumption ==
  /\ TS \in Nat \ {0} /\ K \in Nat \ {0}
  /\ Pair \in [Labels -> Pairs]
  /\ Hop \in [Labels -> 0 .. K]
  /\ Home \in [Pairs \X (0 .. K) -> 0 .. TS - 1]
  /\ Empty \notin Labels \X (0 .. K)

(* The gather leaves one label per vertex and hub at each hop.             *)
ASSUME OnePerHop ==
  \A l, m \in Labels : Pair[l] = Pair[m] /\ Hop[l] = Hop[m] => l = m

VARIABLES
  table,   \* d_table; a word is a label and the hop bound it is put under
  launch,  \* the hop whose labels are inserted; K + 1 clears; K + 2 is over
  pc,      \* what the thread of a label does next
  idx,     \* its loop index: the hop bound it works on
  pos      \* its slot

vars == <<table, launch, pc, idx, pos>>

Slots == 0 .. TS - 1
MutSuccSticks(p) == IF p = TS - 1 THEN p ELSE p + 1
Succ(p) == IF p = TS - 1 THEN 0 ELSE p + 1

KeyOf(word) == <<Pair[word[1]], word[2]>>
KeyAt(l, k) == <<Pair[l], k>>

(* gen_init_frontier inserts up to hop_cst, gen_update_hash up to          *)
(* hop_cst - 1: no query asks for more.                                    *)
LastInsert(l) == IF Hop[l] = 0 THEN K ELSE K - 1
----------------------------------------------------------------------------
(* An insert is over: the next hop bound, or the thread ends.              *)
Advance(l) ==
  IF idx[l] < LastInsert(l)
  THEN /\ pc' = [pc EXCEPT ![l] = "probe"]
       /\ idx' = [idx EXCEPT ![l] = @ + 1]
       /\ pos' = [pos EXCEPT ![l] = Home[KeyAt(l, idx[l] + 1)]]
  ELSE /\ pc' = [pc EXCEPT ![l] = "done"]
       /\ UNCHANGED <<idx, pos>>

(* gen_hash_insert reads the slot: empty, its key, or a collision.         *)
Probe(l) ==
  /\ pc[l] = "probe"
  /\ \/ /\ table[pos[l]] = Empty
        /\ pc' = [pc EXCEPT ![l] = "claim"]
        /\ UNCHANGED pos
     \/ /\ table[pos[l]] # Empty /\ KeyOf(table[pos[l]]) = KeyAt(l, idx[l])
        /\ pc' = [pc EXCEPT ![l] = "overwrite"]
        /\ UNCHANGED pos
     \/ /\ table[pos[l]] # Empty /\ KeyOf(table[pos[l]]) # KeyAt(l, idx[l])
        /\ pos' = [pos EXCEPT ![l] = Succ(@)]
        /\ UNCHANGED pc
  /\ UNCHANGED <<table, launch, idx>>

MutClaim(l) ==
  /\ pc[l] = "claim"
  /\ IF table[pos[l]] = Empty
     THEN table' = [table EXCEPT ![pos[l]] = <<l, idx[l]>>]
     ELSE UNCHANGED table
  /\ Advance(l)
  /\ UNCHANGED launch
Claim(l) ==
  /\ pc[l] = "claim"
  /\ IF table[pos[l]] = Empty
     THEN /\ table' = [table EXCEPT ![pos[l]] = <<l, idx[l]>>]
          /\ Advance(l)
     ELSE /\ pc' = [pc EXCEPT ![l] = "probe"]
          /\ UNCHANGED <<table, idx, pos>>
  /\ UNCHANGED launch

(* The plain store over an entry of the same key.                          *)
Overwrite(l) ==
  /\ pc[l] = "overwrite"
  /\ table' = [table EXCEPT ![pos[l]] = <<l, idx[l]>>]
  /\ Advance(l)
  /\ UNCHANGED launch

(* gen_hash_clear reads a slot of the run that starts at the home slot,    *)
Read(l) ==
  /\ pc[l] = "read"
  /\ \/ /\ table[pos[l]] # Empty
        /\ pc' = [pc EXCEPT ![l] = "wipe"]
        /\ UNCHANGED <<idx, pos>>
     \/ /\ table[pos[l]] = Empty /\ idx[l] < K
        /\ idx' = [idx EXCEPT ![l] = @ + 1]
        /\ pos' = [pos EXCEPT ![l] = Home[KeyAt(l, idx[l] + 1)]]
        /\ UNCHANGED pc
     \/ /\ table[pos[l]] = Empty /\ idx[l] = K
        /\ pc' = [pc EXCEPT ![l] = "done"]
        /\ UNCHANGED <<idx, pos>>
  /\ UNCHANGED <<table, launch>>

(* and empties it, whatever it holds, before it looks at the next one.     *)
MutWipe(l) ==
  /\ pc[l] = "wipe"
  /\ table' = [table EXCEPT ![pos[l]] = Empty]
  /\ pc' = [pc EXCEPT ![l] = IF idx[l] < K THEN "read" ELSE "done"]
  /\ IF idx[l] < K
     THEN /\ idx' = [idx EXCEPT ![l] = @ + 1]
          /\ pos' = [pos EXCEPT ![l] = Home[KeyAt(l, idx[l] + 1)]]
     ELSE UNCHANGED <<idx, pos>>
  /\ UNCHANGED launch
Wipe(l) ==
  /\ pc[l] = "wipe"
  /\ table' = [table EXCEPT ![pos[l]] = Empty]
  /\ pos' = [pos EXCEPT ![l] = Succ(@)]
  /\ pc' = [pc EXCEPT ![l] = "read"]
  /\ UNCHANGED <<launch, idx>>

Returned == \A l \in Labels : pc[l] \in {"idle", "done"}

(* The host waits for a launch and starts the one of the next hop.         *)
LaunchInsert ==
  /\ launch < K /\ Returned
  /\ launch' = launch + 1
  /\ pc' = [l \in Labels |->
              IF Hop[l] = launch + 1 /\ Hop[l] <= LastInsert(l)
              THEN "probe" ELSE pc[l]]
  /\ UNCHANGED <<table, idx, pos>>

LaunchClear ==
  /\ launch = K /\ Returned
  /\ launch' = K + 1
  /\ pc' = [l \in Labels |-> "read"]
  /\ idx' = Hop
  /\ pos' = [l \in Labels |-> Home[KeyAt(l, Hop[l])]]
  /\ UNCHANGED table

FinishGroup ==
  /\ launch = K + 1 /\ Returned
  /\ launch' = K + 2
  /\ UNCHANGED <<table, pc, idx, pos>>

Stop == launch = K + 2 /\ UNCHANGED vars

Init ==
  /\ table = [p \in Slots |-> Empty]
  /\ launch = 0
  /\ pc = [l \in Labels |-> IF Hop[l] = 0 THEN "probe" ELSE "idle"]
  /\ idx = Hop
  /\ pos = [l \in Labels |-> Home[KeyAt(l, Hop[l])]]

Thread(l) == Probe(l) \/ Claim(l) \/ Overwrite(l) \/ Read(l) \/ Wipe(l)

Next == \/ \E l \in Labels : Thread(l)
        \/ LaunchInsert \/ LaunchClear \/ FinishGroup \/ Stop

Spec == Init /\ [][Next]_vars
FairSpec == /\ Spec
            /\ \A l \in Labels : WF_vars(Thread(l))
            /\ WF_vars(LaunchInsert) /\ WF_vars(LaunchClear)
            /\ WF_vars(FinishGroup)
----------------------------------------------------------------------------
Words == (Labels \X (0 .. K)) \cup {Empty}

TypeOK ==
  /\ table \in [Slots -> Words]
  /\ launch \in 0 .. K + 2
  /\ pc \in [Labels -> {"idle", "probe", "claim", "overwrite", "read", "wipe",
                        "done"}]
  /\ idx \in [Labels -> 0 .. K]
  /\ pos \in [Labels -> Slots]

(* How far probing has gone from slot h when it looks at slot p.           *)
Disp(h, p) == IF p >= h THEN p - h ELSE p - h + TS

(* gen_hash_query of a key comes to this slot: the key is there, and the   *)
(* probing meets no empty slot and no other entry of the key before it.    *)
Found(key, p) ==
  /\ table[p] # Empty /\ KeyOf(table[p]) = key
  /\ \A q \in Slots :
       Disp(Home[key], q) < Disp(Home[key], p)
         => table[q] # Empty /\ KeyOf(table[q]) # key

(* The labels a launch has put under a hop bound.                          *)
Inserts(l, k) == k \in Hop[l] .. LastInsert(l)

(* Between launches a query for a key that labels were put under finds the *)
(* one of the largest hop: the newest distance, which the pruning has made *)
(* the smallest.                                                           *)
QueryFindsLatest ==
  (launch <= K /\ Returned) =>
    \A l \in Labels, k \in 0 .. K :
      (Hop[l] <= launch /\ Inserts(l, k)
        /\ \A m \in Labels : (Pair[m] = Pair[l] /\ Hop[m] <= launch
                                /\ Inserts(m, k)) => Hop[m] <= Hop[l])
      => \E p \in Slots : Found(KeyAt(l, k), p) /\ table[p] = <<l, k>>

(* The clear leaves no entry, though its threads empty one another's runs  *)
(* while others still walk them.                                           *)
ClearedForNextGroup ==
  launch = K + 2 => \A p \in Slots : table[p] = Empty

(* Every launch of the group comes to its end while the keys fit.          *)
GroupEnds == <>(launch = K + 2)
=============================================================================
