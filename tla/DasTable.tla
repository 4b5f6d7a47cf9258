----------------------------- MODULE DasTable -----------------------------
(***************************************************************************)
(* One round of the deduplication table `das': the concurrent              *)
(* gen_das_insert calls of a gen_gather launch, one per candidate label,   *)
(* and the gen_das_clear launch after it (gpu_label_gen.cu).  Every access *)
(* to the table is a step of its own.  Candidates with one key, the label  *)
(* without its distance, must leave a single label: the cheapest.          *)
(***************************************************************************)
EXTENDS Integers

CONSTANTS
  TS,      \* TABLE_SIZE
  Cand,    \* the candidates of the launch
  Keys,    \* the (source[edge], hub, hop) of candidates
  Key,     \* Key[c]: the key of candidate c
  Home,    \* Home[k]: gen_hash_pos of key k
  Dist,    \* Dist[c]: the low ten bits of c
  Empty    \* the zero word

ASSUME DasAssumption ==
  /\ TS \in Nat \ {0}
  /\ Key \in [Cand -> Keys]
  /\ Home \in [Keys -> 0 .. TS - 1]
  /\ Dist \in [Cand -> Nat]
  /\ Empty \notin Cand

VARIABLES
  table,   \* d_table
  pc,      \* what the thread of a candidate does next
  pos,     \* its slot
  old,     \* the word it compares or takes
  phase,   \* the kernel that runs
  out      \* d_input[idx] after the clear: the label the claimer emits

vars == <<table, pc, pos, old, phase, out>>

Slots == 0 .. TS - 1
MutSuccSticks(p) == IF p = TS - 1 THEN p ELSE p + 1
Succ(p) == IF p = TS - 1 THEN 0 ELSE p + 1
----------------------------------------------------------------------------
(* gen_das_insert reads the slot: empty, its own key, or a collision.      *)
Probe(c) ==
  /\ pc[c] = "probe"
  /\ \/ /\ table[pos[c]] = Empty
        /\ pc' = [pc EXCEPT ![c] = "claim"]
        /\ UNCHANGED pos
     \/ /\ table[pos[c]] # Empty /\ Key[table[pos[c]]] = Key[c]
        /\ pc' = [pc EXCEPT ![c] = "min"]
        /\ UNCHANGED pos
     \/ /\ table[pos[c]] # Empty /\ Key[table[pos[c]]] # Key[c]
        /\ pos' = [pos EXCEPT ![c] = Succ(@)]
        /\ UNCHANGED pc
  /\ UNCHANGED <<table, old, phase, out>>

(* The compare-and-swap on the empty slot; the loser reads the slot again. *)
MutClaim(c) ==
  /\ pc[c] = "claim"
  /\ table' = [table EXCEPT ![pos[c]] = c]
  /\ pc' = [pc EXCEPT ![c] = "claimed"]
  /\ UNCHANGED <<pos, old, phase, out>>
MutClaimSkips(c) ==
  /\ pc[c] = "claim"
  /\ IF table[pos[c]] = Empty
     THEN /\ table' = [table EXCEPT ![pos[c]] = c]
          /\ pc' = [pc EXCEPT ![c] = "claimed"]
          /\ UNCHANGED pos
     ELSE /\ pc' = [pc EXCEPT ![c] = "probe"]
          /\ pos' = [pos EXCEPT ![c] = Succ(@)]
          /\ UNCHANGED table
  /\ UNCHANGED <<old, phase, out>>
Claim(c) ==
  /\ pc[c] = "claim"
  /\ IF table[pos[c]] = Empty
     THEN /\ table' = [table EXCEPT ![pos[c]] = c]
          /\ pc' = [pc EXCEPT ![c] = "claimed"]
     ELSE /\ pc' = [pc EXCEPT ![c] = "probe"]
          /\ UNCHANGED table
  /\ UNCHANGED <<pos, old, phase, out>>

(* The inner loop on a slot of the same key: read, and give up unless      *)
(* cheaper.                                                                *)
MinRead(c) ==
  /\ pc[c] = "min"
  /\ old' = [old EXCEPT ![c] = table[pos[c]]]
  /\ pc' = [pc EXCEPT ![c] = IF Dist[c] < Dist[table[pos[c]]]
                              THEN "mincas" ELSE "lost"]
  /\ UNCHANGED <<table, pos, phase, out>>

MinCas(c) ==
  /\ pc[c] = "mincas"
  /\ table' = [table EXCEPT ![pos[c]] = IF @ = old[c] THEN c ELSE @]
  /\ pc' = [pc EXCEPT ![c] = "mincheck"]
  /\ UNCHANGED <<pos, old, phase, out>>

(* The code does not look at what the CAS returned; it reads the slot.     *)
MinCheck(c) ==
  /\ pc[c] = "mincheck"
  /\ pc' = [pc EXCEPT ![c] = IF table[pos[c]] = c THEN "lost" ELSE "min"]
  /\ UNCHANGED <<table, pos, old, phase, out>>

Inserted == \A c \in Cand : pc[c] \in {"claimed", "lost"}

(* The host waits for gen_gather, then launches gen_das_clear over the     *)
(* labels gen_gather put out: those whose insert returned 1.               *)
LaunchClear ==
  /\ phase = "gather" /\ Inserted
  /\ phase' = "clear"
  /\ pc' = [c \in Cand |-> IF pc[c] = "claimed" THEN "find" ELSE "lost"]
  /\ pos' = [c \in Cand |-> Home[Key[c]]]
  /\ UNCHANGED <<table, old, out>>

(* gen_das_clear walks to the slot of its key, over empty slots too,       *)
Find(c) ==
  /\ pc[c] = "find"
  /\ old' = [old EXCEPT ![c] = table[pos[c]]]
  /\ IF table[pos[c]] # Empty /\ Key[table[pos[c]]] = Key[c]
     THEN /\ pc' = [pc EXCEPT ![c] = "wipe"]
          /\ UNCHANGED pos
     ELSE /\ pos' = [pos EXCEPT ![c] = Succ(@)]
          /\ UNCHANGED pc
  /\ UNCHANGED <<table, phase, out>>

(* empties it and takes its word.                                          *)
MutWipe(c) ==
  /\ pc[c] = "wipe"
  /\ table' = [table EXCEPT ![pos[c]] = Empty]
  /\ out' = [out EXCEPT ![c] = c]
  /\ pc' = [pc EXCEPT ![c] = "clean"]
  /\ UNCHANGED <<pos, old, phase>>
Wipe(c) ==
  /\ pc[c] = "wipe"
  /\ table' = [table EXCEPT ![pos[c]] = Empty]
  /\ out' = [out EXCEPT ![c] = old[c]]
  /\ pc' = [pc EXCEPT ![c] = "clean"]
  /\ UNCHANGED <<pos, old, phase>>

Cleared == \A c \in Cand : pc[c] \in {"clean", "lost"}

(* The host goes on to sort what the clear left in T.                      *)
LaunchSort ==
  /\ phase = "clear" /\ Cleared
  /\ phase' = "sorted"
  /\ UNCHANGED <<table, pc, pos, old, out>>

Stop == phase = "sorted" /\ UNCHANGED vars

Init ==
  /\ table = [p \in Slots |-> Empty]
  /\ pc = [c \in Cand |-> "probe"]
  /\ pos = [c \in Cand |-> Home[Key[c]]]
  /\ old = [c \in Cand |-> Empty]
  /\ phase = "gather"
  /\ out = [c \in Cand |-> Empty]

Thread(c) == \/ Probe(c) \/ Claim(c) \/ MinRead(c) \/ MinCas(c) \/ MinCheck(c)
             \/ Find(c) \/ Wipe(c)

Next == \/ \E c \in Cand : Thread(c)
        \/ LaunchClear \/ LaunchSort \/ Stop

Spec == Init /\ [][Next]_vars

(* Every thread of a launch is scheduled again and again (independent      *)
(* thread scheduling), and the host does not stop between launches.        *)
FairSpec == /\ Spec
            /\ \A c \in Cand : WF_vars(Thread(c))
            /\ WF_vars(LaunchClear) /\ WF_vars(LaunchSort)
----------------------------------------------------------------------------
Words == Cand \cup {Empty}

TypeOK ==
  /\ table \in [Slots -> Words]
  /\ pc \in [Cand -> {"probe", "claim", "min", "mincas", "mincheck", "claimed",
                      "lost", "find", "wipe", "clean"}]
  /\ pos \in [Cand -> Slots]
  /\ old \in [Cand -> Words]
  /\ phase \in {"gather", "clear", "sorted"}
  /\ out \in [Cand -> Words]

(* No key ever occupies two slots: the race of two inserts of one key      *)
(* through a cluster of collisions cannot make a second entry.             *)
KeysUnique ==
  \A p, q \in Slots :
    (table[p] # Empty /\ table[q] # Empty /\ Key[table[p]] = Key[table[q]])
      => p = q

(* A key is emitted by one candidate only: gen_das_insert returns 1 once.  *)
Claimers == {c \in Cand : pc[c] \in {"claimed", "find", "wipe", "clean"}}
OneClaimer == \A c, d \in Claimers : Key[c] = Key[d] => c = d

(* An insert that has returned left its key at its own distance or less,   *)
(* and no later insert raises it, until the clear takes the entry.         *)
ReturnedIsHeld ==
  phase = "gather" =>
    \A c \in Cand : pc[c] \in {"claimed", "lost"} =>
      \E p \in Slots : /\ table[p] # Empty
                       /\ Key[table[p]] = Key[c]
                       /\ Dist[table[p]] <= Dist[c]

(* What the two launches promise: the table is empty again, and the labels *)
(* put out hold, for every key a candidate had, exactly one, the cheapest. *)
Result == {out[c] : c \in Claimers}
MinPerKey ==
  phase = "sorted" =>
    /\ \A p \in Slots : table[p] = Empty
    /\ Result \subseteq Cand
    /\ \A c \in Cand : \E r \in Result : Key[r] = Key[c] /\ Dist[r] <= Dist[c]
    /\ \A r, s \in Result : Key[r] = Key[s] => r = s

(* While the keys fit the table, every insert and every clear returns.     *)
RoundEnds == <>(phase = "sorted")
=============================================================================
