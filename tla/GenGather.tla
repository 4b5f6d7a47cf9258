----------------------------- MODULE GenGather -----------------------------
(***************************************************************************)
(* How gen_gather spreads the edges of the previous hop's labels over the  *)
(* threads of a block (gpu_label_gen.cu), down to its calls of             *)
(* gen_das_insert, whose steps are those of DasTable.  A row of at least a *)
(* block's threads is shared by the block, one of at least a warp's lanes  *)
(* by the warp, and what is left over goes in batches through a prefix     *)
(* sum; the labels that claimed their key are packed into T_after.         *)
(*                                                                         *)
(* The block tier and the warp tier run one algorithm with another team,   *)
(* so they share their actions here.  A team waits for its members at each *)
(* barrier of the block.  The lanes of a warp meet at the two __any_sync    *)
(* and in WarpScan.  Elsewhere in the warp tier, at "vied", "won" and       *)
(* "added", the code has no __syncwarp: that the lanes are in step there   *)
(* is an assumption of this module, which CUDA does not promise.  The host *)
(* launches a block for every THREADS_NUM labels, so a block goes once     *)
(* through its loop.  Blocks meet only in das and in the atomicAdd, as the *)
(* two warps of a block do; one block is modelled.                         *)
(***************************************************************************)
EXTENDS DasTable, FiniteSetsExt

CONSTANTS
  THREADS_NUM,   \* threads of the block
  Lanes,         \* lanes of a warp, the literal 32
  TPreOffset,    \* T_pre_offset[0]: how many labels the launch expands
  RowBegin,      \* out_pointer of the vertex of a label
  RowEnd         \* and the end of its row

ASSUME GatherAssumption ==
  /\ THREADS_NUM \in Nat \ {0} /\ Lanes \in Nat \ {0}
  /\ THREADS_NUM % Lanes = 0
  /\ TPreOffset \in 1 .. THREADS_NUM
  /\ RowBegin \in [0 .. TPreOffset - 1 -> Nat]
  /\ RowEnd \in [0 .. TPreOffset - 1 -> Nat]
  /\ \A c \in Cand : c[1] \in DOMAIN RowBegin
                     /\ c[2] \in RowBegin[c[1]] .. RowEnd[c[1]] - 1

VARIABLES
  at,           \* where in the kernel each thread is
  tier,         \* the tier it is in
  row,          \* node, row_begin, row_end
  gat,          \* gather, gather_end, u
  got,          \* whether its insert claimed the key
  comm,         \* comm and comm_node
  comm2,        \* comm2 and comm2_node
  rank,         \* rsv_rank
  total,        \* the sum of the rows left for the third tier
  progress,     \* cta_progress
  board,        \* output_cta_offset at -1, output_warp_offset of each warp
  TAfter,       \* T_after
  TAfterOffset  \* T_after_offset[0]

local  == <<row, gat, got, rank>>
shared == <<comm, comm2, total, progress, board, TAfter, TAfterOffset>>
gatherVars == <<at, tier, local, shared>>

Threads == 0 .. THREADS_NUM - 1
Team(t) == IF tier[t] = "warp" THEN {x \in Threads : x \div Lanes = t \div Lanes}
                               ELSE Threads
Place(t) == IF tier[t] = "warp" THEN t % Lanes ELSE t
Enough(t) == IF tier[t] = "warp" THEN Lanes ELSE THREADS_NUM
Cell(t) == IF tier[t] = "warp" THEN t \div Lanes ELSE 0
Board(t) == IF tier[t] = "warp" THEN t \div Lanes ELSE -1
Size(t) == row[t].e - row[t].b

GoTo(t, p) == at' = [at EXCEPT ![t] = p]
AllGoTo(team, p) == at' = [t \in Threads |-> IF t \in team THEN p ELSE at[t]]

(* A barrier: the first of a team moves it when all have come to point p.  *)
(* In the warp tier it is one at "open", "more" and "scan"; at the other   *)
(* points it is the assumption that the lanes are in step.                 *)
Meet(t, p) == at[t] = p /\ Place(t) = 0 /\ \A x \in Team(t) : at[x] = p

(* A thread without a label has an empty row.                              *)
Load ==
  [t \in Threads |->
     IF t < TPreOffset THEN [node |-> t, b |-> RowBegin[t], e |-> RowEnd[t]]
                       ELSE [node |-> 0, b |-> 0, e |-> 0]]
----------------------------------------------------------------------------
(* __syncthreads_or or __any_sync: is there a row for the whole team?  If  *)
(* not, the team goes on to the next tier.                                 *)
Open(t) ==
  /\ Meet(t, "open")
  /\ IF \E x \in Team(t) : Size(x) >= Enough(x)
     THEN /\ at' = [x \in Threads |->
                      IF x \notin Team(t) THEN at[x]
                      ELSE IF Size(x) >= Enough(x) THEN "vie" ELSE "vied"]
          /\ UNCHANGED tier
     ELSE /\ tier' = [x \in Threads |->
                        IF x \notin Team(t) THEN tier[x]
                        ELSE IF tier[t] = "block" THEN "warp" ELSE "scan"]
          /\ AllGoTo(Team(t), IF tier[t] = "block" THEN "open" ELSE "rank")
  /\ UNCHANGED <<vars, local, shared>>

(* Vie for control: one cell for all, the last writer stays.               *)
Vie(t) ==
  /\ at[t] = "vie"
  /\ comm' = [comm EXCEPT ![Cell(t)].vie = Place(t)]
  /\ GoTo(t, "vied")
  /\ UNCHANGED <<vars, tier, local, comm2, total, progress, board, TAfter,
                 TAfterOffset>>

(* After the barrier the cell stays: one finds its own number there,       *)
Wins(t) == comm[Cell(t)].vie = Place(t)
Vied(t) ==
  /\ Meet(t, "vied")
  /\ at' = [x \in Threads |-> IF x \notin Team(t) THEN at[x]
                              ELSE IF Wins(x) THEN "win" ELSE "won"]
  /\ UNCHANGED <<vars, tier, local, shared>>

(* The winner describes its row to the others, and is done with it.        *)
Win(t) ==
  /\ at[t] = "win"
  /\ comm' = [comm EXCEPT ![Cell(t)].b = row[t].b, ![Cell(t)].e = row[t].e,
                          ![Cell(t)].node = row[t].node]
  /\ row' = [row EXCEPT ![t].b = row[t].e]
  /\ GoTo(t, "won")
  /\ UNCHANGED <<vars, tier, gat, got, rank, comm2, total, progress, board,
                 TAfter, TAfterOffset>>

(* Each member starts at its own edge of the winner's row,                 *)
Won(t) ==
  /\ Meet(t, "won")
  /\ gat' = [x \in Threads |-> IF x \in Team(t)
                               THEN [e |-> comm[Cell(x)].b + Place(x),
                                     end |-> comm[Cell(x)].e,
                                     u |-> comm[Cell(x)].node]
                               ELSE gat[x]]
  /\ AllGoTo(Team(t), "more")
  /\ UNCHANGED <<vars, tier, row, got, rank, shared>>

(* and the team goes on while one of them has an edge.  A thread whose     *)
(* edge ends where the hub outranks calls gen_das_insert, the others wait. *)
Pair(t) == <<gat[t].u, gat[t].e>>
Offers(t) == gat[t].e < gat[t].end /\ Pair(t) \in Cand

More(t) ==
  /\ Meet(t, "more")
  /\ IF \E x \in Team(t) : gat[x].e < gat[x].end
     THEN at' = [x \in Threads |-> IF x \notin Team(t) THEN at[x]
                                  ELSE IF Offers(x) THEN "insert" ELSE "scan"]
     ELSE AllGoTo(Team(t), "open")
  /\ got' = [x \in Threads |-> x \notin Team(t) /\ got[x]]
  /\ UNCHANGED <<vars, tier, row, gat, rank, shared>>
----------------------------------------------------------------------------
InsertStep(c) == Probe(c) \/ Claim(c) \/ MinRead(c) \/ MinCas(c) \/ MinCheck(c)

Insert(t) ==
  /\ at[t] = "insert"
  /\ InsertStep(Pair(t))
  /\ UNCHANGED gatherVars

Return(t) ==
  /\ at[t] = "insert" /\ pc[Pair(t)] \in {"claimed", "lost"}
  /\ got' = [got EXCEPT ![t] = pc[Pair(t)] = "claimed"]
  /\ GoTo(t, "scan")
  /\ UNCHANGED <<vars, tier, row, gat, rank, shared>>

(* BlockScan or WarpScan: how many of the first n of the team claimed.     *)
MutClaimedBefore(t, n) == Cardinality({x \in Team(t) : Place(x) <= n /\ got[x]})
ClaimedBefore(t, n) == Cardinality({x \in Team(t) : Place(x) < n /\ got[x]})

Scan(t) ==
  /\ Meet(t, "scan")
  /\ at' = [x \in Threads |-> IF x = t THEN "add"
                              ELSE IF x \in Team(t) THEN "added" ELSE at[x]]
  /\ UNCHANGED <<vars, tier, local, shared>>

(* The first of the team reserves the space of all with an atomicAdd.      *)
Add(t) ==
  /\ at[t] = "add"
  /\ board' = [board EXCEPT ![Board(t)] = TAfterOffset]
  /\ TAfterOffset' = TAfterOffset + ClaimedBefore(t, THREADS_NUM)
  /\ GoTo(t, "added")
  /\ UNCHANGED <<vars, tier, local, comm, comm2, total, progress, TAfter>>

(* Then each goes on to its next edge of the row, a team's width ahead.    *)
MutAhead(S) ==
  [t \in Threads |-> IF t \in S THEN [gat[t] EXCEPT !.e = @ + THREADS_NUM]
                                ELSE gat[t]]
Ahead(S) ==
  [t \in Threads |-> IF t \in S THEN [gat[t] EXCEPT !.e = @ + Cardinality(Team(t))]
                                ELSE gat[t]]
After(t) == IF tier[t] = "scan" THEN "batch" ELSE "more"

Added(t) ==
  /\ Meet(t, "added")
  /\ at' = [x \in Threads |-> IF x \notin Team(t) THEN at[x]
                              ELSE IF got[x] THEN "emit" ELSE After(x)]
  /\ gat' = Ahead({x \in Team(t) : ~got[x]})
  /\ UNCHANGED <<vars, tier, row, got, rank, shared>>

Emit(t) ==
  /\ at[t] = "emit"
  /\ LET i == board[Board(t)] + ClaimedBefore(t, Place(t))
     IN  TAfter' = [j \in DOMAIN TAfter \cup {i} |->
                      IF j = i THEN Pair(t) ELSE TAfter[j]]
  /\ gat' = Ahead({t})
  /\ GoTo(t, After(t))
  /\ UNCHANGED <<vars, tier, row, got, rank, comm, comm2, total, progress,
                 board, TAfterOffset>>
----------------------------------------------------------------------------
SizeSum(S) == FoldSet(LAMBDA t, sum : Size(t) + sum, 0, S)

(* The third tier: the prefix sum of what is left of the rows.             *)
RankRows(t) ==
  /\ Meet(t, "rank")
  /\ rank' = [x \in Threads |-> SizeSum(0 .. x - 1)]
  /\ total' = SizeSum(Threads)
  /\ progress' = 0
  /\ AllGoTo(Threads, IF total' > 0 THEN "share" ELSE "exit")
  /\ UNCHANGED <<vars, tier, row, gat, got, comm, comm2, board, TAfter, TAfterOffset>>

(* A thread writes the edges of its row that fall into the batch.          *)
Share(t) ==
  /\ at[t] = "share"
  /\ LET n == Max({0, Min({Size(t), progress + THREADS_NUM - rank[t]})})
         slot == rank[t] - progress
     IN  /\ comm2' = [i \in DOMAIN comm2 |->
                        IF i \in slot .. slot + n - 1
                        THEN [e |-> row[t].b + i - slot, node |-> row[t].node]
                        ELSE comm2[i]]
         /\ rank' = [rank EXCEPT ![t] = @ + n]
         /\ row' = [row EXCEPT ![t].b = @ + n]
  /\ GoTo(t, "shared")
  /\ UNCHANGED <<vars, tier, gat, got, comm, total, progress, board, TAfter,
                 TAfterOffset>>

(* Each thread takes the edge in its own slot, if the batch reaches there: *)
(* the slots behind it still hold edges of the batch before.               *)
Shared(t) ==
  /\ Meet(t, "shared")
  /\ gat' = [x \in Threads |->
               [e |-> comm2[x].e,
                end |-> comm2[x].e + (IF x < total - progress THEN 1 ELSE 0),
                u |-> comm2[x].node]]
  /\ at' = [x \in Threads |-> IF Offers(x)' THEN "insert" ELSE "scan"]
  /\ got' = [x \in Threads |-> FALSE]
  /\ UNCHANGED <<vars, tier, row, rank, shared>>

Batch(t) ==
  /\ Meet(t, "batch")
  /\ progress' = progress + THREADS_NUM
  /\ AllGoTo(Threads, IF progress' < total THEN "share" ELSE "exit")
  /\ UNCHANGED <<vars, tier, local, comm, comm2, total, board, TAfter,
                 TAfterOffset>>
----------------------------------------------------------------------------
(* The host waits for the block, and launches gen_das_clear over the       *)
(* labels in T_after.                                                      *)
Packed == {TAfter[i] : i \in DOMAIN TAfter \cap (0 .. TAfterOffset - 1)}
LaunchOver ==
  /\ phase = "gather" /\ \A t \in Threads : at[t] = "exit"
  /\ phase' = "clear"
  /\ pc' = [c \in Cand |-> IF c \in Packed THEN "find" ELSE "lost"]
  /\ pos' = [c \in Cand |-> Home[Key[c]]]
  /\ UNCHANGED <<table, old, out, gatherVars>>

Clear(c) == (Find(c) \/ Wipe(c)) /\ UNCHANGED gatherVars
Sort == LaunchSort /\ UNCHANGED gatherVars

GatherInit ==
  /\ Init
  /\ row = Load
  /\ tier = [t \in Threads |-> "block"]
  /\ at = [t \in Threads |-> "open"]
  /\ gat = [t \in Threads |-> [e |-> 0, end |-> 0, u |-> 0]]
  /\ got = [t \in Threads |-> FALSE]
  /\ comm = [i \in Threads |-> [vie |-> 0, b |-> 0, e |-> 0, node |-> 0]]
  /\ comm2 = [i \in Threads |-> [e |-> 0, node |-> 0]]
  /\ rank = [t \in Threads |-> 0]
  /\ total = 0 /\ progress = 0
  /\ board = [i \in -1 .. THREADS_NUM \div Lanes - 1 |-> 0]
  /\ TAfter = [i \in {} |-> 0]
  /\ TAfterOffset = 0

Work(t) ==
  \/ Open(t) \/ Vie(t) \/ Vied(t) \/ Win(t) \/ Won(t) \/ More(t)
  \/ Insert(t) \/ Return(t) \/ Scan(t) \/ Add(t) \/ Added(t) \/ Emit(t)
  \/ RankRows(t) \/ Share(t) \/ Shared(t) \/ Batch(t)

Over == phase = "sorted" /\ UNCHANGED <<vars, gatherVars>>

GatherNext == \/ \E t \in Threads : Work(t)
              \/ LaunchOver \/ (\E c \in Cand : Clear(c)) \/ Sort \/ Over

GatherSpec == GatherInit /\ [][GatherNext]_<<vars, gatherVars>>

(* Every thread of the block and of the clear goes on when it can, and the *)
(* host does not stop between launches.                                    *)
FairGather ==
  /\ GatherSpec
  /\ \A t \in Threads : WF_<<vars, gatherVars>>(Work(t))
  /\ \A c \in Cand : WF_<<vars, gatherVars>>(Clear(c))
  /\ WF_<<vars, gatherVars>>(LaunchOver \/ Sort)
----------------------------------------------------------------------------
(* The kernel implements a round of the table: every candidate of the rows *)
(* goes through gen_das_insert once, by whichever tier and thread, and the *)
(* clear is launched over just the labels whose insert returned 1.         *)
ImplementsRound == Spec

(* T_after has no gap and no label twice: the spaces that teams reserve    *)
(* with one atomicAdd each are filled, whatever warp is ahead, and what    *)
(* lies in them is what the host counts.                                   *)
Compacted ==
  phase # "gather" =>
    /\ DOMAIN TAfter = 0 .. TAfterOffset - 1
    /\ \A i, j \in DOMAIN TAfter : TAfter[i] = TAfter[j] => i = j
    /\ Packed = Claimers
=============================================================================
