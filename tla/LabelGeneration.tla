-------------------------- MODULE LabelGeneration --------------------------
(***************************************************************************)
(* The generation loop of main.cu: every group goes to the executor of     *)
(* pq_gen that has worked least, a CPU executor runs CpuLabelGen on it and *)
(* a GPU executor GpuLabelGen, and the time it took counts for it.  CPU    *)
(* labels go straight to L_hybrid; GPU labels pile up in the host buffer   *)
(* and are handed out when all groups are done.  The two generators never  *)
(* see each other's labels, nor those of another group, so only together   *)
(* can the labels answer every query.                                      *)
(***************************************************************************)
EXTENDS CpuLabelGen

CONSTANTS
  CoreCounts,   \* the pairs of CPU_Gen_Num and GPU_Gen_Num
  MaxTime       \* a group takes 1 .. MaxTime units of time

ASSUME CoreAssumption ==
  /\ CoreCounts \subseteq Nat \X Nat
  /\ \A c \in CoreCounts : c[1] + c[2] > 0
  /\ MaxTime \in Nat \ {0}

(* The GPU generator keeps the hop-0 label of a vertex on its first edge.   *)
ASSUME GpuGraphAssumption == \A g \in Graphs : NoIsolated(g)

VARIABLES
  gpc, hop, T, lastPos, lastSize, begin, end, has, totL, own,  \* GpuLabelGen
  hostL,    \* main's buffer L
  pqGen,    \* pq_gen, as a set of Executive_Core
  turn      \* x: the executor that has the current group

gpuVars == <<gpc, hop, T, lastPos, lastSize, begin, end, has, totL, own, hostL>>
cpuVars == <<cpuType, driver, tasks, finished, pc, vk, used, loop, Qid, Temp,
             distHop, Vh, L, snap>>
genVars == <<vars, gpuVars, pqGen, turn>>

GPU == INSTANCE GpuLabelGen WITH pc <- gpc, L <- hostL

NoTurn == [id |-> -1, time |-> 0, type |-> -1]
----------------------------------------------------------------------------
(* operator < of Executive_Core: the top has the least time_use, and of    *)
(* several the least id.                                                   *)
MutAbove(a, b) == a.id < b.id \/ (a.id = b.id /\ a.time < b.time)
Above(a, b) == a.time < b.time \/ (a.time = b.time /\ a.id < b.id)

Dispatch ==
  /\ turn = NoTurn /\ gid <= Len(groups)
  /\ turn' = CHOOSE x \in pqGen : \A y \in pqGen \ {x} : Above(x, y)
  /\ pqGen' = pqGen \ {turn'}
  /\ UNCHANGED <<vars, gpuVars>>

(* The executor goes back with the time the group took.                    *)
GiveBack ==
  /\ \E d \in 1 .. MaxTime :
       pqGen' = pqGen \cup {[turn EXCEPT !.time = @ + d]}
  /\ turn' = NoTurn

OnCpu ==
  /\ turn.type = 0
  /\ \/ /\ StartGroup \/ \E t \in Workers : Step(t)
        /\ UNCHANGED <<pqGen, turn>>
     \/ CollectGroup /\ GiveBack
  /\ UNCHANGED gpuVars

OnGpu ==
  /\ turn.type = 1
  /\ \/ /\ GPU!StartGroup \/ GPU!Expand \/ GPU!Prune \/ GPU!UpdateHash
        /\ UNCHANGED <<pqGen, turn>>
     \/ GPU!FinishGroup /\ GiveBack
  /\ UNCHANGED cpuVars

(* After the loop, L[0 .. tot_L - 1] is handed out.                        *)
Convert == turn = NoTurn /\ GPU!Collect /\ UNCHANGED <<cpuVars, pqGen, turn>>

GenerationDone == gpc = "done" /\ UNCHANGED genVars

GenerationInit ==
  /\ Init
  /\ GPU!Init
  /\ \E c \in CoreCounts :
       pqGen = {[id |-> i, time |-> 0, type |-> IF i < c[2] THEN 1 ELSE 0] :
                  i \in 0 .. c[1] + c[2] - 1}
  /\ turn = NoTurn

GenerationNext == Dispatch \/ OnCpu \/ OnGpu \/ Convert \/ GenerationDone

(* main and each worker of the pool go on when they can.                   *)
GenerationFairness ==
  /\ WF_genVars(Dispatch \/ OnGpu \/ Convert)
  /\ WF_genVars(OnCpu /\ (StartGroup \/ CollectGroup))
  /\ \A t \in Workers : WF_genVars(OnCpu /\ Step(t))

GenerationSpec ==
  GenerationInit /\ [][GenerationNext]_genVars /\ GenerationFairness
----------------------------------------------------------------------------
(* When the groups are done, the labels of the CPU's groups in L_hybrid    *)
(* and those of the GPU's groups in the host buffer together answer every  *)
(* query within hop_cst, whichever executor had which group and whatever   *)
(* the threads of the pool did meanwhile.                                  *)
MixedCover ==
  (gpc = "idle" /\ gid > Len(groups) /\ own) =>
    Covers([v \in Vertices |-> ToSet(LHybrid[v]) \cup GPU!Offloaded[v]], w)

(* The README's claim that the priority queue balances the work: between   *)
(* two groups no executor is ahead of another by more than one group.      *)
Balanced ==
  turn = NoTurn => \A a, b \in pqGen : a.time <= b.time + MaxTime

(* Every group is generated and handed out: no task, id or executor is     *)
(* waited for in vain.                                                     *)
GenerationEnds == <>(gpc = "done")
=============================================================================
