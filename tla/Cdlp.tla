------------------------------- MODULE Cdlp -------------------------------
(***************************************************************************)
(* Size-constrained label propagation on the GPU (cdlp_gpu.cuh).  In every *)
(* iteration each vertex looks at its neighbours' labels in sorted order   *)
(* and takes the first whose community has room, with a read and a         *)
(* compare-and-swap on the community's counter; when none has room it      *)
(* falls back to its own id.  Each access to a counter is a step.          *)
(***************************************************************************)
EXTENDS Integers, FiniteSets, FiniteSetsExt

CONSTANTS
  N,            \* number of vertices
  Graphs,       \* the adjacency functions an instance explores
  MaxGroup,     \* MAX_GROUP_SIZE
  Iterations    \* CD_ITERATION (1000 in the code)

Vertices == 0 .. N - 1

ASSUME CdlpAssumption ==
  /\ N \in Nat \ {0} /\ MaxGroup \in Nat \ {0} /\ Iterations \in Nat
  /\ Graphs \subseteq [Vertices -> SUBSET Vertices]

VARIABLES
  adj,        \* the neighbours of each vertex, fixed by Init
  labels,     \* labels
  newLabels,  \* new_labels
  size,       \* community_size
  it,         \* number of iterations
  pc,         \* what the thread of a vertex does next
  offers,     \* the neighbours' labels it has still to try
  seen        \* current_size

vars == <<adj, labels, newLabels, size, it, pc, offers, seen>>
----------------------------------------------------------------------------
(* LabelPropagation, the segmented sort and the reset of the counters.     *)
Propagate ==
  /\ it < Iterations /\ \A v \in Vertices : pc[v] = "wait"
  /\ offers' = [v \in Vertices |-> {labels[u] : u \in adj[v]}]
  /\ size' = [l \in Vertices |-> 0]
  /\ pc' = [v \in Vertices |-> "read"]
  /\ UNCHANGED <<adj, labels, newLabels, it, seen>>

Full(l) == size[l] >= MaxGroup

(* The sorted labels are tried in their order; then the own id is left.    *)
Own(v) == offers[v] = {}
Offer(v) == IF Own(v) THEN v ELSE Min(offers[v])

Take(v) == /\ newLabels' = [newLabels EXCEPT ![v] = Offer(v)]
           /\ pc' = [pc EXCEPT ![v] = "end"]

(* current_size = atomicAdd(&community_size[label], 0): a full community   *)
(* sends the vertex to its next label; its own it takes all the same.      *)
Read(v) ==
  /\ pc[v] = "read"
  /\ LET l == Offer(v)
     IN  \/ /\ ~Full(l)
            /\ seen' = [seen EXCEPT ![v] = size[l]]
            /\ pc' = [pc EXCEPT ![v] = "swap"]
            /\ UNCHANGED <<newLabels, offers>>
         \/ /\ Full(l) /\ ~Own(v)
            /\ offers' = [offers EXCEPT ![v] = @ \ {l}]
            /\ UNCHANGED <<newLabels, pc, seen>>
         \/ /\ Full(l) /\ Own(v)
            /\ Take(v)
            /\ UNCHANGED <<offers, seen>>
  /\ UNCHANGED <<adj, labels, size, it>>

(* atomicCAS(&community_size[label], current_size, current_size + 1).      *)
MutSwap(v) ==
  /\ pc[v] = "swap"
  /\ LET l == Offer(v)
     IN  size' = [size EXCEPT ![l] = seen[v] + 1] /\ Take(v)
  /\ UNCHANGED <<adj, labels, it, offers, seen>>
MutSwapGivesUp(v) ==
  /\ pc[v] = "swap"
  /\ LET l == Offer(v)
     IN  IF size[l] = seen[v]
         THEN size' = [size EXCEPT ![l] = @ + 1] /\ Take(v) /\ UNCHANGED offers
         ELSE /\ offers' = IF Own(v) THEN offers
                           ELSE [offers EXCEPT ![v] = @ \ {l}]
              /\ pc' = [pc EXCEPT ![v] = "read"]
              /\ UNCHANGED <<size, newLabels>>
  /\ UNCHANGED <<adj, labels, it, seen>>
MutSwapStale(v) ==
  /\ pc[v] = "swap"
  /\ LET l == Offer(v)
     IN  IF size[l] = seen[v]
         THEN size' = [size EXCEPT ![l] = @ + 1] /\ Take(v)
         ELSE UNCHANGED <<size, pc, newLabels>>
  /\ UNCHANGED <<adj, labels, it, offers, seen>>
Swap(v) ==
  /\ pc[v] = "swap"
  /\ LET l == Offer(v)
     IN  IF size[l] = seen[v]
         THEN size' = [size EXCEPT ![l] = @ + 1] /\ Take(v)
         ELSE /\ pc' = [pc EXCEPT ![v] = "read"]
              /\ UNCHANGED <<size, newLabels>>
  /\ UNCHANGED <<adj, labels, it, offers, seen>>

(* The host waits for the kernel and swaps labels and new_labels.          *)
EndIteration ==
  /\ \A v \in Vertices : pc[v] = "end"
  /\ labels' = newLabels /\ newLabels' = labels
  /\ it' = it + 1
  /\ pc' = [v \in Vertices |-> "wait"]
  /\ UNCHANGED <<adj, size, offers, seen>>

(* Label_init; the managed buffers the code leaves unwritten read as zero. *)
Init ==
  /\ adj \in Graphs
  /\ labels = [v \in Vertices |-> v]
  /\ newLabels = [v \in Vertices |-> 0]
  /\ size = [l \in Vertices |-> 0]
  /\ it = 0
  /\ pc = [v \in Vertices |-> "wait"]
  /\ offers = [v \in Vertices |-> {}]
  /\ seen = [v \in Vertices |-> 0]
----------------------------------------------------------------------------
Members(f, l) == {v \in Vertices : f[v] = l}

(* During a kernel a counter is the number of vertices that have taken the *)
(* community and never passes the bound: no take is lost or counted twice. *)
(* Not counted is only the vertex a full community is named after, which   *)
(* makes it one vertex too large whatever the order of the threads.        *)
CountersExact ==
  (\E v \in Vertices : pc[v] # "wait") =>
    \A l \in Vertices :
      LET in == {v \in Members(newLabels, l) : pc[v] = "end"}
      IN  /\ size[l] <= MaxGroup
          /\ \/ Cardinality(in) = size[l]
             \/ l \in in /\ size[l] = MaxGroup /\ Cardinality(in) = MaxGroup + 1

(* A vertex leaves its neighbourhood only when no neighbour's community    *)
(* had room: an atomic that another thread beat is tried again.            *)
FallbackOnlyWhenFull ==
  \A v \in Vertices :
    (pc[v] = "end" /\ newLabels[v] \notin {labels[u] : u \in adj[v]}) =>
      /\ newLabels[v] = v
      /\ \A u \in adj[v] : size[labels[u]] = MaxGroup
=============================================================================
