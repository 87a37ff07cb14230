----------------------------- MODULE VectorSearch -----------------------------
(***************************************************************************)
(* The vector index of the brain and the clusters that its approximate      *)
(* search goes by.  An embedding is a member of a small set: into which     *)
(* cluster it falls is left open, as the centroids are means of floats.     *)
(***************************************************************************)
EXTENDS Naturals, Sequences, FiniteSets

CONSTANTS
    Embeddings,     \* the vectors of the right length
    MostClusters,   \* the clusters there are at first (16)
    MaxVectors      \* bound on the index

ASSUME VectorAssumption == MostClusters \in Nat \ {0} /\ MaxVectors \in Nat

VARIABLES
    index,          \* the entries: id and embedding
    nextId,
    numClusters,    \* only ever goes down
    clusterMembers, \* cluster -> the places in the index that fell into it
    ivfBuilt,
    savedIndex      \* the file: <<>>, or << the entries >>

vectorVars == <<index, nextId, numClusters, clusterMembers, ivfBuilt, savedIndex>>

VectorInit ==
    /\ index = <<>> /\ nextId = 0
    /\ numClusters = MostClusters /\ clusterMembers = <<>> /\ ivfBuilt = FALSE
    /\ savedIndex = <<>>

-----------------------------------------------------------------------------
(* Vectors of another length are refused.                                  *)
AddVector(e) ==
    /\ Len(index) < MaxVectors                              \* the bound
    /\ index' = Append(index, [id |-> nextId, embedding |-> e])
    /\ nextId' = nextId + 1
    /\ ivfBuilt' = FALSE
    /\ UNCHANGED <<numClusters, clusterMembers, savedIndex>>

Fewer(m, n) == IF m <= n THEN m ELSE n

(* Three rounds of assigning every entry to its nearest centroid and moving *)
(* the centroids, of which the last is what stays.  Equal vectors fall into *)
(* the same cluster.                                                       *)
BuildIndex ==
    /\ index # <<>>
    /\ numClusters' = Fewer(numClusters, Len(index))
    /\ \E nearest \in [Embeddings -> 1 .. numClusters'] :
          clusterMembers' = [c \in 1 .. numClusters' |->
                                {i \in DOMAIN index : nearest[index[i].embedding] = c}]
    /\ ivfBuilt' = TRUE
    /\ UNCHANGED <<index, nextId, savedIndex>>

(* A search that finds the clusters stale builds them first.               *)
SearchApproximate == ~ivfBuilt /\ BuildIndex

SaveIndex ==
    /\ savedIndex' = <<index>>
    /\ UNCHANGED <<index, nextId, numClusters, clusterMembers, ivfBuilt>>

\* Variant: the clusters of the index that was there before stay.
LoadKeepsClusters ==
    /\ savedIndex # <<>>
    /\ index' = savedIndex[1]
    /\ nextId' = Len(savedIndex[1])
    /\ UNCHANGED <<numClusters, clusterMembers, ivfBuilt, savedIndex>>

LoadIndex ==
    /\ savedIndex # <<>>
    /\ index' = savedIndex[1]
    /\ nextId' = Len(savedIndex[1])
    /\ ivfBuilt' = FALSE
    /\ UNCHANGED <<numClusters, clusterMembers, savedIndex>>

VectorRestart ==
    /\ index' = <<>> /\ nextId' = 0
    /\ numClusters' = MostClusters /\ clusterMembers' = <<>> /\ ivfBuilt' = FALSE
    /\ UNCHANGED savedIndex

VectorNext ==
    \/ \E e \in Embeddings : AddVector(e)
    \/ BuildIndex \/ SearchApproximate \/ SaveIndex \/ LoadIndex \/ VectorRestart

VectorSpec == VectorInit /\ [][VectorNext]_vectorVars

-----------------------------------------------------------------------------
(* What an approximate search may look at: the members of the clusters it   *)
(* probes, while it believes the clusters.                                 *)
Probed(clusters) == UNION {clusterMembers[c] : c \in clusters}

(* However adding, building, saving and loading follow each other, a search *)
(* that trusts the clusters it finds reads no place outside the index, and  *)
(* one that probes them all misses no entry and meets none twice; and no    *)
(* two entries share an id (ann_search.cpp:106-321).                       *)
IndexCovers ==
    /\ ivfBuilt =>
          /\ DOMAIN clusterMembers = 1 .. numClusters
          /\ Probed(1 .. numClusters) = DOMAIN index
          /\ \A c, d \in 1 .. numClusters : c # d => clusterMembers[c] \cap clusterMembers[d] = {}
    /\ \A i, j \in DOMAIN index : i # j => index[i].id # index[j].id
=============================================================================
