---------------------------- MODULE CowSnapshots ----------------------------
(***************************************************************************)
(* MKCoWSnapshots: regions of memory whose pages are shared with the       *)
(* snapshots until they are written.  A page lives as long as its          *)
(* reference count says; a pointer is a page number, and one that is not   *)
(* in the heap dangles.  The modified flag is never read and left out.     *)
(***************************************************************************)
EXTENDS Integers, Sequences, FiniteSets, SequencesExt

CONSTANTS
    Contents,      \* what a page may hold
    Zeroed,        \* what a new page holds
    PageSizes,     \* sizes a region may have
    SnapNames,     \* names of snapshots
    MaxMemory,     \* maxMemory, the budget
    MaxPages,      \* bound on the pages ever allocated
    MaxSnaps       \* bound on the snapshots ever taken

ASSUME CowAssumption ==
    /\ Zeroed \in Contents
    /\ PageSizes \subseteq Nat \ {0}
    /\ {MaxMemory, MaxPages, MaxSnaps} \subseteq Nat

VARIABLES
    heap,          \* page -> [data, size, refs]
    livePages,     \* region -> page
    snapshots,     \* sequence of [id, name, table], table: region -> page
    nextPageId, nextSnapId,
    usedMemory

cowVars == <<heap, livePages, snapshots, nextPageId, nextSnapId, usedMemory>>

CowInit ==
    /\ heap = <<>> /\ livePages = <<>> /\ snapshots = <<>>
    /\ nextPageId = 1 /\ nextSnapId = 1 /\ usedMemory = 0

With(f, k, v)    == [x \in DOMAIN f \cup {k} |-> IF x = k THEN v ELSE f[x]]
Keep(f, D)       == [x \in D |-> f[x]]
Pointers(t, p)   == Cardinality({r \in DOMAIN t : t[r] = p})

(* The heap when every pointer of t is counted once more, or, by -1, once    *)
(* less; pages that nobody refers to go.                                     *)
Counted(h, t, by) ==
    LET g == [p \in DOMAIN h |-> [h[p] EXCEPT !.refs = @ + by * Pointers(t, p)]]
    IN  Keep(g, {p \in DOMAIN g : g[p].refs > 0})

(* What the sizes of the pages add up to: each byte of each page counts.     *)
BytesOf(h) == UNION {{p} \X (1 .. h[p].size) : p \in DOMAIN h}
Bytes(h)   == Cardinality(BytesOf(h))

CanAllocate(size) == usedMemory + size <= MaxMemory /\ nextPageId <= MaxPages

-----------------------------------------------------------------------------
CreateRegion(size) ==
    /\ CanAllocate(size)
    /\ heap' = With(heap, nextPageId, [data |-> Zeroed, size |-> size, refs |-> 1])
    /\ livePages' = With(livePages, nextPageId, nextPageId)
    /\ nextPageId' = nextPageId + 1
    /\ usedMemory' = usedMemory + size
    /\ UNCHANGED <<snapshots, nextSnapId>>

\* Variant: the page is written in place, whoever else refers to it.
WriteShared(r, d, fits) ==
    /\ r \in DOMAIN livePages /\ fits
    /\ heap' = [heap EXCEPT ![livePages[r]].data = d]
    /\ UNCHANGED <<livePages, snapshots, nextPageId, nextSnapId, usedMemory>>

\* Variant: the original keeps the reference of the region that left it.
WriteLeaking(r, d, fits) ==
    /\ r \in DOMAIN livePages
    /\ LET p == livePages[r]
       IN  IF heap[p].refs = 1
             THEN /\ fits /\ heap' = [heap EXCEPT ![p].data = d]
                  /\ UNCHANGED <<livePages, nextPageId, usedMemory>>
             ELSE /\ CanAllocate(heap[p].size)
                  /\ heap' = With(heap, nextPageId, [data |-> d, size |-> heap[p].size, refs |-> 1])
                  /\ livePages' = [livePages EXCEPT ![r] = nextPageId]
                  /\ nextPageId' = nextPageId + 1
                  /\ usedMemory' = usedMemory + heap[p].size
    /\ UNCHANGED <<snapshots, nextSnapId>>

(* A shared page is cloned before the bounds of the write are looked at. *)
WriteRegion(r, d, fits) ==
    /\ r \in DOMAIN livePages
    /\ LET p       == livePages[r]
           written == IF fits THEN d ELSE heap[p].data
           left    == [heap EXCEPT ![p].refs = @ - 1]
       IN  IF heap[p].refs = 1
             THEN /\ heap' = [heap EXCEPT ![p].data = written]
                  /\ UNCHANGED <<livePages, nextPageId, usedMemory>>
             ELSE /\ CanAllocate(heap[p].size)
                  /\ heap' = With(left, nextPageId,
                                  [data |-> written, size |-> heap[p].size, refs |-> 1])
                  /\ livePages' = [livePages EXCEPT ![r] = nextPageId]
                  /\ nextPageId' = nextPageId + 1
                  /\ usedMemory' = usedMemory + heap[p].size
    /\ UNCHANGED <<snapshots, nextSnapId>>

TakeSnapshot(n) ==
    /\ nextSnapId <= MaxSnaps
    /\ heap' = Counted(heap, livePages, 1)
    /\ snapshots' = Append(snapshots, [id |-> nextSnapId, name |-> n, table |-> livePages])
    /\ nextSnapId' = nextSnapId + 1
    /\ UNCHANGED <<livePages, nextPageId, usedMemory>>

(* The first snapshot of that name. *)
Named(n)  == {i \in DOMAIN snapshots : snapshots[i].name = n}
First(n)  == CHOOSE i \in Named(n) : \A j \in Named(n) : i <= j

(* The live pages are released before those of the snapshot are shared. *)
Rollback(n) ==
    /\ Named(n) # {}
    /\ LET table    == snapshots[First(n)].table
           released == Counted(heap, livePages, -1)
       IN  /\ heap' = Counted(released, table, 1)
           /\ usedMemory' = usedMemory - Bytes(Keep(heap, DOMAIN heap \ DOMAIN released))
           /\ livePages' = table
    /\ UNCHANGED <<snapshots, nextPageId, nextSnapId>>

(* rollbackById looks the number up and rolls back to the name it finds. *)
RollbackById(k) ==
    \E i \in DOMAIN snapshots : snapshots[i].id = k /\ Rollback(snapshots[i].name)

DeleteSnapshot(n) ==
    /\ Named(n) # {}
    /\ LET left == Counted(heap, snapshots[First(n)].table, -1)
       IN  /\ heap' = left
           /\ usedMemory' = usedMemory - Bytes(Keep(heap, DOMAIN heap \ DOMAIN left))
    /\ snapshots' = RemoveAt(snapshots, First(n))
    /\ UNCHANGED <<livePages, nextPageId, nextSnapId>>

CowNext ==
    \/ \E s \in PageSizes : CreateRegion(s)
    \/ \E r \in DOMAIN livePages, d \in Contents, fits \in BOOLEAN : WriteRegion(r, d, fits)
    \/ \E n \in SnapNames : TakeSnapshot(n) \/ Rollback(n) \/ DeleteSnapshot(n)
    \/ \E k \in 1 .. nextSnapId - 1 : RollbackById(k)

CowSpec == CowInit /\ [][CowNext]_cowVars

-----------------------------------------------------------------------------
Owners      == {<<0, livePages>>} \cup {<<s.id, s.table>> : s \in ToSet(snapshots)}
Pointing(owners, p) ==
    UNION {{<<o[1], r>> : r \in {x \in DOMAIN o[2] : o[2][x] = p}} : o \in owners}

(* Every page is counted by exactly the regions, live (0) or of a snapshot   *)
(* (its id), that point to it, none dangles and none is leaked.              *)
PagesCounted ==
    /\ \A p \in DOMAIN heap :
           heap[p].refs = Cardinality(Pointing(Owners, p)) /\ heap[p].refs > 0
    /\ \A o \in Owners : \A r \in DOMAIN o[2] : o[2][r] \in DOMAIN heap

(* And the memory in use is theirs: allocation, cloning, release, rollback   *)
(* and deletion each do their own counting.                                  *)
PagesAccounted == PagesCounted /\ usedMemory = Bytes(heap)

Frozen(h, s) == [r \in DOMAIN s.table |-> h[s.table[r]].data]

(* What a snapshot captured never changes while it is kept, whatever is      *)
(* written, rolled back or deleted around it.                                *)
SnapshotsKept ==
    [][\A i \in DOMAIN snapshots, j \in DOMAIN snapshots' :
          snapshots[i].id = snapshots'[j].id =>
             Frozen(heap, snapshots[i]) = Frozen(heap', snapshots'[j])]_cowVars
=============================================================================
