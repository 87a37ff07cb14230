----------------------------- MODULE WeightPager -----------------------------
(***************************************************************************)
(* MKWeightPager: layers of a model in the slots of a fixed arena, the     *)
(* least recently used one out first, none while it is pinned.  Each call  *)
(* is one step, processPrefetch from the idle loop as its comment allows.  *)
(* A layer's file may be unreadable; sizes and counts are left out.        *)
(***************************************************************************)
EXTENDS Integers, Sequences, FiniteSets, Functions, SequencesExt, Lists

CONSTANTS
    MaxSlots,
    MaxLayer,       \* layers are 1 .. MaxLayer
    LookAhead,
    MaxQueue        \* bound on the prefetch queue

Layers == 1 .. MaxLayer
Slots  == 1 .. MaxSlots
NoLayer == 0

ASSUME PagerAssumption == {MaxSlots, MaxLayer, LookAhead, MaxQueue} \subseteq Nat \ {0}

VARIABLES
    layerRegistry,  \* the registered layers
    weightSlots,    \* slot -> [layer, occupied, pinned], layer: whose data it holds
    layerToSlot,    \* layer -> slot, 0 for none
    lruOrder,       \* layers, latest used first
    prefetchQueue

pagerVars == <<layerRegistry, weightSlots, layerToSlot, lruOrder, prefetchQueue>>

Pager == [slots |-> weightSlots, at |-> layerToSlot, lru |-> lruOrder]
SetPager(p) == weightSlots' = p.slots /\ layerToSlot' = p.at /\ lruOrder' = p.lru

PagerInit ==
    /\ layerRegistry = {}
    /\ weightSlots = [s \in Slots |-> [layer |-> NoLayer, occupied |-> FALSE, pinned |-> FALSE]]
    /\ layerToSlot = [l \in Layers |-> 0]
    /\ lruOrder = <<>> /\ prefetchQueue = <<>>

-----------------------------------------------------------------------------
FreeSlots(p) == {s \in Slots : ~p.slots[s].occupied}
Evictable(p) == {i \in DOMAIN p.lru : LET s == p.at[p.lru[i]] IN s # 0 /\ ~p.slots[s].pinned}

(* lruMap: the place of a layer in lruOrder, from which it is erased. *)
Place(lru, l)   == CHOOSE i \in DOMAIN lru : lru[i] = l
Erased(lru, l) == IF l \in Range(lru) THEN RemoveAt(lru, Place(lru, l)) ELSE lru

EvictLayer(p, l) ==
    [slots |-> [p.slots EXCEPT ![p.at[l]].occupied = FALSE, ![p.at[l]].pinned = FALSE],
     at    |-> [p.at EXCEPT ![l] = 0],
     lru   |-> Erased(p.lru, l)]

\* Variant: the victim keeps its entry in the page table.
FindSlotKeepingEntry(p) ==
    IF FreeSlots(p) # {} THEN [pager |-> p, slot |-> CHOOSE s \in FreeSlots(p) :
                                                       \A t \in FreeSlots(p) : s <= t]
    ELSE IF Evictable(p) = {} THEN [pager |-> p, slot |-> 0]
    ELSE LET victim == p.lru[Max(Evictable(p))]
         IN  [pager |-> [EvictLayer(p, victim) EXCEPT !.at = p.at], slot |-> p.at[victim]]

(* The first free slot, or that of the least recently used unpinned layer; *)
(* 0 when every slot is pinned.                                             *)
FindSlot(p) ==
    IF FreeSlots(p) # {} THEN [pager |-> p, slot |-> CHOOSE s \in FreeSlots(p) :
                                                       \A t \in FreeSlots(p) : s <= t]
    ELSE IF Evictable(p) = {} THEN [pager |-> p, slot |-> 0]
    ELSE LET victim == p.lru[Max(Evictable(p))]
         IN  [pager |-> EvictLayer(p, victim), slot |-> p.at[victim]]

Touch(p, l) == [p EXCEPT !.lru = <<l>> \o Erased(p.lru, l)]

(* The victim is gone before the file is opened. *)
LoadInto(found, l, readable) ==
    IF found.slot = 0 \/ l \notin layerRegistry \/ ~readable THEN found.pager
    ELSE Touch([found.pager EXCEPT !.slots[found.slot] = [@ EXCEPT !.layer = l, !.occupied = TRUE],
                                   !.at[l] = found.slot], l)

-----------------------------------------------------------------------------
RegisterLayer(l) ==
    /\ l \notin layerRegistry /\ layerRegistry' = layerRegistry \cup {l}
    /\ UNCHANGED <<weightSlots, layerToSlot, lruOrder, prefetchQueue>>

AccessLayer(l, readable) ==
    /\ IF layerToSlot[l] # 0 THEN SetPager(Touch(Pager, l))
       ELSE SetPager(LoadInto(FindSlot(Pager), l, readable))
    /\ UNCHANGED <<layerRegistry, prefetchQueue>>

SetPin(l, on) ==
    /\ layerToSlot[l] # 0
    /\ weightSlots' = [weightSlots EXCEPT ![layerToSlot[l]].pinned = on]
    /\ UNCHANGED <<layerRegistry, layerToSlot, lruOrder, prefetchQueue>>

PrefetchHint(l) ==
    /\ layerToSlot[l] = 0
    /\ Len(prefetchQueue) < MaxQueue
    /\ prefetchQueue' = Append(prefetchQueue, l)
    /\ UNCHANGED <<layerRegistry, weightSlots, layerToSlot, lruOrder>>

(* The layers after the current one that are registered and not cached, in *)
(* their order.                                                             *)
Ahead(l) == {k \in (l + 1 .. l + LookAhead) \cap layerRegistry : layerToSlot[k] = 0}

PrefetchSequential(l) ==
    /\ Len(prefetchQueue) + Cardinality(Ahead(l)) <= MaxQueue
    /\ prefetchQueue' = prefetchQueue \o Ascending(Ahead(l))
    /\ UNCHANGED <<layerRegistry, weightSlots, layerToSlot, lruOrder>>

Prefetched(w, l, readable) ==
    IF w.stopped \/ w.pager.at[l] # 0 THEN w
    ELSE LET found == FindSlot(w.pager)
         IN  [pager |-> LoadInto(found, l, readable), stopped |-> found.slot = 0]

(* Once every slot is pinned the rest of the queue is dropped. *)
ProcessPrefetch(unreadable) ==
    LET loop[i \in 0 .. Len(prefetchQueue)] ==
            IF i = 0 THEN [pager |-> Pager, stopped |-> FALSE]
            ELSE Prefetched(loop[i - 1], prefetchQueue[i], prefetchQueue[i] \notin unreadable)
    IN  /\ prefetchQueue # <<>> /\ prefetchQueue' = <<>>
        /\ SetPager(loop[Len(prefetchQueue)].pager)
        /\ UNCHANGED layerRegistry

PagerNext ==
    \/ \E l \in Layers :
         \/ RegisterLayer(l) \/ PrefetchHint(l) \/ PrefetchSequential(l)
         \/ \E b \in BOOLEAN : AccessLayer(l, b) \/ SetPin(l, b)
    \/ \E unreadable \in SUBSET Layers : ProcessPrefetch(unreadable)

PagerSpec == PagerInit /\ [][PagerNext]_pagerVars

-----------------------------------------------------------------------------
(* The page table, the slots and the order of use agree: a mapped layer     *)
(* finds its own data in its slot, and exactly the mapped layers are ever   *)
(* candidates for eviction, over loads that fail after an eviction, pins    *)
(* that leave no slot, and a prefetch cut short.                            *)
MappedWhereLoaded ==
    /\ \A l \in Layers : layerToSlot[l] # 0 =>
          weightSlots[layerToSlot[l]].layer = l /\ weightSlots[layerToSlot[l]].occupied
    /\ \A s \in Slots : weightSlots[s].pinned \/ weightSlots[s].occupied =>
          layerToSlot[weightSlots[s].layer] = s
    /\ Range(lruOrder) = {l \in Layers : layerToSlot[l] # 0} /\ IsInjective(lruOrder)
=============================================================================
