----------------------------- MODULE KnowledgeSync -----------------------------
(***************************************************************************)
(* MKKnowledgeSync on several devices.  What a device sends may be lost,   *)
(* late, repeated and out of order; it marks what it sent as synced when   *)
(* the answer arrives.  The clocks agree.  Trimming a full queue is left   *)
(* out: it takes away what was attempted often, and nothing counts that.   *)
(***************************************************************************)
EXTENDS Integers, Sequences, FiniteSets, Functions, SequencesExt

CONSTANTS
    Devices,
    FactIds,
    Priorities,
    MaxClock,        \* bound on the clock
    MaxQueued        \* bound on the facts queued on all devices

ASSUME SyncAssumption ==
    /\ Priorities \subseteq Nat
    /\ {MaxClock, MaxQueued} \subseteq Nat \ {0}

VARIABLES
    clock,
    queue,           \* device -> sequence of [version, synced]
    syncedFacts,     \* device -> the versions it accepted, at most one of an id
    lastSync,        \* device -> peer -> time
    awaiting,        \* device -> the answer it waits for: <<>> or <<peer, ids>>
    inFlight,        \* [to, version]: sent, and not lost
    heard            \* device -> every version it ever received

syncVars == <<clock, queue, syncedFacts, lastSync, awaiting, inFlight, heard>>

SyncInit ==
    /\ clock = 1
    /\ queue = [d \in Devices |-> <<>>] /\ syncedFacts = [d \in Devices |-> {}]
    /\ lastSync = [d \in Devices |-> [p \in Devices |-> 0]]
    /\ awaiting = [d \in Devices |-> <<>>] /\ inFlight = {}
    /\ heard = [d \in Devices |-> {}]

-----------------------------------------------------------------------------
(* Corrections by the user come first and among them the latest; else the   *)
(* higher priority and then the latest.  A tie leaves the local version.    *)
RemoteWins(local, remote) ==
    \/ remote.corrected /\ ~local.corrected
    \/ remote.corrected = local.corrected
         /\ IF local.corrected \/ remote.priority = local.priority
              THEN remote.learned > local.learned
              ELSE remote.priority > local.priority

\* Variant: the priority counts between corrections too.
RemoteOutranks(local, remote) ==
    \/ remote.corrected /\ ~local.corrected
    \/ remote.priority > local.priority
    \/ remote.priority = local.priority /\ remote.learned > local.learned

ResolveByRank(local, remote) == IF RemoteOutranks(local, remote) THEN remote ELSE local
Resolve(local, remote) == IF RemoteWins(local, remote) THEN remote ELSE local

(* A fact whose id was ever queued here is not queued again. *)
QueueFact(d, id, priority, corrected) ==
    /\ \A i \in DOMAIN queue[d] : queue[d][i].version.id # id
    /\ FoldFunction(LAMBDA q, n : n + Len(q), 0, queue) < MaxQueued
    /\ queue' = [queue EXCEPT ![d] = Append(@, [synced |-> FALSE, version |->
                   [id |-> id, origin |-> d, priority |-> priority,
                    corrected |-> corrected, learned |-> clock]])]
    /\ UNCHANGED <<clock, syncedFacts, lastSync, awaiting, inFlight, heard>>

(* Marked as synced is marked for every peer. *)
FactsForPeer(d, p) ==
    {queue[d][i].version : i \in {j \in DOMAIN queue[d] :
        ~queue[d][j].synced /\ queue[d][j].version.learned > lastSync[d][p]}}

SendFacts(d, p) ==
    /\ d # p /\ awaiting[d] = <<>> /\ FactsForPeer(d, p) # {}
    /\ \/ inFlight' = inFlight \cup [to : {p}, version : FactsForPeer(d, p)]
       \/ UNCHANGED inFlight
    /\ awaiting' = [awaiting EXCEPT ![d] = <<p, {v.id : v \in FactsForPeer(d, p)}>>]
    /\ UNCHANGED <<clock, queue, syncedFacts, lastSync, heard>>

(* An answer comes only when the facts arrived. *)
MarkSynced(d) ==
    /\ awaiting[d] # <<>>
    /\ \A v \in FactsForPeer(d, awaiting[d][1]) :
          v.id \in awaiting[d][2] => [to |-> awaiting[d][1], version |-> v] \in inFlight
    /\ queue' = [queue EXCEPT ![d] = [i \in DOMAIN @ |->
                   IF @[i].version.id \in awaiting[d][2] THEN [@[i] EXCEPT !.synced = TRUE]
                   ELSE @[i]]]
    /\ lastSync' = [lastSync EXCEPT ![d][awaiting[d][1]] = clock]
    /\ awaiting' = [awaiting EXCEPT ![d] = <<>>]
    /\ UNCHANGED <<clock, syncedFacts, inFlight, heard>>

NoAnswer(d) ==
    /\ awaiting[d] # <<>> /\ awaiting' = [awaiting EXCEPT ![d] = <<>>]
    /\ UNCHANGED <<clock, queue, syncedFacts, lastSync, inFlight, heard>>

(* What the device itself queued is not looked at. *)
ReceiveFact(d, v) ==
    LET same == {u \in syncedFacts[d] : u.id = v.id}
        kept == IF same = {} THEN {v} ELSE {Resolve(u, v) : u \in same}
    IN  /\ [to |-> d, version |-> v] \in inFlight
        /\ syncedFacts' = [syncedFacts EXCEPT ![d] = (@ \ same) \cup kept]
        /\ heard' = [heard EXCEPT ![d] = @ \cup {v}]
        /\ UNCHANGED <<clock, queue, lastSync, awaiting, inFlight>>

Tick ==
    /\ clock < MaxClock /\ clock' = clock + 1
    /\ UNCHANGED <<queue, syncedFacts, lastSync, awaiting, inFlight, heard>>

SyncNext ==
    \/ \E d \in Devices :
         \/ \E id \in FactIds, n \in Priorities, b \in BOOLEAN : QueueFact(d, id, n, b)
         \/ \E v \in {m.version : m \in inFlight} : ReceiveFact(d, v)
         \/ \E p \in Devices : SendFacts(d, p)
         \/ MarkSynced(d) \/ NoAnswer(d)
    \/ Tick

SyncSpec == SyncInit /\ [][SyncNext]_syncVars

-----------------------------------------------------------------------------
(* What the three documented rules say of two versions: user corrections    *)
(* first, then, without one, the priority, then the time.                    *)
Standing(v) == <<IF v.corrected THEN 1 ELSE 0, IF v.corrected THEN 0 ELSE v.priority, v.learned>>
Better(v, u) ==
    \E i \in 1 .. 3 : /\ Standing(v)[i] > Standing(u)[i]
                      /\ \A j \in 1 .. i - 1 : Standing(v)[j] = Standing(u)[j]

(* However versions of a fact arrive, late, twice or out of order, a device *)
(* holds one that none it ever received should replace.                     *)
BestVersionHeld ==
    \A d \in Devices : \A v \in heard[d] :
       \E u \in syncedFacts[d] : u.id = v.id /\ ~Better(v, u)
=============================================================================
