--------------------------- MODULE ServiceManager ---------------------------
(***************************************************************************)
(* ServiceManager: services with dependencies, started one by one or all   *)
(* in the order compute_startup_order() finds.  A dependency may be        *)
(* unknown, disabled or circular.  Process numbers, times, health records  *)
(* and logs are left out: a health check always succeeds and changes       *)
(* nothing else.                                                           *)
(***************************************************************************)
EXTENDS Integers, Sequences, FiniteSets, Functions, Lists

CONSTANTS
    Services,      \* the names, as numbers: the order of the map
    DependencySets,\* for each name, the dependencies it may be registered with
    MaxRestarts    \* max_restarts

ASSUME ServiceAssumption == 
    /\ Services \subseteq Nat /\ IsFiniteSet(Services)
    /\ DependencySets \in [Services -> SUBSET SUBSET Services]
    /\ MaxRestarts \in Nat

VARIABLES
    registered,
    dependencies, status, enabled, restartCount,   \* of each name registered
    startupOrder,
    startAll       \* what start_all returned, if it was the last call

svcVars == <<registered, dependencies, status, enabled, restartCount, startupOrder, startAll>>

SvcInit ==
    /\ registered = {}
    /\ dependencies = [s \in Services |-> {}]
    /\ status = [s \in Services |-> "STOPPED"]
    /\ enabled = [s \in Services |-> TRUE]
    /\ restartCount = [s \in Services |-> 0]
    /\ startupOrder = <<>> /\ startAll = "none"

-----------------------------------------------------------------------------
RunningIn(st) == {s \in registered : st[s] = "RUNNING"}

(* start_service and stop_service as functions of the statuses. *)
Started(st, s) ==
    IF s \in registered /\ enabled[s] /\ dependencies[s] \subseteq RunningIn(st)
      THEN [st EXCEPT ![s] = "RUNNING"] ELSE st

Stopped(st, s) == IF s \in RunningIn(st) THEN [st EXCEPT ![s] = "STOPPED"] ELSE st

(* compute_startup_order over the enabled services: those without an open    *)
(* dependency wait in a queue; taking one may free some of its dependents.   *)
EnabledServices == {s \in registered : enabled[s]}
Known(s)        == dependencies[s] \cap EnabledServices

\* Variant: a service is freed by the first of its dependencies.
FreedByOne(s, order, ready) ==
    {t \in EnabledServices : s \in Known(t)} \ Range(order \o ready)

Freed(s, order, ready) ==
    {t \in EnabledServices : s \in Known(t) /\ Known(t) \subseteq Range(order)}

(* The first of those that wait is put in order.                             *)
NextOrdered(q) ==
    LET s == Head(q.ready)
        o == Append(q.order, s)
    IN  IF q.ready = <<>> THEN q
        ELSE [order |-> o, ready |-> Tail(q.ready) \o Ascending(Freed(s, o, q.ready))]

ComputeStartupOrder ==
    LET turn[k \in 0 .. Cardinality(EnabledServices)] ==
          IF k = 0
            THEN [order |-> <<>>,
                  ready |-> Ascending({s \in EnabledServices : Known(s) = {}})]
            ELSE NextOrdered(turn[k - 1])
    IN  turn[Cardinality(EnabledServices)].order

(* start_service for each in turn, whatever became of those before.          *)
StartedInOrder(order) ==
    LET st[k \in 0 .. Len(order)] ==
          IF k = 0 THEN status ELSE Started(st[k - 1], order[k])
    IN  st[Len(order)]

-----------------------------------------------------------------------------
RegisterService(s, D) ==
    /\ s \notin registered
    /\ registered' = registered \cup {s}
    /\ dependencies' = [dependencies EXCEPT ![s] = D]
    /\ status' = [status EXCEPT ![s] = "STOPPED"]
    /\ enabled' = [enabled EXCEPT ![s] = TRUE]
    /\ restartCount' = [restartCount EXCEPT ![s] = 0]
    /\ startAll' = "none" /\ UNCHANGED startupOrder

(* The record of the service is gone; those that depend on it stay. *)
UnregisterService(s) ==
    /\ s \in registered
    /\ registered' = registered \ {s}
    /\ dependencies' = [dependencies EXCEPT ![s] = {}]
    /\ status' = [status EXCEPT ![s] = "STOPPED"]
    /\ enabled' = [enabled EXCEPT ![s] = TRUE]
    /\ restartCount' = [restartCount EXCEPT ![s] = 0]
    /\ startAll' = "none" /\ UNCHANGED startupOrder

Restyled(st) ==
    /\ status' = st
    /\ startAll' = "none"
    /\ UNCHANGED <<registered, dependencies, startupOrder>>

StartService(s)   == Restyled(Started(status, s)) /\ UNCHANGED <<enabled, restartCount>>
StopService(s)    == Restyled(Stopped(status, s)) /\ UNCHANGED <<enabled, restartCount>>
RestartService(s) == /\ Restyled(Started(Stopped(status, s), s))
                     /\ UNCHANGED <<enabled, restartCount>>

(* handle_crash: what cannot be started again is left RESTARTING. *)
HandleCrash(s) ==
    /\ s \in registered
    /\ IF restartCount[s] < MaxRestarts
         THEN /\ restartCount' = [restartCount EXCEPT ![s] = @ + 1]
              /\ Restyled(Started([status EXCEPT ![s] = "RESTARTING"], s))
         ELSE /\ Restyled([status EXCEPT ![s] = "CRASHED"])
              /\ UNCHANGED restartCount
    /\ UNCHANGED enabled

EnableService(s) ==
    /\ s \in registered
    /\ enabled' = [enabled EXCEPT ![s] = TRUE]
    /\ Restyled(status) /\ UNCHANGED restartCount

DisableService(s) ==
    /\ s \in registered
    /\ enabled' = [enabled EXCEPT ![s] = FALSE]
    /\ Restyled([status EXCEPT ![s] = "DISABLED"]) /\ UNCHANGED restartCount

StartAll ==
    /\ startupOrder' = ComputeStartupOrder
    /\ IF Len(startupOrder') = Cardinality(EnabledServices)
         THEN /\ startAll' = "started"
              /\ status' = StartedInOrder(startupOrder')
         ELSE startAll' = "circular" /\ UNCHANGED status
    /\ UNCHANGED <<registered, dependencies, enabled, restartCount>>

(* shutdown_all: only what the last start_all put in order is stopped; one   *)
(* by one, but whether a service stops does not depend on the others.        *)
ShutdownAll ==
    /\ Restyled([s \in Services |-> IF s \in Range(startupOrder) THEN Stopped(status, s)[s]
                                    ELSE status[s]])
    /\ UNCHANGED <<enabled, restartCount>>

SvcNext ==
    \/ \E s \in Services : \E D \in DependencySets[s] : RegisterService(s, D)
    \/ \E s \in Services :
          \/ UnregisterService(s) \/ StartService(s) \/ StopService(s)
          \/ RestartService(s) \/ HandleCrash(s)
          \/ EnableService(s) \/ DisableService(s)
    \/ StartAll \/ ShutdownAll

SvcSpec == SvcInit /\ [][SvcNext]_svcVars

-----------------------------------------------------------------------------
(* Enabled services that wait for each other, and what could run at all: a   *)
(* service whose dependencies, and theirs, are registered and enabled.       *)
Circular == \E S \in (SUBSET EnabledServices) \ {{}} :
               \A s \in S : dependencies[s] \cap S # {}

CanRun(s) == \E S \in SUBSET EnabledServices :
                s \in S /\ \A t \in S : dependencies[t] \subseteq S

(* start_all returns false exactly when enabled services wait for each other *)
(* in a circle, and otherwise leaves every service running that can run.  It *)
(* tries each service once, so this is what the order it computes is for.    *)
StartAllComplete ==
    /\ startAll = "circular" => Circular
    /\ startAll = "started"  => /\ ~ Circular
                                /\ {s \in Services : CanRun(s)} \subseteq RunningIn(status)
=============================================================================
