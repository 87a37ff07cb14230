----------------------------- MODULE NetworkStack -----------------------------
(***************************************************************************)
(* MK_Net::NetworkStack: socket numbers, the socket objects they stand     *)
(* for, the pool that hands connections on, the firewall's rules in order  *)
(* of priority and the cache of names.  A pool entry or a cached name      *)
(* expires when its time has passed, which may be at any call.  Bytes,     *)
(* rates, addresses and counters are left out; every host has one port.    *)
(***************************************************************************)
EXTENDS Integers, Sequences, FiniteSets, Functions, SequencesExt

CONSTANTS
    Hosts,
    MaxPerHost,     \* max_per_host_
    MaxTotal,       \* max_total_
    MaxRetries,     \* max_retries
    MaxNames,       \* max_entries_ of the name cache
    MaxSockets,     \* bound on the sockets ever created
    MaxRules        \* bound on the firewall's rules

AnyHost == "any"    \* a rule without a domain

ASSUME NetAssumption ==
    /\ AnyHost \notin Hosts
    /\ {MaxPerHost, MaxTotal, MaxRetries, MaxNames, MaxSockets, MaxRules} \subseteq Nat \ {0}

VARIABLES
    sockets,        \* sockets_: number -> object
    objects,        \* object -> [state, retries]
    pool,           \* pool_: sequence of [object, host, inUse]
    rules,          \* rules_: sequence of [domain, block, priority]
    names,          \* hosts in the name cache, oldest first
    nextSocketId

netVars == <<sockets, objects, pool, rules, names, nextSocketId>>

NetInit ==
    /\ sockets = <<>> /\ objects = <<>> /\ pool = <<>>
    /\ rules = <<>> /\ names = <<>> /\ nextSocketId = 1

-----------------------------------------------------------------------------
(* The first rule that matches decides; without one the host is allowed. *)
Blocked(h) ==
    LET matching == SelectSeq(rules, LAMBDA r : r.domain \in {h, AnyHost})
    IN  matching # <<>> /\ matching[1].block

(* A name not in the cache is stored, the oldest giving way when it is full. *)
Resolved(h) ==
    IF h \in Range(names) THEN names
    ELSE Append(IF Len(names) >= MaxNames THEN Tail(names) ELSE names, h)

Idle(h) == {i \in DOMAIN pool : pool[i].host = h /\ ~pool[i].inUse}

\* Variant: the connection handed on is not marked as taken.
TakenUnmarked(i) == pool
Taken(i) == [pool EXCEPT ![i].inUse = TRUE]

(* Added only while the pool and the host's share of it have room. *)
Pooled(o, h) ==
    IF Len(pool) >= MaxTotal \/ Cardinality({i \in DOMAIN pool : pool[i].host = h}) >= MaxPerHost
      THEN pool
      ELSE Append(pool, [object |-> o, host |-> h, inUse |-> TRUE])

(* Only the first entry of the socket is freed. *)
Released(o) ==
    LET of == {i \in DOMAIN pool : pool[i].object = o}
    IN  IF of = {} THEN pool
        ELSE [pool EXCEPT ![CHOOSE i \in of : \A j \in of : i <= j].inUse = FALSE]

-----------------------------------------------------------------------------
CreateSocket ==
    /\ nextSocketId <= MaxSockets /\ nextSocketId' = nextSocketId + 1
    /\ sockets' = [n \in DOMAIN sockets \cup {nextSocketId} |->
                     IF n = nextSocketId THEN nextSocketId ELSE sockets[n]]
    /\ objects' = Append(objects, [state |-> "CLOSED", retries |-> 0])
    /\ UNCHANGED <<pool, rules, names>>

ConnectBlocked(n, h) ==
    /\ n \in DOMAIN sockets /\ Blocked(h)
    /\ objects' = [objects EXCEPT ![sockets[n]].state = "ERROR"]
    /\ UNCHANGED <<sockets, pool, rules, names, nextSocketId>>

(* A pooled socket replaces the number's own, in whatever state it is. *)
ConnectPooled(n, h) ==
    /\ n \in DOMAIN sockets /\ ~Blocked(h) /\ Idle(h) # {}
    /\ LET i == CHOOSE j \in Idle(h) : \A k \in Idle(h) : j <= k
       IN  /\ sockets' = [sockets EXCEPT ![n] = pool[i].object]
           /\ pool' = Taken(i)
    /\ names' = Resolved(h)
    /\ UNCHANGED <<objects, rules, nextSocketId>>

ConnectNew(n, h) ==
    /\ n \in DOMAIN sockets /\ ~Blocked(h) /\ Idle(h) = {}
    /\ objects' = [objects EXCEPT ![sockets[n]].state = "CONNECTED"]
    /\ pool' = Pooled(sockets[n], h)
    /\ names' = Resolved(h)
    /\ UNCHANGED <<sockets, rules, nextSocketId>>

Listen(n) ==
    /\ n \in DOMAIN sockets
    /\ objects' = [objects EXCEPT ![sockets[n]].state = "LISTENING"]
    /\ UNCHANGED <<sockets, pool, rules, names, nextSocketId>>

CloseSocket(n) ==
    /\ n \in DOMAIN sockets
    /\ pool' = Released(sockets[n])
    /\ objects' = [objects EXCEPT ![sockets[n]].state = "CLOSED"]
    /\ sockets' = [m \in DOMAIN sockets \ {n} |-> sockets[m]]
    /\ UNCHANGED <<rules, names, nextSocketId>>

Reconnect(n) ==
    /\ n \in DOMAIN sockets
    /\ objects' = [objects EXCEPT ![sockets[n]] =
                     IF @.retries >= MaxRetries THEN [@ EXCEPT !.state = "ERROR"]
                     ELSE [state |-> "CONNECTED", retries |-> @.retries + 1]]
    /\ UNCHANGED <<sockets, pool, rules, names, nextSocketId>>

(* acquire and a full add drop what has been idle too long. *)
EvictIdle(i) ==
    /\ i \in DOMAIN pool /\ ~pool[i].inUse
    /\ pool' = RemoveAt(pool, i)
    /\ UNCHANGED <<sockets, objects, rules, names, nextSocketId>>

NameExpires(i) ==
    /\ i \in DOMAIN names /\ names' = RemoveAt(names, i)
    /\ UNCHANGED <<sockets, objects, pool, rules, nextSocketId>>

AddRule(r) ==
    LET higher == SelectSeq(rules, LAMBDA q : q.priority >= r.priority)
        lower  == SelectSeq(rules, LAMBDA q : q.priority < r.priority)
    IN  /\ Len(rules) < MaxRules
        /\ rules' = higher \o <<r>> \o lower
        /\ UNCHANGED <<sockets, objects, pool, names, nextSocketId>>

RemoveRule(i) ==
    /\ i \in DOMAIN rules /\ rules' = RemoveAt(rules, i)
    /\ UNCHANGED <<sockets, objects, pool, names, nextSocketId>>

NetNext ==
    \/ CreateSocket
    \/ \E n \in 1 .. MaxSockets :
         \/ Listen(n) \/ CloseSocket(n) \/ Reconnect(n)
         \/ \E h \in Hosts : ConnectBlocked(n, h) \/ ConnectPooled(n, h) \/ ConnectNew(n, h)
    \/ \E i \in 1 .. MaxTotal : EvictIdle(i)
    \/ \E i \in 1 .. MaxNames : NameExpires(i)
    \/ \E r \in [domain : Hosts \cup {AnyHost}, block : BOOLEAN, priority : {0, 1}] : AddRule(r)
    \/ \E i \in 1 .. MaxRules : RemoveRule(i)

NetSpec == NetInit /\ [][NetNext]_netVars

-----------------------------------------------------------------------------
(* No two socket numbers ever stand for one connection, and the pool offers *)
(* none that a number still stands for: over connecting one number twice,   *)
(* which pools one socket twice, replacing, closing and expiry.             *)
NotShared ==
    /\ \A m, n \in DOMAIN sockets : sockets[m] = sockets[n] => m = n
    /\ \A i \in DOMAIN pool : ~pool[i].inUse => pool[i].object \notin Range(sockets)
=============================================================================
