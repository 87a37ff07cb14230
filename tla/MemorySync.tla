------------------------------ MODULE MemorySync ------------------------------
(***************************************************************************)
(* MKMemorySync on several devices: the conversation of one user, sent     *)
(* whole and merged.  A context may be lost, late or merged twice, and     *)
(* saving and loading is merging one's own.  The devices speak at          *)
(* different times; mood and topics are overwritten and left out.          *)
(***************************************************************************)
EXTENDS Integers, Sequences, FiniteSets, Functions, SequencesExt, Lists

CONSTANTS
    Speakers,        \* the devices
    MaxTurnsKept,    \* max_turns_per_context
    MaxTime,         \* bound on the clock, and so on the turns spoken
    MaxContexts      \* bound on the contexts sent

ASSUME MemoryAssumption == {MaxTurnsKept, MaxTime, MaxContexts} \subseteq Nat \ {0}

VARIABLES
    time,
    turns,           \* device -> sequence of [time, from], the conversation
    needsSync,       \* device -> peers whose needs_sync is set
    contexts,        \* [to, turns]: serialized contexts sent, or saved
    said             \* device -> every turn it ever had

memoryVars == <<time, turns, needsSync, contexts, said>>

MemoryInit ==
    /\ time = 1 /\ contexts = {}
    /\ turns = [d \in Speakers |-> <<>>] /\ said = [d \in Speakers |-> {}]
    /\ needsSync = [d \in Speakers |-> Speakers \ {d}]

-----------------------------------------------------------------------------
Trimmed(s) == IF Len(s) > MaxTurnsKept THEN SubSeq(s, Len(s) - MaxTurnsKept + 1, Len(s)) ELSE s

(* No two turns are of one time. *)
ByTime(s) ==
    LET k == Ascending({s[i].time : i \in DOMAIN s})
    IN  [n \in DOMAIN k |-> s[CHOOSE i \in DOMAIN s : s[i].time = k[n]]]

AddTurn(d) ==
    LET t == [time |-> time, from |-> d]
    IN  /\ time < MaxTime /\ time' = time + 1
        /\ turns' = [turns EXCEPT ![d] = Trimmed(Append(@, t))]
        /\ said' = [said EXCEPT ![d] = @ \cup {t}]
        /\ needsSync' = [needsSync EXCEPT ![d] = Speakers \ {d}]
        /\ UNCHANGED contexts

SendContext(d, p) ==
    /\ turns[d] # <<>> /\ (d = p \/ p \in needsSync[d])
    /\ Cardinality(contexts) < MaxContexts
    /\ contexts' = contexts \cup {[to |-> p, turns |-> turns[d]]}
    /\ UNCHANGED <<time, turns, needsSync, said>>

(* The mark is taken back whatever was said since the context was sent. *)
ContextSynced(d, p) ==
    /\ p \in needsSync[d] /\ \E c \in contexts : c.to = p
    /\ needsSync' = [needsSync EXCEPT ![d] = @ \ {p}]
    /\ UNCHANGED <<time, turns, contexts, said>>

\* Variant: trimmed before the turns are in order.
TrimmedThenSorted(s) == ByTime(Trimmed(s))
Merged(s) == Trimmed(ByTime(s))

MergeRemoteContext(c) ==
    LET d   == c.to
        new == Picked(c.turns, {i \in DOMAIN c.turns : c.turns[i] \notin Range(turns[d])})
    IN  /\ c \in contexts
        /\ turns' = [turns EXCEPT ![d] = Merged(@ \o new)]
        /\ said' = [said EXCEPT ![d] = @ \cup Range(c.turns)]
        /\ UNCHANGED <<time, needsSync, contexts>>

MemoryNext ==
    \/ \E d \in Speakers :
         AddTurn(d) \/ \E p \in Speakers : SendContext(d, p) \/ ContextSynced(d, p)
    \/ \E c \in contexts : MergeRemoteContext(c)

MemorySpec == MemoryInit /\ [][MemoryNext]_memoryVars

-----------------------------------------------------------------------------
(* A device keeps the latest turns of all it ever saw, its own and those    *)
(* merged from others, whatever the order they came in.                     *)
LatestTurnsKept ==
    \A d \in Speakers :
       /\ \A t \in said[d] \ Range(turns[d]) :
             Len(turns[d]) = MaxTurnsKept /\ t.time < turns[d][1].time
       /\ \A i, j \in DOMAIN turns[d] : i < j => turns[d][i].time < turns[d][j].time
=============================================================================
