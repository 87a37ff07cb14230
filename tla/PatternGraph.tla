----------------------------- MODULE PatternGraph -----------------------------
(***************************************************************************)
(* MKPatternGraph with those that write to it: the brain's statements and  *)
(* commands, corrections, and the nightly grower; and the two files it     *)
(* comes back from.  A fact is stored normalized.  Weights only order      *)
(* reports and are left out, and so are the counts of accesses.            *)
(***************************************************************************)
EXTENDS Integers, Sequences, FiniteSets, Functions, Lists

CONSTANTS
    Concepts, Relations,
    Inherited,        \* is_a, type_of, kind_of and part_of
    LruCapacity,
    MaxHops,
    MaxPerNight,      \* maxFactsPerNight
    MaxEdges,         \* bound on the edges
    MaxLearned,       \* bound on the lines of the file of learned facts
    MaxGraphBoots     \* bound on the starts

ASSUME GraphAssumption ==
    /\ IsFiniteSet(Concepts)
    /\ Inherited \subseteq Relations
    /\ {LruCapacity, MaxHops, MaxPerNight} \subseteq Nat \ {0}
    /\ {MaxEdges, MaxLearned, MaxGraphBoots} \subseteq Nat

VARIABLES
    edges,            \* every fact ever added, the removed ones too
    sourceIndex,      \* source_relation_index: [source, relation] -> edge numbers
    lru,              \* the cached answers, latest used first
    learnedFile,      \* learned_facts.mk
    dumpFile,         \* full_dump.mk
    addedKeys,        \* addedFactKeys of the grower: [fact, cased]
    addedToday,       \* factsAddedToday
    graphBoots

graphVars == <<edges, sourceIndex, lru, learnedFile, dumpFile, addedKeys, addedToday, graphBoots>>
graphFiles == <<learnedFile, dumpFile>>
grower == <<addedKeys, addedToday>>

GraphFacts == [source : Concepts, relation : Relations, target : Concepts]
Keys  == [source : Concepts, relation : Relations]
KeyOf(f) == [source |-> f.source, relation |-> f.relation]

Graph == [edges |-> edges, index |-> sourceIndex, lru |-> lru]
NoGraph == [edges |-> <<>>, index |-> [k \in Keys |-> <<>>], lru |-> <<>>]
SetGraph(g) == edges' = g.edges /\ sourceIndex' = g.index /\ lru' = g.lru

GraphInit ==
    /\ edges = NoGraph.edges /\ sourceIndex = NoGraph.index /\ lru = NoGraph.lru
    /\ learnedFile = <<>> /\ dumpFile = <<>>
    /\ addedKeys = {} /\ addedToday = 0 /\ graphBoots = 1

-----------------------------------------------------------------------------
Targets(g, k) == [i \in DOMAIN g.index[k] |-> g.edges[g.index[k][i]].target]
HasFact(g, f) == f.target \in Range(Targets(g, KeyOf(f)))

\* Variant: the cached answers survive a new fact.
AddFactKeepingCache(g, f) ==
    IF HasFact(g, f) THEN g
    ELSE [edges |-> Append(g.edges, f),
          index |-> [g.index EXCEPT ![KeyOf(f)] = Append(@, Len(g.edges) + 1)],
          lru   |-> g.lru]

(* A fact that is known only gains weight; any other empties the cache. *)
AddFact(g, f) ==
    IF HasFact(g, f) THEN g
    ELSE [edges |-> Append(g.edges, f),
          index |-> [g.index EXCEPT ![KeyOf(f)] = Append(@, Len(g.edges) + 1)],
          lru   |-> <<>>]

(* The edges other than f of its source and relation stay, only the index  *)
(* forgets them; the cache is left alone.                                    *)
OnlyRight(g, f) ==
    LET known == g.index[KeyOf(f)]
    IN  [g EXCEPT !.index[KeyOf(f)] =
            Picked(known, {i \in DOMAIN known : g.edges[known[i]].target = f.target})]

LruPut(c, k, v) ==
    LET all == <<[key |-> k, value |-> v]>> \o Picked(c, {i \in DOMAIN c : c[i].key # k})
    IN  SubSeq(all, 1, IF Len(all) > LruCapacity THEN LruCapacity ELSE Len(all))

Cached(g, k) == {i \in DOMAIN g.lru : g.lru[i].key = k}
Answer(g, k) == IF Cached(g, k) # {} THEN g.lru[CHOOSE i \in Cached(g, k) : TRUE].value
                ELSE Targets(g, k)

(* Looking an answer up moves it, or puts it, to the front of the cache. *)
Queried(g, k) == [g EXCEPT !.lru = LruPut(@, k, Answer(g, k))]

Outgoing(g, c) == Picked(g.edges, {i \in DOMAIN g.edges : g.edges[i].source = c})

(* One edge of the walk of pathQuery: its target may have the relation      *)
(* sought; otherwise an inherited relation is followed.                      *)
FollowEdge(w, e, relation, depth) ==
    LET k == [source |-> e.target, relation |-> relation]
        a == Answer(w.graph, k)
        q == [w EXCEPT !.graph = Queried(w.graph, k)]
    IN  IF w.found # <<>> THEN w
        ELSE IF a # <<>> THEN [q EXCEPT !.found = <<a[1], depth + 2>>]
        ELSE IF e.relation \in Inherited /\ e.target \notin w.visited
          THEN [q EXCEPT !.visited  = @ \cup {e.target},
                         !.frontier = Append(@, <<e.target, depth + 1>>)]
        ELSE q

FollowEdges(w, relation, node, out) ==
    LET after[i \in 0 .. Len(out)] ==
            IF i = 0 THEN w ELSE FollowEdge(after[i - 1], out[i], relation, node[2])
    IN  after[Len(out)]

(* The first node in line is followed when it is near enough. *)
Visit(w, relation) ==
    LET node == Head(w.frontier)
        rest == [w EXCEPT !.frontier = Tail(@)]
    IN  IF w.frontier = <<>> \/ w.found # <<>> THEN w
        ELSE IF node[2] >= MaxHops THEN rest
        ELSE FollowEdges(rest, relation, node, Outgoing(w.graph, node[1]))

(* The walk from a source; no node is visited twice. *)
Walk(g, k) ==
    LET start == [graph |-> g, found |-> <<>>, visited |-> {k.source},
                  frontier |-> <<<<k.source, 0>>>>]
        walk[n \in 0 .. Cardinality(Concepts)] ==
            IF n = 0 THEN start ELSE Visit(walk[n - 1], k.relation)
    IN  walk[Cardinality(Concepts)]

PathQueried(g, k) ==
    IF Answer(g, k) # <<>> THEN Queried(g, k) ELSE Walk(Queried(g, k), k).graph

-----------------------------------------------------------------------------
Room(n) == Len(edges) + n <= MaxEdges /\ Len(learnedFile) + n <= MaxLearned

PersistNewFact(g, f) ==
    /\ Room(1)
    /\ SetGraph(AddFact(g, f))
    /\ learnedFile' = Append(learnedFile, f)
    /\ UNCHANGED dumpFile

(* A statement the graph already holds is not written again; a command to   *)
(* remember, /learn, the agent's tool and the nightly job always write.      *)
HandleStatement(f) ==
    /\ ~HasFact(Graph, f)
    /\ PersistNewFact(Graph, f)
    /\ UNCHANGED <<grower, graphBoots>>

Remember(f) == PersistNewFact(Graph, f) /\ UNCHANGED <<grower, graphBoots>>

QueryFor(k) ==
    /\ SetGraph(Queried(Graph, k))
    /\ UNCHANGED <<graphFiles, grower, graphBoots>>

(* handleQuestion: the lookup, then the walk when it found nothing. *)
HandleQuestion(k) ==
    /\ SetGraph(PathQueried(Graph, k))
    /\ UNCHANGED <<graphFiles, grower, graphBoots>>

(* Every fact of that source and relation is forgotten but the corrected    *)
(* one, which is then learned.                                               *)
ApplyCorrection(f) == PersistNewFact(OnlyRight(Graph, f), f) /\ UNCHANGED <<grower, graphBoots>>

(* The grower compares the words as it found them, the graph holds them     *)
(* normalized: one written with capitals is new to it every time.            *)
KnownToGrower(f, cased) ==
    [fact |-> f, cased |-> cased] \in addedKeys \/ (~cased /\ f \in Range(edges))

GrowFact(f, cased) ==
    /\ addedToday < MaxPerNight
    /\ ~KnownToGrower(f, cased)
    /\ PersistNewFact(Graph, f)
    /\ addedKeys' = addedKeys \cup {[fact |-> f, cased |-> cased]}
    /\ addedToday' = addedToday + 1
    /\ UNCHANGED graphBoots

NightBegins ==
    /\ addedToday > 0 /\ addedToday' = 0
    /\ UNCHANGED <<edges, sourceIndex, lru, graphFiles, addedKeys, graphBoots>>

SaveDump ==
    /\ dumpFile' = edges
    /\ UNCHANGED <<edges, sourceIndex, lru, learnedFile, grower, graphBoots>>

(* Every .mk file of the directory in the order of their names. *)
LoadedLines(g) ==
    LET lines == dumpFile \o learnedFile
        after[i \in 0 .. Len(lines)] == IF i = 0 THEN g ELSE AddFact(after[i - 1], lines[i])
    IN  after[Len(lines)]

LoadAllKnowledge ==
    /\ Len(LoadedLines(Graph).edges) <= MaxEdges
    /\ SetGraph(LoadedLines(Graph))
    /\ UNCHANGED <<graphFiles, grower, graphBoots>>

GraphRestart ==
    /\ graphBoots < MaxGraphBoots /\ graphBoots' = graphBoots + 1
    /\ SetGraph(LoadedLines(NoGraph))
    /\ addedKeys' = {[fact |-> f, cased |-> FALSE] : f \in Range(learnedFile)}
    /\ addedToday' = 0
    /\ UNCHANGED graphFiles

GraphNext ==
    \/ \E f \in GraphFacts :
         \/ HandleStatement(f) \/ Remember(f) \/ ApplyCorrection(f)
         \/ \E cased \in BOOLEAN : GrowFact(f, cased)
    \/ \E k \in Keys : QueryFor(k) \/ HandleQuestion(k)
    \/ NightBegins \/ SaveDump \/ LoadAllKnowledge \/ GraphRestart

GraphSpec == GraphInit /\ [][GraphNext]_graphVars

-----------------------------------------------------------------------------
(* No cached answer misses a fact the graph holds, and every fact it holds   *)
(* is on disk for the next start: a new fact empties the cache and is        *)
(* written, whichever of its five writers brings it, and whatever            *)
(* corrections, dumps and reloads come between.                              *)
AnswersCurrent ==
    /\ \A i \in DOMAIN lru : Range(Targets(Graph, lru[i].key)) \subseteq Range(lru[i].value)
    /\ \A f \in GraphFacts : HasFact(Graph, f) => f \in Range(learnedFile) \cup Range(dumpFile)
=============================================================================
