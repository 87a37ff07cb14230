----------------------------- MODULE KnowledgeGate -----------------------------
(***************************************************************************)
(* MKKnowledgeGate over the pattern graph: five gates judge a fact that a  *)
(* source offers, and the two files in the knowledge directory keep those  *)
(* held back and those refused.  Trust and confidence are in thousandths,  *)
(* a quotient rounded down.  What the caller does with an approved fact is *)
(* external: it learns it.  Reasons, times and ids on file are left out.   *)
(***************************************************************************)
EXTENDS PatternGraph, SequencesExt

CONSTANTS
    IsA, TypeOf, PartOf, OppositeOf, Can, Cannot, LivesIn,   \* relations
    Exclusive,          \* exclusiveRelations
    Incompatible,       \* incompatibles, as a set of two concepts each
    Living, Inanimate,  \* kinds that can live somewhere, kinds that cannot
    Providers,          \* sources with a profile
    DefaultTrust,       \* provider -> thousandths
    Claims,             \* facts that are offered
    MaxVerdicts         \* bound on the facts judged since the last start

VARIABLES
    pendingReview,      \* sequence of [id, fact]
    pendingFile, rejectedFile,
    trust,              \* provider -> [level, provided, approved]
    sourceAgreement,    \* fact -> providers that offered it, with repetitions: their number
    badAnswers,         \* fact -> reports of a bad answer
    nextPendingId,
    approvedFact        \* the fact just approved, for the caller; <<>> for none

gateState == <<pendingReview, pendingFile, rejectedFile, trust, sourceAgreement,
               badAnswers, nextPendingId, approvedFact>>
gateVars  == <<graphVars, gateState>>

Fresh(p) == [level |-> DefaultTrust[p], provided |-> 0, approved |-> 0]

GateInit ==
    /\ GraphInit
    /\ pendingReview = <<>> /\ pendingFile = <<>> /\ rejectedFile = <<>>
    /\ trust = [p \in Providers |-> Fresh(p)]
    /\ sourceAgreement = [f \in Claims |-> 0] /\ badAnswers = [f \in Claims |-> 0]
    /\ nextPendingId = 1 /\ approvedFact = <<>>

-----------------------------------------------------------------------------
AtMost(a, b)  == IF a < b THEN a ELSE b
Ask(c, r)     == [source |-> c, relation |-> r]
KindsOf(c)    == Range(Answer(Graph, Ask(c, IsA)))
Said(c, r, t) == r \in Relations /\ HasFact(Graph, [source |-> c, relation |-> r, target |-> t])

(* Gate 1: another target of an exclusive relation, an opposite or          *)
(* incompatible kind, or the contrary ability.                               *)
Contradicts(f) ==
    LET others == IF f.relation \in Exclusive THEN Range(Answer(Graph, KeyOf(f))) ELSE {}
        kinds  == IF f.relation \in {IsA, TypeOf} THEN KindsOf(f.source) ELSE {}
    IN  \/ \E t \in others : t # f.target /\ {t, f.target} \in Incompatible
        \/ \E k \in kinds : Said(k, OppositeOf, f.target) \/ Said(f.target, OppositeOf, k)
        \/ f.relation = IsA /\ \E k \in kinds : {k, f.target} \in Incompatible
        \/ f.relation = Can /\ Said(f.source, Cannot, f.target)

(* Gate 3: kinds that do not go together, what cannot live anywhere, and a  *)
(* loop of length two.                                                       *)
Inconsistent(f) ==
    \/ f.relation = IsA /\ \E k \in KindsOf(f.source), t \in KindsOf(f.target) :
                              {k, t} \in Incompatible
    \/ f.relation = LivesIn /\ KindsOf(f.source) \cap Living = {}
                            /\ KindsOf(f.source) \cap Inanimate # {}
    \/ f.relation \in {IsA, TypeOf, PartOf} /\ Said(f.target, f.relation, f.source)

(* Gate 4: trust, agreement, support by the graph and bad answers.          *)
Confidence(f, level, agreeing, bad) ==
    LET support == (IF Outgoing(Graph, f.source) # <<>> THEN 300 ELSE 0)
                     + (IF Outgoing(Graph, f.target) # <<>> THEN 300 ELSE 0)
                     + (IF Answer(Graph, KeyOf(f)) # <<>> THEN 400 ELSE 0)
        unspoilt == IF bad >= 5 THEN 0 ELSE 1000 - 200 * bad
    IN  (4 * level + 3 * AtMost(1000, 300 * agreeing) + 2 * support + unspoilt) \div 10

(* The questions the gates put to the graph, in their order. *)
Questions(f, contradicts, inconsistent) ==
    LET kind  == <<Ask(f.source, IsA)>>
        first == (IF f.relation \in Exclusive THEN <<KeyOf(f)>> ELSE <<>>)
                   \o (IF f.relation \in {IsA, TypeOf} THEN kind ELSE <<>>)
        third == (IF f.relation = IsA THEN kind \o <<Ask(f.target, IsA)>> ELSE <<>>)
                   \o (IF f.relation = LivesIn THEN kind ELSE <<>>)
    IN  first \o (IF contradicts THEN <<>> ELSE third)
              \o (IF contradicts \/ inconsistent THEN <<>> ELSE <<KeyOf(f)>>)

(* Trust moves a tenth of the way to the share of the facts approved. *)
Judged(t, ok) ==
    LET provided == t.provided + 1
        approved == t.approved + (IF ok THEN 1 ELSE 0)
    IN  [level    |-> (9 * t.level + (1000 * approved) \div provided) \div 10,
         provided |-> provided, approved |-> approved]

(* quarantineFact: below a fifth a fact is refused, else it is held back. *)
Quarantine(f, confidence) ==
    IF confidence < 200
      THEN /\ rejectedFile' = Append(rejectedFile, f)
           /\ UNCHANGED <<pendingReview, pendingFile>>
      ELSE /\ pendingReview' = Append(pendingReview, [id |-> nextPendingId, fact |-> f])
           /\ pendingFile' = Append(pendingFile, f)
           /\ UNCHANGED rejectedFile

(* What is offered is judged against the graph as it is, with the trust the *)
(* caller gives (level) or, when it gives none, that of the profile.         *)
Validate(f, p, given) ==
    LET level     == IF given > 0 THEN given ELSE trust[p].level
        refuted   == Contradicts(f)
        illogical == Inconsistent(f)
        agreeing  == sourceAgreement[f] + 1
        score     == Confidence(f, level, agreeing, badAnswers[f])
    IN  /\ nextPendingId <= MaxVerdicts /\ nextPendingId' = nextPendingId + 1
        /\ SetGraph(FoldLeft(Queried, Graph, Questions(f, refuted, illogical)))
        /\ \/ /\ refuted \/ illogical
              /\ Quarantine(f, IF refuted THEN (IF level >= 900 THEN 400 ELSE 100)
                               ELSE (IF level >= 800 THEN (4 * level) \div 10 ELSE 100))
              /\ trust' = [trust EXCEPT ![p] = Judged(@, FALSE)]
              /\ approvedFact' = <<>> /\ UNCHANGED sourceAgreement
           \/ /\ ~refuted /\ ~illogical
              /\ sourceAgreement' = [sourceAgreement EXCEPT ![f] = agreeing]
              /\ IF score >= 500
                   THEN /\ approvedFact' = <<f>> /\ trust' = [trust EXCEPT ![p] = Judged(@, TRUE)]
                        /\ UNCHANGED <<pendingReview, pendingFile, rejectedFile>>
                   ELSE /\ Quarantine(f, score) /\ approvedFact' = <<>> /\ UNCHANGED trust
        /\ UNCHANGED <<graphFiles, grower, graphBoots, badAnswers>>

LearnApproved ==
    /\ approvedFact # <<>> /\ approvedFact' = <<>>
    /\ PersistNewFact(Graph, approvedFact[1])
    /\ UNCHANGED <<grower, graphBoots, pendingReview, pendingFile, rejectedFile, trust,
                   sourceAgreement, badAnswers, nextPendingId>>

-----------------------------------------------------------------------------
FactsOf(s) == [i \in DOMAIN s |-> s[i].fact]

Others(ids) == {i \in DOMAIN pendingReview : pendingReview[i].id \notin ids}

\* Variant: the file keeps the fact that was promoted.
PromotedInMemory(ids) ==
    /\ pendingReview' = Picked(pendingReview, Others(ids))
    /\ UNCHANGED pendingFile

(* Promoting takes a fact off the list and rewrites the file; it does not   *)
(* teach it to the graph.                                                    *)
Promoted(ids) ==
    LET kept == Picked(pendingReview, Others(ids))
    IN  /\ pendingReview' = kept
        /\ pendingFile' = FactsOf(kept)

Promote(f) ==
    LET same == {i \in DOMAIN pendingReview : pendingReview[i].fact = f}
    IN  /\ same # {}
        /\ Promoted({pendingReview[CHOOSE i \in same : \A j \in same : i <= j].id})
        /\ UNCHANGED <<graphVars, rejectedFile, trust, sourceAgreement, badAnswers,
                       nextPendingId, approvedFact>>

(* Offered twice, by whomever, or of a kind with what it is said to be. *)
Supported(f) ==
    \/ sourceAgreement[f] >= 2
    \/ f.relation = IsA /\ KindsOf(f.source) \cap KindsOf(f.target) # {}

AutoPromoteCheck ==
    LET asked == SelectSeq(FactsOf(pendingReview),
                           LAMBDA f : sourceAgreement[f] < 2 /\ f.relation = IsA)
        two(f) == <<Ask(f.target, IsA), Ask(f.source, IsA)>>
    IN  /\ pendingReview # <<>>
        /\ SetGraph(FoldLeft(LAMBDA g, f : FoldLeft(Queried, g, two(f)), Graph, asked))
        /\ Promoted({pendingReview[i].id :
                        i \in {j \in DOMAIN pendingReview : Supported(pendingReview[j].fact)}})
        /\ UNCHANGED <<graphFiles, grower, graphBoots, rejectedFile, trust, sourceAgreement,
                       badAnswers, nextPendingId, approvedFact>>

ReportBadAnswer(f) ==
    /\ badAnswers[f] < 1 /\ badAnswers' = [badAnswers EXCEPT ![f] = @ + 1]
    /\ UNCHANGED <<graphVars, pendingReview, pendingFile, rejectedFile, trust,
                   sourceAgreement, nextPendingId, approvedFact>>

(* Both files end in .mk and lie in the directory the graph loads, so what  *)
(* was held back or refused is known after the next start.                   *)
GateRestart ==
    /\ graphBoots < MaxGraphBoots /\ graphBoots' = graphBoots + 1
    /\ SetGraph(FoldLeft(AddFact, LoadedLines(NoGraph), pendingFile \o rejectedFile))
    /\ addedKeys' = {[fact |-> f, cased |-> FALSE] : f \in Range(learnedFile)}
    /\ addedToday' = 0
    /\ pendingReview' = [i \in DOMAIN pendingFile |-> [id |-> i, fact |-> pendingFile[i]]]
    /\ nextPendingId' = Len(pendingFile) + 1
    /\ trust' = [p \in Providers |-> Fresh(p)]
    /\ sourceAgreement' = [f \in Claims |-> 0] /\ badAnswers' = [f \in Claims |-> 0]
    /\ approvedFact' = <<>>
    /\ UNCHANGED <<graphFiles, pendingFile, rejectedFile>>

GateNext ==
    \/ \E f \in Claims, p \in Providers, given \in {0, 400} : Validate(f, p, given)
    \/ \E f \in Claims : Promote(f) \/ ReportBadAnswer(f)
    \/ LearnApproved \/ AutoPromoteCheck \/ GateRestart

GateSpec == GateInit /\ [][GateNext]_gateVars

-----------------------------------------------------------------------------
(* The facts held back in memory are those on file, one by one and in       *)
(* order, over verdicts, promotions of either kind and restarts: a promoted *)
(* fact does not come back and a held one is not lost.                       *)
PendingOnDisk == pendingFile = FactsOf(pendingReview)
=============================================================================
