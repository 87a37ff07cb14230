--------------------------- MODULE LearningEngine ---------------------------
(***************************************************************************)
(* MKLearningEngine (mk_brain/learning/learning_engine.cpp): facts in a    *)
(* vector, a subject index of fact ids, and mk_knowledge_graph.dat, which  *)
(* persist() writes at shutdown only and restore() reads at boot.          *)
(*                                                                         *)
(* learnFact and queryFacts use a fact's id as its position in the vector. *)
(* The two agree until a fact is forgotten: forgetFact closes the gap in   *)
(* the vector and leaves the ids as they are.                              *)
(***************************************************************************)
EXTENDS Integers, Sequences, FiniteSetsExt, SequencesExt

CONSTANTS
    Subjects, Predicates, Objects,
    UserName,           \* the subject of the biographical extractor
    CorrectedTo,        \* its one predicate that is learned as a correction
    Loaded,             \* what restore reads back for an object: the part before a '|'
    Offered,            \* confidences statements are learned with
    MaxFacts,           \* bound: facts learned per run of the process
    MaxBoots            \* bound: starts of the process

Unverified == 0         \* MKFactConfidence
Absolute   == 4
Confidences == Unverified..Absolute

ASSUME LearningAssumption ==
    /\ UserName \in Subjects /\ CorrectedTo \in Predicates
    /\ Loaded \in [Objects -> Objects]
    /\ Offered \subseteq Confidences
    /\ MaxFacts \in Nat /\ MaxBoots \in Nat

VARIABLES
    up, boots,
    facts,              \* knowledgeGraph
    index,              \* subjectIndex: subject -> ids, walked in ascending order
    nextFactId,
    file,               \* the facts in mk_knowledge_graph.dat
    persisting,         \* persist() has truncated the file and is writing it
    forgotten,          \* history: ids forgotten in this run
    everForgot,         \* history: some fact was forgotten, in any run
    torn                \* history: a crash cut a line of the file short

vars == <<up, boots, facts, index, nextFactId, file, persisting, forgotten,
          everForgot, torn>>

Facts == [id : Nat, subject : Subjects, predicate : Predicates,
          object : Objects, confidence : Confidences]

Ids(store) == {store[i].id : i \in DOMAIN store}

-----------------------------------------------------------------------------
(* The vector, addressed by fact id.                                       *)

InRange(id) == id < Len(facts)
Slot(id)    == facts[id + 1]

\* The ids of subject s whose slot holds predicate p.  A read past the end of
\* the vector finds nothing here; in the program it may also end the process
\* (Crash) or find a match in freed memory, which changes no fact.
Matches(s, p) == {id \in index[s] : InRange(id) /\ Slot(id).predicate = p}

-----------------------------------------------------------------------------
Init ==
    /\ up = TRUE
    /\ boots = 1
    /\ facts = << >>
    /\ index = [s \in Subjects |-> {}]
    /\ nextFactId = 0
    /\ file = << >>
    /\ persisting = FALSE
    /\ forgotten = {}
    /\ everForgot = FALSE
    /\ torn = FALSE

\* Variant: the vector's size as the new fact's id.
LearnNewAtSize(s, p, o, confidence) ==
    /\ Matches(s, p) = {}
    /\ Len(facts) < MaxFacts
    /\ facts' = Append(facts, [id |-> Len(facts), subject |-> s, predicate |-> p,
                               object |-> o, confidence |-> confidence])
    /\ index' = [index EXCEPT ![s] = @ \cup {Len(facts)}]
    /\ nextFactId' = Len(facts) + 1

\* Variant: a conflicting statement is added beside the fact it contradicts.
LearnNewBeside(s, p, o, confidence) ==
    /\ \A id \in Matches(s, p) : Slot(id).object # o
    /\ nextFactId < MaxFacts
    /\ facts' = Append(facts, [id |-> nextFactId, subject |-> s, predicate |-> p,
                               object |-> o, confidence |-> confidence])
    /\ index' = [index EXCEPT ![s] = @ \cup {nextFactId}]
    /\ nextFactId' = nextFactId + 1

\* learnFact, nothing known of this subject and predicate: a new fact.
LearnNew(s, p, o, confidence) ==
    /\ Matches(s, p) = {}
    /\ nextFactId < MaxFacts
    /\ facts' = Append(facts, [id |-> nextFactId, subject |-> s, predicate |-> p,
                               object |-> o, confidence |-> confidence])
    /\ index' = [index EXCEPT ![s] = @ \cup {nextFactId}]
    /\ nextFactId' = nextFactId + 1

\* learnFact, the same object again: the confidence is raised.
Reinforce(s, p, o, confidence) ==
    /\ Matches(s, p) # {}
    /\ LET id == Min(Matches(s, p)) IN
         /\ Slot(id).object = o
         /\ facts' = [facts EXCEPT ![id + 1].confidence =
                        IF @ < confidence THEN confidence ELSE @]
    /\ UNCHANGED <<index, nextFactId>>

\* learnFact, another object, from the user's correction: it replaces the old.
Override(s, p, o) ==
    /\ Matches(s, p) # {}
    /\ LET id == Min(Matches(s, p)) IN
         /\ Slot(id).object # o
         /\ facts' = [facts EXCEPT ![id + 1].object = o,
                                   ![id + 1].confidence = Absolute]
    /\ UNCHANGED <<index, nextFactId>>

\* A statement: /learn, the learn_fact tool, the biographical extractor.  One
\* that conflicts with a fact changes nothing.
Learn ==
    /\ up /\ ~persisting
    /\ \E s \in Subjects, p \in Predicates, o \in Objects, c \in Offered :
         LearnNew(s, p, o, c) \/ Reinforce(s, p, o, c)
    /\ UNCHANGED <<up, boots, file, persisting, forgotten, everForgot, torn>>

\* The user corrects MK: always with absolute confidence.
Correct ==
    /\ up /\ ~persisting
    /\ \E o \in Objects :
         \/ LearnNew(UserName, CorrectedTo, o, Absolute)
         \/ Reinforce(UserName, CorrectedTo, o, Absolute)
         \/ Override(UserName, CorrectedTo, o)
    /\ UNCHANGED <<up, boots, file, persisting, forgotten, everForgot, torn>>

\* Variant: the subject's ids keep the forgotten one.
ForgetInVectorOnly ==
    /\ up /\ ~persisting
    /\ \E i \in DOMAIN facts :
         /\ facts' = RemoveAt(facts, i)
         /\ forgotten' = forgotten \cup {facts[i].id}
    /\ everForgot' = TRUE
    /\ UNCHANGED <<up, boots, index, nextFactId, file, persisting, torn>>

\* forgetFact by id (/forget): the fact leaves the vector and its subject's ids.
Forget ==
    /\ up /\ ~persisting
    /\ \E i \in DOMAIN facts :
         /\ facts' = RemoveAt(facts, i)
         /\ index' = [index EXCEPT ![facts[i].subject] = @ \ {facts[i].id}]
         /\ forgotten' = forgotten \cup {facts[i].id}
    /\ everForgot' = TRUE
    /\ UNCHANGED <<up, boots, nextFactId, file, persisting, torn>>

\* persist() at shutdown: the file is truncated, then written, then closed.
PersistOpen ==
    /\ up /\ ~persisting
    /\ persisting' = TRUE
    /\ file' = << >>
    /\ UNCHANGED <<up, boots, facts, index, nextFactId, forgotten, everForgot,
                   torn>>

PersistClose ==
    /\ up /\ persisting
    /\ file' = facts
    /\ up' = FALSE
    /\ UNCHANGED <<boots, facts, index, nextFactId, persisting, forgotten,
                   everForgot, torn>>

\* What a line that was cut short behind its id may come back as.
Cut(fact) == [id : {fact.id}, subject : Subjects, predicate : Predicates,
              object : Objects, confidence : {Unverified, fact.confidence}]

\* The process dies, or shuts down with a file it cannot open; of a persist in
\* progress some lines have been written, the last of them perhaps in part.
Crash ==
    /\ up
    /\ up' = FALSE
    /\ \/ ~persisting /\ UNCHANGED <<file, torn>>
       \/ /\ persisting
          /\ \E n \in 0..Len(facts) : file' = SubSeq(facts, 1, n)
          /\ UNCHANGED torn
       \/ /\ persisting
          /\ \E i \in DOMAIN facts : \E fact \in Cut(facts[i]) :
               file' = Append(SubSeq(facts, 1, i - 1), fact)
          /\ torn' = TRUE
    /\ UNCHANGED <<boots, facts, index, nextFactId, persisting, forgotten,
                   everForgot>>

\* restore(): an object with a '|' comes back cut short, and the field that
\* follows is not the confidence, which becomes 0.
Restored(fact) ==
    IF Loaded[fact.object] = fact.object THEN fact
    ELSE [fact EXCEPT !.object = Loaded[fact.object],
                      !.confidence = Unverified]

\* Variant: ids start from zero again after restore.
BootAtZero ==
    /\ ~up /\ boots < MaxBoots
    /\ up' = TRUE
    /\ boots' = boots + 1
    /\ facts' = [i \in DOMAIN file |-> Restored(file[i])]
    /\ index' = [s \in Subjects |->
                   {file[i].id : i \in {j \in DOMAIN file : file[j].subject = s}}]
    /\ nextFactId' = 0
    /\ persisting' = FALSE
    /\ forgotten' = {}
    /\ UNCHANGED <<file, everForgot, torn>>

Boot ==
    /\ ~up /\ boots < MaxBoots
    /\ up' = TRUE
    /\ boots' = boots + 1
    /\ facts' = [i \in DOMAIN file |-> Restored(file[i])]
    /\ index' = [s \in Subjects |->
                   {file[i].id : i \in {j \in DOMAIN file : file[j].subject = s}}]
    /\ nextFactId' = Max({-1} \cup Ids(file)) + 1
    /\ persisting' = FALSE
    /\ forgotten' = {}
    /\ UNCHANGED <<file, everForgot, torn>>

Next == Learn \/ Correct \/ Forget \/ PersistOpen \/ PersistClose \/ Crash \/ Boot

Spec == Init /\ [][Next]_vars

-----------------------------------------------------------------------------
(* What should hold.                                                       *)

TypeOK ==
    /\ up \in BOOLEAN /\ boots \in Nat
    /\ facts \in Seq(Facts)
    /\ index \in [Subjects -> SUBSET Nat]
    /\ nextFactId \in Nat
    /\ file \in Seq(Facts)
    /\ persisting \in BOOLEAN
    /\ forgotten \in SUBSET Nat
    /\ everForgot \in BOOLEAN /\ torn \in BOOLEAN

\* Ids identify facts: they ascend through the vector, below nextFactId, so
\* that forgetFact and the index never mean two facts by one id.
IdsAscend ==
    /\ \A i, j \in DOMAIN facts : i < j => facts[i].id < facts[j].id
    /\ \A i \in DOMAIN facts : facts[i].id < nextFactId

\* The index holds exactly the ids of each subject's facts, through learning,
\* forgetting and restarts.
IndexMatchesFacts ==
    \A s \in Subjects :
        index[s] = {facts[i].id : i \in {j \in DOMAIN facts : facts[j].subject = s}}

\* In one run a forgotten id never becomes the id of another fact.
ForgottenStaysForgotten == forgotten \cap Ids(facts) = {}

\* The three together: through learning, forgetting, torn files and restarts
\* (learning_engine.cpp:97-288) an id means one fact, and the index finds it.
IndexSound == IdsAscend /\ IndexMatchesFacts /\ ForgottenStaysForgotten

\* As long as nothing was ever forgotten, queryFacts(s) is what it says: every
\* slot it reads exists, holds a fact about s, and no fact about s is missed;
\* and, unless a crash cut a line of the file, a subject has one fact per
\* predicate.
SoundUntilForget ==
    ~everForgot =>
        /\ \A s \in Subjects : \A id \in index[s] :
             InRange(id) /\ Slot(id).subject = s
        /\ \A i \in DOMAIN facts : i - 1 \in index[facts[i].subject]
        /\ torn \/ \A i, j \in DOMAIN facts :
                     /\ facts[i].subject = facts[j].subject
                     /\ facts[i].predicate = facts[j].predicate
                     => i = j

\* "Query facts about a subject" (learning_engine.cpp:159): what queryFacts
\* returns for a subject is about that subject, reads past the end apart.
AnswersAboutSubject ==
    up => \A s \in Subjects : \A id \in index[s] :
            InRange(id) => Slot(id).subject = s
=============================================================================
