------------------------ MODULE LearningEngineProofs ------------------------
(***************************************************************************)
(* What holds of LearningEngine for every value of its constants: types,   *)
(* the order of ids, the agreement of the index with the facts, the        *)
(* finality of forgetting within a run, and the soundness of queries until *)
(* the first fact is forgotten.                                            *)
(***************************************************************************)
EXTENDS LearningEngine, SequenceTheorems, TLAPS

-----------------------------------------------------------------------------
(* Sequences of facts.                                                     *)

LEMMA FactOf ==
    ASSUME NEW store \in Seq(Facts), NEW i \in DOMAIN store
    PROVE  /\ store[i] \in Facts
           /\ store[i].id \in Nat
           /\ store[i].subject \in Subjects
           /\ store[i].predicate \in Predicates
<1>1. store[i] \in Facts
  OBVIOUS
<1> QED BY <1>1 DEF Facts

Ascend(store) == \A i, j \in DOMAIN store : i < j => store[i].id < store[j].id

\* The greatest id of an ascending store is its last one, as restore's loop
\* over the file finds it.
LEMMA LastIsMax ==
    ASSUME NEW store \in Seq(Facts), Ascend(store)
    PROVE  LET m == Max({-1} \cup Ids(store)) IN
             /\ m \in Int /\ m + 1 \in Nat
             /\ \A i \in DOMAIN store : store[i].id <= m
             /\ store = << >> => m = -1
             /\ store # << >> => m = store[Len(store)].id
<1> DEFINE S == {-1} \cup Ids(store)
<1>1. ASSUME NEW i \in DOMAIN store PROVE store[i].id \in Nat
  <2>1. store[i] \in Facts
    OBVIOUS
  <2> QED BY <2>1 DEF Facts
<1>2. CASE store = << >>
  <2>1. S = {-1}
    BY <1>2 DEF Ids
  <2>2. Max(S) = -1
    BY <2>1 DEF Max
  <2> QED BY <1>2, <2>2
<1>3. CASE store # << >>
  <2> DEFINE top == store[Len(store)].id
  <2>1. Len(store) \in DOMAIN store
    BY <1>3
  <2>2. top \in S /\ top \in Nat
    BY <1>1, <2>1 DEF Ids
  <2>3. \A i \in DOMAIN store : store[i].id <= top
    BY <1>1, <2>1 DEF Ascend
  <2>4. \A y \in S : top >= y /\ y \in Int
    BY <1>1, <2>2, <2>3 DEF Ids
  <2> HIDE DEF top, S
  <2>5. Max(S) \in S /\ \A y \in S : Max(S) >= y
    BY <2>2, <2>4 DEF Max
  <2>6. Max(S) = top
    <3> DEFINE m == Max(S)
    <3>1. m >= top /\ top >= m /\ m \in Int
      BY <2>2, <2>4, <2>5
    <3> HIDE DEF m
    <3>2. m = top
      BY <2>2, <3>1
    <3> QED BY <3>2 DEF m
  <2>7. /\ top \in Int /\ top + 1 \in Nat
        /\ \A i \in DOMAIN store : store[i].id <= top
    BY <2>2, <2>3
  <2>8. top = store[Len(store)].id
    BY DEF top
  <2>9. Max({-1} \cup Ids(store)) = top
    BY <2>6 DEF S
  <2> QED BY <1>3, <2>7, <2>8, <2>9
<1> QED BY <1>2, <1>3

\* vector::erase: what stood behind the gap moves up by one.
LEMMA Erase ==
    ASSUME NEW store \in Seq(Facts), NEW i \in DOMAIN store
    PROVE  /\ RemoveAt(store, i) \in Seq(Facts)
           /\ Len(RemoveAt(store, i)) = Len(store) - 1
           /\ \A j \in 1..(Len(store) - 1) :
                RemoveAt(store, i)[j] = IF j < i THEN store[j] ELSE store[j + 1]
<1> DEFINE front == SubSeq(store, 1, i - 1)
           back  == SubSeq(store, i + 1, Len(store))
<1>1. i \in 1..Len(store) /\ Len(store) \in Nat
  OBVIOUS
<1>2. /\ front \in Seq(Facts) /\ Len(front) = i - 1
      /\ \A j \in 1..(i - 1) : front[j] = store[j]
  BY <1>1
<1>3. /\ back \in Seq(Facts) /\ Len(back) = Len(store) - i
      /\ \A j \in 1..(Len(store) - i) : back[j] = store[i + j]
  BY <1>1
<1>4. RemoveAt(store, i) = front \o back
  BY DEF RemoveAt
<1> HIDE DEF front, back
<1>5. /\ front \o back \in Seq(Facts)
      /\ Len(front \o back) = Len(store) - 1
  BY <1>1, <1>2, <1>3
<1>6. ASSUME NEW j \in 1..(Len(store) - 1)
      PROVE  (front \o back)[j] = IF j < i THEN store[j] ELSE store[j + 1]
  <2>1. CASE j < i
    <3>1. (front \o back)[j] = front[j] /\ j \in 1..(i - 1)
      BY <1>1, <1>2, <1>3, <2>1, ConcatProperties
    <3> QED BY <1>2, <2>1, <3>1
  <2>2. CASE j >= i
    <3>1. /\ j > Len(front) /\ j <= Len(front) + Len(back)
          /\ j - Len(front) \in 1..(Len(store) - i)
          /\ i + (j - Len(front)) = j + 1
      BY <1>1, <1>2, <1>3, <2>2
    <3>2. (front \o back)[j] = back[j - Len(front)]
      <4>1. \A k \in 1..(Len(front) + Len(back)) :
              (front \o back)[k] = IF k <= Len(front) THEN front[k]
                                                      ELSE back[k - Len(front)]
        BY <1>2, <1>3, ConcatProperties
      <4>2. j \in 1..(Len(front) + Len(back)) /\ ~(j <= Len(front))
        BY <1>1, <1>2, <1>3, <3>1
      <4> QED BY <4>1, <4>2
    <3>3. back[j - Len(front)] = store[j + 1]
      BY <1>3, <3>1
    <3> QED BY <1>1, <2>2, <3>2, <3>3
  <2>3. j < i \/ j >= i
    BY <1>1
  <2> QED BY <2>1, <2>2, <2>3, Zenon
<1> QED BY <1>4, <1>5, <1>6

-----------------------------------------------------------------------------
(* Type correctness, and ids that ascend in memory and in the file.        *)

IdsInv ==
    /\ TypeOK
    /\ IdsAscend
    /\ Ascend(file)

\* Reinforcing and overriding keep every fact's id, subject and predicate.
SameKeys ==
    /\ facts' \in Seq(Facts)
    /\ Len(facts') = Len(facts)
    /\ \A i \in DOMAIN facts : /\ facts'[i].id = facts[i].id
                               /\ facts'[i].subject = facts[i].subject
                               /\ facts'[i].predicate = facts[i].predicate
    /\ UNCHANGED <<index, nextFactId>>

\* Replacing the object and the confidence of one slot.
LEMMA RewriteSlot ==
    ASSUME TypeOK, NEW k, NEW o \in Objects, NEW c \in Confidences,
           facts' = [facts EXCEPT ![k].object = o, ![k].confidence = c],
           UNCHANGED <<index, nextFactId>>
    PROVE  SameKeys
<1>1. CASE k \in DOMAIN facts
  <2>1. facts[k] \in Facts
    BY <1>1 DEF TypeOK
  <2>2. facts' = [facts EXCEPT ![k] = [@ EXCEPT !.object = o, !.confidence = c]]
    BY <1>1 DEF TypeOK
  <2>3. [facts[k] EXCEPT !.object = o, !.confidence = c] \in Facts
    BY <2>1 DEF Facts
  <2> DEFINE fact == [facts[k] EXCEPT !.object = o, !.confidence = c]
  <2>4. /\ fact.id = facts[k].id /\ fact.subject = facts[k].subject
        /\ fact.predicate = facts[k].predicate
    BY <2>1 DEF Facts
  <2>5. facts' = [facts EXCEPT ![k] = fact] /\ fact \in Facts
    BY <1>1, <2>2, <2>3 DEF TypeOK
  <2> HIDE DEF fact
  <2>6. facts \in Seq(Facts) /\ k \in 1..Len(facts)
    BY <1>1 DEF TypeOK
  <2>7. /\ facts' \in Seq(Facts) /\ Len(facts') = Len(facts)
        /\ \A i \in 1..Len(facts) : facts'[i] = IF i = k THEN fact ELSE facts[i]
    <3> DEFINE rewritten == [facts EXCEPT ![k] = fact]
    <3>1. fact \in Facts /\ facts' = rewritten
      BY <2>5
    <3>2. /\ rewritten \in Seq(Facts) /\ Len(rewritten) = Len(facts)
          /\ \A i \in 1..Len(facts) :
               rewritten[i] = IF i = k THEN fact ELSE facts[i]
      BY <2>6, <3>1, ExceptSeq
    <3> HIDE DEF rewritten
    <3> QED BY <3>1, <3>2
  <2> QED BY <2>4, <2>6, <2>7 DEF SameKeys
<1>2. CASE k \notin DOMAIN facts
  <2>1. facts' = facts
    BY <1>2 DEF TypeOK
  <2> QED BY <2>1 DEF TypeOK, SameKeys
<1> QED BY <1>1, <1>2

LEMMA ReinforceKeepsKeys ==
    ASSUME TypeOK, NEW s \in Subjects, NEW p \in Predicates, NEW o \in Objects,
           NEW c \in Confidences, Reinforce(s, p, o, c)
    PROVE  SameKeys
<1> DEFINE k == Min(Matches(s, p)) + 1
           raised == IF facts[k].confidence < c THEN c ELSE facts[k].confidence
<1>1. /\ facts' = [facts EXCEPT ![k].confidence = raised]
      /\ UNCHANGED <<index, nextFactId>>
  BY DEF Reinforce
<1> HIDE DEF k
<1>2. CASE k \in DOMAIN facts
  <2>1. facts[k] \in Facts
    BY <1>2 DEF TypeOK
  <2>2. raised \in Confidences
    BY <2>1 DEF Facts
  <2>3. [facts[k] EXCEPT !.confidence = raised] \in Facts
    BY <2>1, <2>2 DEF Facts
  <2> HIDE DEF raised
  <2>4. facts' = [facts EXCEPT ![k] = [facts[k] EXCEPT !.confidence = raised]]
    BY <1>1, <1>2 DEF TypeOK
  <2> QED BY <1>1, <1>2, <2>1, <2>3, <2>4 DEF TypeOK, SameKeys, Facts
<1>3. CASE k \notin DOMAIN facts
  <2> HIDE DEF raised
  <2>1. facts' = facts
    BY <1>1, <1>3 DEF TypeOK
  <2> QED BY <1>1, <2>1 DEF TypeOK, SameKeys
<1> QED BY <1>2, <1>3

\* learnFact has two outcomes that change something: it rewrites a slot, or it
\* appends a fact under the next id.
Added(fact) ==
    /\ Matches(fact.subject, fact.predicate) = {}
    /\ fact.id = nextFactId
    /\ facts' = Append(facts, fact)
    /\ index' = [index EXCEPT ![fact.subject] = @ \cup {nextFactId}]
    /\ nextFactId' = nextFactId + 1

LEMMA LearnEffect ==
    ASSUME TypeOK, Learn \/ Correct
    PROVE  /\ SameKeys \/ \E fact \in Facts : Added(fact)
           /\ UNCHANGED <<up, boots, file, persisting, forgotten, everForgot, torn>>
<1>1. ASSUME NEW s \in Subjects, NEW p \in Predicates, NEW o \in Objects,
             NEW c \in Confidences, LearnNew(s, p, o, c)
      PROVE  \E fact \in Facts : Added(fact)
  <2> DEFINE fact == [id |-> nextFactId, subject |-> s, predicate |-> p,
                      object |-> o, confidence |-> c]
  <2>1. fact \in Facts
    BY DEF Facts, TypeOK
  <2>2. Added(fact)
    BY <1>1 DEF LearnNew, Added
  <2> QED BY <2>1, <2>2
<1>2. ASSUME NEW s \in Subjects, NEW p \in Predicates, NEW o \in Objects,
             Override(s, p, o)
      PROVE  SameKeys
  <2>1. Absolute \in Confidences
    BY DEF Absolute, Confidences, Unverified
  <2>2. PICK k : /\ facts' = [facts EXCEPT ![k].object = o, ![k].confidence = Absolute]
                 /\ UNCHANGED <<index, nextFactId>>
    BY <1>2 DEF Override
  <2> QED BY <2>1, <2>2, RewriteSlot
<1>3. CASE Learn
  <2>1. PICK s \in Subjects, p \in Predicates, o \in Objects, c \in Offered :
          LearnNew(s, p, o, c) \/ Reinforce(s, p, o, c)
    BY <1>3 DEF Learn
  <2>2. c \in Confidences
    BY LearningAssumption
  <2> QED BY <1>1, <1>3, <2>1, <2>2, ReinforceKeepsKeys DEF Learn
<1>4. CASE Correct
  <2>1. PICK o \in Objects :
          \/ LearnNew(UserName, CorrectedTo, o, Absolute)
          \/ Reinforce(UserName, CorrectedTo, o, Absolute)
          \/ Override(UserName, CorrectedTo, o)
    BY <1>4 DEF Correct
  <2>2. Absolute \in Confidences /\ UserName \in Subjects /\ CorrectedTo \in Predicates
    BY LearningAssumption DEF Absolute, Confidences, Unverified
  <2> QED BY <1>1, <1>2, <1>4, <2>1, <2>2, ReinforceKeepsKeys DEF Correct
<1> QED BY <1>3, <1>4

LEMMA Appended ==
    ASSUME TypeOK, NEW fact \in Facts, Added(fact)
    PROVE  /\ facts' \in Seq(Facts)
           /\ Len(facts') = Len(facts) + 1
           /\ \A i \in 1..Len(facts) : facts'[i] = facts[i]
           /\ facts'[Len(facts) + 1] = fact
BY AppendProperties DEF TypeOK, Added

\* restore() brings back every fact's id, subject and predicate.
LEMMA RestoredKeys ==
    ASSUME TypeOK, Boot
    PROVE  /\ facts' \in Seq(Facts)
           /\ Len(facts') = Len(file)
           /\ \A i \in 1..Len(file) : /\ facts'[i].id = file[i].id
                                      /\ facts'[i].subject = file[i].subject
                                      /\ facts'[i].predicate = file[i].predicate
<1>1. file \in Seq(Facts) /\ DOMAIN file = 1..Len(file) /\ Len(file) \in Nat
  BY DEF TypeOK
<1>2. ASSUME NEW i \in 1..Len(file)
      PROVE  /\ Restored(file[i]) \in Facts
             /\ Restored(file[i]).id = file[i].id
             /\ Restored(file[i]).subject = file[i].subject
             /\ Restored(file[i]).predicate = file[i].predicate
  <2>1. file[i] \in Facts /\ Loaded[file[i].object] \in Objects
    <3>1. file[i] \in Facts
      BY <1>1
    <3>2. file[i].object \in Objects
      BY <3>1 DEF Facts
    <3> QED BY <3>1, <3>2, LearningAssumption
  <2>2. Unverified \in Confidences
    BY DEF Unverified, Confidences, Absolute
  <2> QED BY <2>1, <2>2 DEF Restored, Facts
<1>3. facts' = [i \in 1..Len(file) |-> Restored(file[i])]
  BY <1>1 DEF Boot
<1>4. facts' \in Seq(Facts) /\ Len(facts') = Len(file)
  BY <1>1, <1>2, <1>3, IsASeq
<1> QED BY <1>2, <1>3, <1>4

\* What a crash leaves of a persist in progress: some first lines, the last of
\* which may have lost its end, but not its id.
CutShort(store, old) ==
    /\ store \in Seq(Facts) /\ Len(store) <= Len(old)
    /\ \A i \in 1..Len(store) : store[i].id = old[i].id

LEMMA CrashedFile ==
    ASSUME TypeOK, Crash
    PROVE  /\ torn' \in BOOLEAN
           /\ torn => torn'
           /\ file' \in Seq(Facts)
           /\ file' = file \/ CutShort(file', facts)
           /\ ~torn' => file' = file \/ \E n \in 0..Len(facts) : file' = SubSeq(facts, 1, n)
<1>1. facts \in Seq(Facts) /\ Len(facts) \in Nat /\ DOMAIN facts = 1..Len(facts)
  BY DEF TypeOK
<1>2. CASE ~persisting /\ UNCHANGED <<file, torn>>
  BY <1>2 DEF TypeOK
<1>3. ASSUME NEW n \in 0..Len(facts), file' = SubSeq(facts, 1, n), UNCHANGED torn
      PROVE  CutShort(file', facts) /\ torn' \in BOOLEAN
  <2>1. file' \in Seq(Facts) /\ Len(file') = n /\ \A i \in 1..n : file'[i] = facts[i]
    BY <1>1, <1>3
  <2> QED BY <1>1, <1>3, <2>1 DEF CutShort, TypeOK
<1>4. ASSUME NEW k \in DOMAIN facts, NEW fact \in Cut(facts[k]),
             file' = Append(SubSeq(facts, 1, k - 1), fact)
      PROVE  CutShort(file', facts)
  <2> DEFINE front == SubSeq(facts, 1, k - 1)
  <2>1. /\ front \in Seq(Facts) /\ Len(front) = k - 1
        /\ \A i \in 1..(k - 1) : front[i] = facts[i]
    BY <1>1
  <2>2. facts[k] \in Facts
    BY <1>1
  <2>3. fact \in Facts /\ fact.id = facts[k].id
    BY <2>2 DEF Cut, Facts, Unverified, Confidences, Absolute
  <2> HIDE DEF front
  <2>4. file' = Append(front, fact)
    BY <1>4 DEF front
  <2>5. /\ file' \in Seq(Facts) /\ Len(file') = k
        /\ \A i \in 1..(k - 1) : file'[i] = front[i]
        /\ file'[k] = fact
    BY <1>1, <2>1, <2>3, <2>4
  <2>6. \A i \in 1..k : file'[i].id = facts[i].id
    <3>1. \A i \in 1..k : i \in 1..(k - 1) \/ i = k
      BY <1>1
    <3> QED BY <2>1, <2>3, <2>5, <3>1
  <2> QED BY <1>1, <2>5, <2>6 DEF CutShort
<1>5. \/ ~persisting /\ UNCHANGED <<file, torn>>
      \/ \E n \in 0..Len(facts) : file' = SubSeq(facts, 1, n) /\ UNCHANGED torn
      \/ /\ \E i \in DOMAIN facts : \E fact \in Cut(facts[i]) :
               file' = Append(SubSeq(facts, 1, i - 1), fact)
         /\ torn' = TRUE
  BY DEF Crash
<1>6. CASE \E n \in 0..Len(facts) : file' = SubSeq(facts, 1, n) /\ UNCHANGED torn
  BY <1>3, <1>6 DEF CutShort
<1>7. CASE /\ \E i \in DOMAIN facts : \E fact \in Cut(facts[i]) :
               file' = Append(SubSeq(facts, 1, i - 1), fact)
           /\ torn' = TRUE
  BY <1>4, <1>7 DEF CutShort
<1> QED BY <1>2, <1>5, <1>6, <1>7

-----------------------------------------------------------------------------
(* Types and ids.                                                          *)

LEMMA IdsInit == Init => IdsInv
<1> SUFFICES ASSUME Init PROVE IdsInv
  OBVIOUS
<1>1. facts = << >> /\ file = << >> /\ << >> \in Seq(Facts)
  BY DEF Init
<1>2. TypeOK
  BY <1>1 DEF Init, TypeOK
<1>3. IdsAscend /\ Ascend(file)
  BY <1>1 DEF IdsAscend, Ascend
<1> QED BY <1>2, <1>3 DEF IdsInv

LEMMA IdsStep == IdsInv /\ [Next]_vars => IdsInv'
<1> SUFFICES ASSUME IdsInv, [Next]_vars PROVE IdsInv'
  OBVIOUS
<1>1. TypeOK /\ IdsAscend /\ Ascend(file)
  BY DEF IdsInv
<1>2. DOMAIN facts = 1..Len(facts) /\ Len(facts) \in Nat
  BY <1>1 DEF TypeOK
<1>3. ASSUME NEW i \in DOMAIN facts PROVE facts[i].id \in Nat
  <2>1. facts[i] \in Facts
    BY <1>1, <1>3 DEF TypeOK
  <2> QED BY <2>1 DEF Facts
<1>4. CASE Learn \/ Correct
  <2>1. /\ SameKeys \/ \E fact \in Facts : Added(fact)
        /\ UNCHANGED <<up, boots, file, persisting, forgotten, everForgot, torn>>
    BY <1>1, <1>4, LearnEffect
  <2>2. CASE SameKeys
    <3>1. TypeOK'
      BY <1>1, <2>1, <2>2 DEF TypeOK, SameKeys
    <3>2. DOMAIN facts' = DOMAIN facts /\ nextFactId' = nextFactId
      BY <1>2, <2>2 DEF SameKeys
    <3>3. IdsAscend'
      BY <1>1, <2>2, <3>2 DEF IdsAscend, SameKeys
    <3> QED BY <1>1, <2>1, <3>1, <3>3 DEF IdsInv, Ascend
  <2>3. ASSUME NEW fact \in Facts, Added(fact) PROVE IdsInv'
    <3>1. /\ facts' \in Seq(Facts) /\ Len(facts') = Len(facts) + 1
          /\ \A i \in 1..Len(facts) : facts'[i] = facts[i]
          /\ facts'[Len(facts) + 1] = fact
      BY <1>1, <2>3, Appended
    <3>2. TypeOK'
      BY <1>1, <2>1, <2>3, <3>1 DEF TypeOK, Added, Facts
    <3>3. fact.id = nextFactId /\ nextFactId' = nextFactId + 1 /\ nextFactId \in Nat
      BY <1>1, <2>3 DEF Added, TypeOK
    <3>4. \A i \in 1..Len(facts') : i \in 1..Len(facts) \/ i = Len(facts) + 1
      BY <1>2, <3>1
    <3>5. IdsAscend'
      BY <1>1, <1>2, <1>3, <3>1, <3>3, <3>4 DEF IdsAscend
    <3> QED BY <1>1, <2>1, <3>2, <3>5 DEF IdsInv, Ascend
  <2> QED BY <2>1, <2>2, <2>3
<1>5. CASE Forget
  <2>1. PICK i \in DOMAIN facts :
          /\ facts' = RemoveAt(facts, i)
          /\ index' = [index EXCEPT ![facts[i].subject] = @ \ {facts[i].id}]
          /\ forgotten' = forgotten \cup {facts[i].id}
    BY <1>5 DEF Forget
  <2>2. /\ everForgot' = TRUE
        /\ UNCHANGED <<up, boots, nextFactId, file, persisting, torn>>
    BY <1>5 DEF Forget
  <2>3. /\ facts' \in Seq(Facts) /\ Len(facts') = Len(facts) - 1
        /\ \A j \in 1..(Len(facts) - 1) :
             facts'[j] = IF j < i THEN facts[j] ELSE facts[j + 1]
    BY <1>1, <2>1, Erase DEF TypeOK
  <2>4. facts[i] \in Facts /\ facts[i].id \in Nat
    BY <1>1, <1>3 DEF TypeOK
  <2>5. TypeOK'
    BY <1>1, <2>1, <2>2, <2>3, <2>4 DEF TypeOK
  <2>6. IdsAscend'
    <3>1. ASSUME NEW j \in 1..(Len(facts) - 1)
          PROVE  \E k \in DOMAIN facts :
                   facts'[j] = facts[k] /\ k = IF j < i THEN j ELSE j + 1
      BY <1>2, <2>3
    <3>2. ASSUME NEW a \in DOMAIN facts', NEW b \in DOMAIN facts', a < b
          PROVE  facts'[a].id < facts'[b].id
      <4>1. a \in 1..(Len(facts) - 1) /\ b \in 1..(Len(facts) - 1)
        BY <1>2, <2>3
      <4>2. PICK k \in DOMAIN facts :
              facts'[a] = facts[k] /\ k = IF a < i THEN a ELSE a + 1
        BY <3>1, <4>1
      <4>3. PICK l \in DOMAIN facts :
              facts'[b] = facts[l] /\ l = IF b < i THEN b ELSE b + 1
        BY <3>1, <4>1
      <4>4. k < l
        BY <1>2, <3>2, <4>1, <4>2, <4>3
      <4> QED BY <1>1, <4>2, <4>3, <4>4 DEF IdsAscend
    <3>3. ASSUME NEW a \in DOMAIN facts' PROVE facts'[a].id < nextFactId'
      <4>1. a \in 1..(Len(facts) - 1)
        BY <1>2, <2>3
      <4>2. PICK k \in DOMAIN facts : facts'[a] = facts[k]
        BY <3>1, <4>1
      <4> QED BY <1>1, <2>2, <4>2 DEF IdsAscend
    <3> QED BY <3>2, <3>3 DEF IdsAscend
  <2> QED BY <1>1, <2>2, <2>5, <2>6 DEF IdsInv, Ascend
<1>6. CASE PersistOpen
  BY <1>1, <1>6 DEF PersistOpen, IdsInv, TypeOK, IdsAscend, Ascend
<1>7. CASE PersistClose
  BY <1>1, <1>7 DEF PersistClose, IdsInv, TypeOK, IdsAscend, Ascend
<1>8. CASE Crash
  <2>1. /\ file' \in Seq(Facts) /\ torn' \in BOOLEAN
        /\ file' = file \/ CutShort(file', facts)
    BY <1>1, <1>8, CrashedFile
  <2>2. CASE CutShort(file', facts)
    <3>1. Ascend(file')
      BY <1>1, <1>2, <2>1, <2>2 DEF CutShort, Ascend, IdsAscend
    <3> QED BY <1>1, <1>8, <2>1, <3>1 DEF Crash, IdsInv, TypeOK, IdsAscend
  <2>3. CASE file' = file
    BY <1>1, <1>8, <2>1, <2>3 DEF Crash, IdsInv, TypeOK, IdsAscend
  <2> QED BY <2>1, <2>2, <2>3
<1>9. CASE Boot
  <2>1. /\ facts' \in Seq(Facts) /\ Len(facts') = Len(file)
        /\ \A i \in 1..Len(file) : facts'[i].id = file[i].id
    BY <1>1, <1>9, RestoredKeys
  <2>2. file \in Seq(Facts) /\ Len(file) \in Nat
    BY <1>1 DEF TypeOK
  <2>3. /\ nextFactId' \in Nat
        /\ \A i \in 1..Len(file) : file[i].id < nextFactId'
    <3> DEFINE m == Max({-1} \cup Ids(file))
    <3>1. m \in Int /\ m + 1 \in Nat /\ \A i \in DOMAIN file : file[i].id <= m
      BY <1>1, <2>2, LastIsMax
    <3>2. nextFactId' = m + 1
      BY <1>9 DEF Boot
    <3> HIDE DEF m
    <3>3. \A i \in 1..Len(file) : file[i].id \in Nat
      BY <2>2, FactOf
    <3> QED BY <2>2, <3>1, <3>2, <3>3
  <2>4. IdsAscend'
    BY <1>1, <2>1, <2>2, <2>3 DEF IdsAscend, Ascend
  <2>5. index' \in [Subjects -> SUBSET Nat]
    <3>1. \A i \in DOMAIN file : file[i].id \in Nat
      BY <2>2, FactOf
    <3> QED BY <1>9, <3>1 DEF Boot
  <2>6. /\ up' \in BOOLEAN /\ boots' \in Nat /\ persisting' \in BOOLEAN
        /\ forgotten' \in SUBSET Nat /\ UNCHANGED <<file, everForgot, torn>>
    <3>1. /\ up' = TRUE /\ boots' = boots + 1 /\ persisting' = FALSE
          /\ forgotten' = {} /\ UNCHANGED <<file, everForgot, torn>>
      BY <1>9, Zenon DEF Boot
    <3>2. up' \in BOOLEAN /\ persisting' \in BOOLEAN
      BY <3>1, Zenon
    <3>3. boots' \in Nat /\ forgotten' \in SUBSET Nat
      BY <1>1, <3>1 DEF TypeOK
    <3> QED BY <3>1, <3>2, <3>3, Zenon
  <2>7. TypeOK'
    BY <1>1, <2>1, <2>3, <2>5, <2>6 DEF TypeOK
  <2> QED BY <1>1, <2>4, <2>6, <2>7 DEF IdsInv, Ascend
<1>10. CASE UNCHANGED vars
  BY <1>1, <1>10 DEF vars, IdsInv, TypeOK, IdsAscend, Ascend
<1> QED BY <1>4, <1>5, <1>6, <1>7, <1>8, <1>9, <1>10 DEF Next

LEMMA IdsSafe == Spec => []IdsInv
BY IdsInit, IdsStep, PTL DEF Spec

\* Every value of the store and of its file stays in its type.
THEOREM TypeCorrect == Spec => []TypeOK
<1>1. IdsInv => TypeOK
  BY DEF IdsInv
<1> QED BY <1>1, IdsSafe, PTL

\* No two facts ever share an id, and the next id is new.
THEOREM IdsIdentify == Spec => []IdsAscend
<1>1. IdsInv => IdsAscend
  BY DEF IdsInv
<1> QED BY <1>1, IdsSafe, PTL

-----------------------------------------------------------------------------
(* The index, and the ids that were forgotten.                             *)

IdsOf(store, s) == {store[i].id : i \in {j \in DOMAIN store : store[j].subject = s}}

IndexInv == /\ IndexMatchesFacts
            /\ ForgottenStaysForgotten
            /\ \A id \in forgotten : id < nextFactId

\* Stores that agree on ids and subjects have the same index.
LEMMA SameIdsOf ==
    ASSUME NEW old \in Seq(Facts), NEW new \in Seq(Facts), Len(new) = Len(old),
           \A i \in 1..Len(old) : /\ new[i].id = old[i].id
                                  /\ new[i].subject = old[i].subject
    PROVE  Ids(new) = Ids(old) /\ \A s : IdsOf(new, s) = IdsOf(old, s)
<1>1. DOMAIN old = 1..Len(old) /\ DOMAIN new = 1..Len(old)
  OBVIOUS
<1> QED BY <1>1 DEF Ids, IdsOf

LEMMA IndexStep == IdsInv /\ IdsInv' /\ IndexInv /\ [Next]_vars => IndexInv'
<1> SUFFICES ASSUME IdsInv, IdsInv', IndexInv, [Next]_vars PROVE IndexInv'
  OBVIOUS
<1>1. TypeOK /\ TypeOK' /\ IdsAscend
  BY DEF IdsInv
<1>2. /\ \A s \in Subjects : index[s] = IdsOf(facts, s)
      /\ forgotten \cap Ids(facts) = {}
      /\ \A id \in forgotten : id < nextFactId
  BY DEF IndexInv, IndexMatchesFacts, ForgottenStaysForgotten, IdsOf
<1>3. DOMAIN facts = 1..Len(facts) /\ Len(facts) \in Nat
  BY <1>1 DEF TypeOK
<1>4. ASSUME \A s \in Subjects : index'[s] = IdsOf(facts', s),
             forgotten' \cap Ids(facts') = {},
             \A id \in forgotten' : id < nextFactId'
      PROVE  IndexInv'
  BY <1>4 DEF IndexInv, IndexMatchesFacts, ForgottenStaysForgotten, IdsOf
<1>5. CASE Learn \/ Correct
  <2>1. /\ SameKeys \/ \E fact \in Facts : Added(fact)
        /\ UNCHANGED <<up, boots, file, persisting, forgotten, everForgot, torn>>
    BY <1>1, <1>5, LearnEffect
  <2>2. CASE SameKeys
    <3>1. /\ facts' \in Seq(Facts) /\ Len(facts') = Len(facts)
          /\ \A i \in 1..Len(facts) : /\ facts'[i].id = facts[i].id
                                       /\ facts'[i].subject = facts[i].subject
          /\ UNCHANGED <<index, nextFactId>>
      BY <1>3, <2>2 DEF SameKeys
    <3>2. Ids(facts') = Ids(facts) /\ \A s : IdsOf(facts', s) = IdsOf(facts, s)
      BY <1>1, <3>1, SameIdsOf DEF TypeOK
    <3> QED BY <1>2, <1>4, <2>1, <3>1, <3>2
  <2>3. ASSUME NEW fact \in Facts, Added(fact) PROVE IndexInv'
    <3>1. /\ facts' \in Seq(Facts) /\ Len(facts') = Len(facts) + 1
          /\ \A i \in 1..Len(facts) : facts'[i] = facts[i]
          /\ facts'[Len(facts) + 1] = fact
      BY <1>1, <2>3, Appended
    <3>2. DOMAIN facts' = DOMAIN facts \cup {Len(facts) + 1}
      BY <1>3, <3>1
    <3>3. /\ fact.id = nextFactId /\ nextFactId' = nextFactId + 1
          /\ nextFactId \in Nat /\ fact.subject \in Subjects
          /\ index' = [index EXCEPT ![fact.subject] = @ \cup {nextFactId}]
      BY <1>1, <2>3 DEF Added, TypeOK, Facts
    <3>4. Ids(facts') = Ids(facts) \cup {nextFactId}
      BY <1>3, <3>1, <3>2, <3>3 DEF Ids
    <3>5. ASSUME NEW s \in Subjects PROVE index'[s] = IdsOf(facts', s)
      <4>1. CASE s = fact.subject
        <5>1. IdsOf(facts', s) = IdsOf(facts, s) \cup {nextFactId}
          BY <1>3, <3>1, <3>2, <3>3, <4>1 DEF IdsOf
        <5> QED BY <1>1, <1>2, <3>3, <4>1, <5>1 DEF TypeOK
      <4>2. CASE s # fact.subject
        <5>1. IdsOf(facts', s) = IdsOf(facts, s)
          BY <1>3, <3>1, <3>2, <3>3, <4>2 DEF IdsOf
        <5> QED BY <1>1, <1>2, <3>3, <4>2, <5>1 DEF TypeOK
      <4> QED BY <4>1, <4>2
    <3>6. nextFactId \notin forgotten /\ forgotten \in SUBSET Nat
      BY <1>1, <1>2, <3>3 DEF TypeOK
    <3> QED BY <1>2, <1>4, <2>1, <3>3, <3>4, <3>5, <3>6
  <2> QED BY <2>1, <2>2, <2>3
<1>6. CASE Forget
  <2>1. PICK i \in DOMAIN facts :
          /\ facts' = RemoveAt(facts, i)
          /\ index' = [index EXCEPT ![facts[i].subject] = @ \ {facts[i].id}]
          /\ forgotten' = forgotten \cup {facts[i].id}
    BY <1>6 DEF Forget
  <2>2. nextFactId' = nextFactId
    BY <1>6 DEF Forget
  <2>3. /\ facts' \in Seq(Facts) /\ Len(facts') = Len(facts) - 1
        /\ \A j \in 1..(Len(facts) - 1) :
             facts'[j] = IF j < i THEN facts[j] ELSE facts[j + 1]
    BY <1>1, <2>1, Erase DEF TypeOK
  <2>4. ASSUME NEW j \in DOMAIN facts'
        PROVE  \E k \in DOMAIN facts \ {i} : facts'[j] = facts[k]
    BY <1>3, <2>3
  <2>5. ASSUME NEW k \in DOMAIN facts \ {i}
        PROVE  \E j \in DOMAIN facts' : facts'[j] = facts[k]
    <3>1. CASE k < i
      BY <1>3, <2>3, <3>1
    <3>2. CASE k > i
      <4>1. k - 1 \in DOMAIN facts' /\ facts'[k - 1] = facts[k]
        BY <1>3, <2>3, <3>2
      <4> QED BY <4>1
    <3> QED BY <1>3, <3>1, <3>2
  <2>6. ASSUME NEW k \in DOMAIN facts \ {i} PROVE facts[k].id # facts[i].id
    <3>1. facts[k].id \in Nat /\ facts[i].id \in Nat
      BY <1>1, FactOf DEF TypeOK
    <3>2. k < i \/ i < k
      BY <1>3
    <3> QED BY <1>1, <3>1, <3>2 DEF IdsAscend
  <2>7. ASSUME NEW s \in Subjects PROVE index'[s] = IdsOf(facts', s)
    <3>1. IdsOf(facts', s) = IdsOf(facts, s) \ {facts[i].id}
      BY <2>4, <2>5, <2>6 DEF IdsOf
    <3>2. CASE s = facts[i].subject
      BY <1>1, <1>2, <2>1, <3>1, <3>2 DEF TypeOK
    <3>3. CASE s # facts[i].subject
      <4>1. facts[i].id \notin IdsOf(facts, s)
        BY <2>6, <3>3 DEF IdsOf
      <4> QED BY <1>1, <1>2, <2>1, <3>1, <3>3, <4>1 DEF TypeOK
    <3> QED BY <3>2, <3>3
  <2>8. Ids(facts') \subseteq Ids(facts) /\ facts[i].id \notin Ids(facts')
    BY <2>4, <2>6 DEF Ids
  <2>9. \A id \in forgotten' : id < nextFactId'
    BY <1>1, <1>2, <2>1, <2>2 DEF IdsAscend
  <2>10. forgotten' \cap Ids(facts') = {}
    BY <1>2, <2>1, <2>8
  <2> QED BY <1>4, <2>7, <2>9, <2>10
<1>7. CASE PersistOpen \/ PersistClose \/ Crash \/ UNCHANGED vars
  <2>1. UNCHANGED <<facts, index, nextFactId, forgotten>>
    BY <1>7 DEF PersistOpen, PersistClose, Crash, vars
  <2> QED BY <1>2, <1>4, <2>1
<1>8. CASE Boot
  <2>1. /\ facts' \in Seq(Facts) /\ Len(facts') = Len(file)
        /\ \A i \in 1..Len(file) : /\ facts'[i].id = file[i].id
                                    /\ facts'[i].subject = file[i].subject
    BY <1>1, <1>8, RestoredKeys
  <2>2. \A s : IdsOf(facts', s) = IdsOf(file, s)
    BY <1>1, <2>1, SameIdsOf DEF TypeOK
  <2>3. \A s \in Subjects : index'[s] = IdsOf(file, s)
    BY <1>8 DEF Boot, IdsOf
  <2>4. forgotten' = {}
    BY <1>8 DEF Boot
  <2> QED BY <1>4, <2>2, <2>3, <2>4
<1> QED BY <1>5, <1>6, <1>7, <1>8 DEF Next

LEMMA IndexSafe == Spec => []IndexInv
<1>1. Init => IndexInv
  <2> SUFFICES ASSUME Init PROVE IndexInv
    OBVIOUS
  <2>1. DOMAIN facts = {} /\ forgotten = {} /\ index = [s \in Subjects |-> {}]
    BY DEF Init
  <2> QED BY <2>1 DEF IndexInv, IndexMatchesFacts, ForgottenStaysForgotten
<1> QED BY <1>1, IdsSafe, IndexStep, PTL DEF Spec

\* The subject index is exact: through learning, forgetting and restarts it
\* holds the ids of each subject's facts and no others.
THEOREM IndexIsExact == Spec => []IndexMatchesFacts
<1>1. IndexInv => IndexMatchesFacts
  BY DEF IndexInv
<1> QED BY <1>1, IndexSafe, PTL

\* Within a run, an id that was forgotten is never given to another fact.
THEOREM ForgettingIsFinal == Spec => []ForgottenStaysForgotten
<1>1. IndexInv => ForgottenStaysForgotten
  BY DEF IndexInv
<1> QED BY <1>1, IndexSafe, PTL

\* The three together, as the runs check them.
THEOREM IndexIsSound == Spec => []IndexSound
<1> QED BY IdsIdentify, IndexIsExact, ForgettingIsFinal, PTL DEF IndexSound

-----------------------------------------------------------------------------
(* Queries until the first fact is forgotten: in memory and in the file    *)
(* every id is a position, and a subject has one fact per predicate.       *)

Positions(store) == \A i \in DOMAIN store : store[i].id = i - 1

OneEach(store) ==
    \A i, j \in DOMAIN store :
        /\ store[i].subject = store[j].subject
        /\ store[i].predicate = store[j].predicate
        => i = j

Aligned ==
    ~everForgot => /\ Positions(facts) /\ Positions(file)
                   /\ torn \/ (OneEach(facts) /\ OneEach(file))
                   /\ nextFactId = Len(facts)

\* While ids are positions, the index leads exactly to a subject's facts.
LEMMA AlignedQueries == TypeOK /\ IndexMatchesFacts /\ Aligned => SoundUntilForget
<1> SUFFICES ASSUME TypeOK, IndexMatchesFacts, Positions(facts),
                    torn \/ OneEach(facts)
             PROVE  /\ \A s \in Subjects : \A id \in index[s] :
                         InRange(id) /\ Slot(id).subject = s
                    /\ \A i \in DOMAIN facts : i - 1 \in index[facts[i].subject]
                    /\ torn \/ OneEach(facts)
  BY DEF Aligned, SoundUntilForget, OneEach
<1>1. DOMAIN facts = 1..Len(facts) /\ Len(facts) \in Nat
  BY DEF TypeOK
<1>2. ASSUME NEW s \in Subjects, NEW id \in index[s]
      PROVE  InRange(id) /\ Slot(id).subject = s
  <2>1. PICK i \in DOMAIN facts : facts[i].subject = s /\ id = facts[i].id
    BY DEF IndexMatchesFacts
  <2>2. id = i - 1
    BY <2>1 DEF Positions
  <2>3. id + 1 = i /\ id < Len(facts)
    BY <1>1, <2>2
  <2> QED BY <2>1, <2>3 DEF InRange, Slot
<1>3. ASSUME NEW i \in DOMAIN facts PROVE i - 1 \in index[facts[i].subject]
  <2>1. facts[i].subject \in Subjects
    BY FactOf DEF TypeOK
  <2>2. facts[i].id \in index[facts[i].subject]
    BY <2>1 DEF IndexMatchesFacts
  <2> QED BY <2>2 DEF Positions
<1> QED BY <1>2, <1>3

\* Stores that agree on ids, subjects and predicates are aligned alike.
LEMMA SameAlignment ==
    ASSUME NEW old \in Seq(Facts), NEW new \in Seq(Facts), Len(new) <= Len(old),
           \A i \in 1..Len(new) : /\ new[i].id = old[i].id
                                  /\ new[i].subject = old[i].subject
                                  /\ new[i].predicate = old[i].predicate
    PROVE  /\ Positions(old) => Positions(new)
           /\ OneEach(old) => OneEach(new)
<1>1. DOMAIN new = 1..Len(new) /\ 1..Len(new) \subseteq DOMAIN old
  OBVIOUS
<1> QED BY <1>1 DEF Positions, OneEach

LEMMA AlignedStep ==
    IdsInv /\ IdsInv' /\ IndexInv /\ Aligned /\ [Next]_vars => Aligned'
<1> SUFFICES ASSUME IdsInv, IdsInv', IndexInv, Aligned, [Next]_vars, ~everForgot'
             PROVE  /\ Positions(facts') /\ Positions(file')
                    /\ torn' \/ (OneEach(facts') /\ OneEach(file'))
                    /\ nextFactId' = Len(facts')
  BY DEF Aligned, Positions, OneEach
<1>1. TypeOK /\ TypeOK' /\ IndexMatchesFacts
  BY DEF IdsInv, IndexInv
<1>2. ~everForgot
  BY DEF Next, Learn, Correct, Forget, PersistOpen, PersistClose, Crash, Boot, vars
<1>3. /\ Positions(facts) /\ Positions(file)
      /\ torn \/ (OneEach(facts) /\ OneEach(file))
      /\ nextFactId = Len(facts)
  BY <1>2 DEF Aligned
<1>4. DOMAIN facts = 1..Len(facts) /\ Len(facts) \in Nat /\ facts \in Seq(Facts)
  BY <1>1 DEF TypeOK
<1>5. file \in Seq(Facts) /\ Len(file) \in Nat
  BY <1>1 DEF TypeOK
<1>6. CASE Learn \/ Correct
  <2>1. /\ SameKeys \/ \E fact \in Facts : Added(fact)
        /\ UNCHANGED <<file, torn>>
    BY <1>1, <1>6, LearnEffect
  <2>2. CASE SameKeys
    <3>1. Positions(facts') /\ (torn \/ OneEach(facts'))
      <4>1. /\ facts' \in Seq(Facts) /\ Len(facts') = Len(facts)
            /\ \A i \in 1..Len(facts') : /\ facts'[i].id = facts[i].id
                                          /\ facts'[i].subject = facts[i].subject
                                          /\ facts'[i].predicate = facts[i].predicate
        BY <1>4, <2>2 DEF SameKeys
      <4> QED BY <1>3, <1>4, <4>1, SameAlignment
    <3> QED BY <1>3, <2>1, <2>2, <3>1 DEF SameKeys
  <2>3. ASSUME NEW fact \in Facts, Added(fact)
        PROVE  /\ Positions(facts') /\ (torn \/ OneEach(facts'))
               /\ nextFactId' = Len(facts')
    <3>1. /\ facts' \in Seq(Facts) /\ Len(facts') = Len(facts) + 1
          /\ \A i \in 1..Len(facts) : facts'[i] = facts[i]
          /\ facts'[Len(facts) + 1] = fact
      BY <1>1, <2>3, Appended
    <3>2. DOMAIN facts' = DOMAIN facts \cup {Len(facts) + 1}
      BY <1>4, <3>1
    <3>3. /\ fact.id = Len(facts) /\ nextFactId' = Len(facts')
          /\ Matches(fact.subject, fact.predicate) = {}
          /\ fact.subject \in Subjects
      BY <1>3, <2>3, <3>1 DEF Added, Facts
    <3>4. Positions(facts')
      BY <1>3, <1>4, <3>1, <3>2, <3>3 DEF Positions
    <3>5. ASSUME NEW i \in DOMAIN facts, facts[i].subject = fact.subject
          PROVE  facts[i].predicate # fact.predicate
      <4>1. facts[i].id \in index[fact.subject]
        BY <1>1, <3>3, <3>5 DEF IndexMatchesFacts
      <4>2. facts[i].id = i - 1 /\ InRange(i - 1) /\ Slot(i - 1) = facts[i]
        BY <1>3, <1>4 DEF Positions, InRange, Slot
      <4> QED BY <3>3, <4>1, <4>2 DEF Matches
    <3>6. torn \/ OneEach(facts')
      BY <1>3, <1>4, <3>1, <3>2, <3>5 DEF OneEach
    <3> QED BY <3>3, <3>4, <3>6
  <2> QED BY <1>3, <2>1, <2>2, <2>3
<1>7. CASE Forget
  BY <1>7 DEF Forget
<1>8. CASE PersistOpen
  <2>1. file' = << >> /\ UNCHANGED <<facts, nextFactId, torn>>
    BY <1>8 DEF PersistOpen
  <2>2. DOMAIN file' = {}
    BY <2>1
  <2> QED BY <1>3, <2>1, <2>2 DEF Positions, OneEach
<1>9. CASE PersistClose
  <2>1. file' = facts /\ UNCHANGED <<facts, nextFactId, torn>>
    BY <1>9 DEF PersistClose
  <2> QED BY <1>3, <2>1
<1>10. CASE Crash
  <2>1. UNCHANGED <<facts, nextFactId>>
    BY <1>10 DEF Crash
  <2>2. /\ torn => torn'
        /\ file' \in Seq(Facts)
        /\ file' = file \/ CutShort(file', facts)
        /\ ~torn' => file' = file \/ \E n \in 0..Len(facts) : file' = SubSeq(facts, 1, n)
    BY <1>1, <1>10, CrashedFile
  <2>3. Positions(file')
    <3>1. CASE CutShort(file', facts)
      BY <1>3, <1>4, <2>2, <3>1 DEF CutShort, Positions
    <3> QED BY <1>3, <2>2, <3>1
  <2>4. ASSUME NEW n \in 0..Len(facts), file' = SubSeq(facts, 1, n), OneEach(facts)
        PROVE  OneEach(file')
    <3>1. /\ file' \in Seq(Facts) /\ Len(file') = n
          /\ \A i \in 1..n : file'[i] = facts[i]
      BY <1>4, <2>4
    <3>2. /\ Len(file') <= Len(facts)
          /\ \A i \in 1..Len(file') : /\ file'[i].id = facts[i].id
                                       /\ file'[i].subject = facts[i].subject
                                       /\ file'[i].predicate = facts[i].predicate
      BY <1>4, <3>1
    <3> QED BY <1>4, <2>4, <3>1, <3>2, SameAlignment
  <2>5. torn' \/ (OneEach(facts') /\ OneEach(file'))
    <3> SUFFICES ASSUME ~torn' PROVE OneEach(facts') /\ OneEach(file')
      OBVIOUS
    <3>1. OneEach(facts) /\ OneEach(file) /\ facts' = facts
      BY <1>3, <2>1, <2>2
    <3>2. CASE file' = file
      BY <3>1, <3>2
    <3>3. CASE \E n \in 0..Len(facts) : file' = SubSeq(facts, 1, n)
      BY <2>4, <3>1, <3>3
    <3> QED BY <2>2, <3>2, <3>3
  <2> QED BY <1>3, <2>1, <2>3, <2>5
<1>11. CASE Boot
  <2>1. /\ facts' \in Seq(Facts) /\ Len(facts') = Len(file)
        /\ \A i \in 1..Len(file) : /\ facts'[i].id = file[i].id
                                    /\ facts'[i].subject = file[i].subject
                                    /\ facts'[i].predicate = file[i].predicate
    BY <1>1, <1>11, RestoredKeys
  <2>2. Positions(facts') /\ (torn \/ OneEach(facts'))
    BY <1>3, <1>5, <2>1, SameAlignment
  <2>3. nextFactId' = Len(file)
    <3> DEFINE m == Max({-1} \cup Ids(file))
    <3>1. /\ file = << >> => m = -1
          /\ file # << >> => m = file[Len(file)].id
      BY <1>5, LastIsMax DEF IdsInv
    <3>2. nextFactId' = m + 1
      BY <1>11 DEF Boot
    <3> HIDE DEF m
    <3>3. CASE file = << >>
      BY <3>1, <3>2, <3>3
    <3>4. CASE file # << >>
      <4>1. Len(file) \in DOMAIN file
        BY <1>5, <3>4
      <4>2. m = Len(file) - 1
        BY <1>3, <3>1, <3>4, <4>1 DEF Positions
      <4> QED BY <1>5, <3>2, <4>2
    <3> QED BY <3>3, <3>4
  <2>4. UNCHANGED <<file, torn>>
    BY <1>11 DEF Boot
  <2> QED BY <1>3, <2>1, <2>2, <2>3, <2>4
<1>12. CASE UNCHANGED vars
  BY <1>3, <1>12 DEF vars
<1> QED BY <1>6, <1>7, <1>8, <1>9, <1>10, <1>11, <1>12 DEF Next

\* Until a fact is forgotten queryFacts reads only slots that exist, returns
\* exactly the facts about its subject, and, but for a line a crash cut short,
\* learnFact keeps one per predicate.
THEOREM QueriesAreSound == Spec => []SoundUntilForget
<1>1. Init => Aligned
  <2> SUFFICES ASSUME Init PROVE Aligned
    OBVIOUS
  <2>1. facts = << >> /\ file = << >> /\ nextFactId = 0
    BY DEF Init
  <2> QED BY <2>1 DEF Aligned, Positions, OneEach
<1>2. Spec => []Aligned
  BY <1>1, IdsSafe, IndexSafe, AlignedStep, PTL DEF Spec
<1>3. IdsInv /\ IndexInv /\ Aligned => SoundUntilForget
  BY AlignedQueries DEF IdsInv, IndexInv
<1> QED BY <1>2, <1>3, IdsSafe, IndexSafe, PTL
=============================================================================
