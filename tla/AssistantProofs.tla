-------------------------- MODULE AssistantProofs --------------------------
(***************************************************************************)
(* What holds of Assistant for every value of its constants: its types,    *)
(* the mutual exclusion of the two threads, the delivery of Telegram       *)
(* updates, the order of the window, and what is only in memory.           *)
(***************************************************************************)
EXTENDS Assistant, FiniteSetTheorems, TLAPS

USE DEF server, process, repl, poller, storage, history

-----------------------------------------------------------------------------
(* The operators on the window and on the interactions keep type and bound. *)

\* commitToShortTerm never lets the window grow past maxContextTurns.
LEMMA CommitType ==
    ASSUME NEW role \in {"user", "mk"}, NEW exchange \in Exchanges,
           NEW window \in Seq(Turns), Len(window) <= MaxContextTurns
    PROVE  /\ Commit(role, exchange, window) \in Seq(Turns)
           /\ Len(Commit(role, exchange, window)) <= MaxContextTurns
<1> DEFINE turn == [role |-> role, of |-> exchange]
           kept == IF Len(window) >= MaxContextTurns
                     THEN SubSeq(window, 3, Len(window)) ELSE window
<1>1. turn \in Turns
  BY DEF Turns
<1>2. kept \in Seq(Turns) /\ Len(kept) + 1 <= MaxContextTurns
  <2>1. CASE Len(window) >= MaxContextTurns
    BY <2>1, ParametersAssumption
  <2>2. CASE Len(window) < MaxContextTurns
    BY <2>2, ParametersAssumption
  <2> QED BY <2>1, <2>2, ParametersAssumption
<1>3. Commit(role, exchange, window) = Append(kept, turn)
  BY DEF Commit
<1> HIDE DEF turn, kept
<1> QED BY <1>1, <1>2, <1>3, ParametersAssumption

\* pruneIfNeeded never leaves more than maxInteractions entries.
LEMMA PruneType ==
    ASSUME NEW entries \in Seq(LineIds)
    PROVE  Prune(entries) \in Seq(LineIds) /\ Len(Prune(entries)) <= MaxInteractions
<1>1. CASE Len(entries) > MaxInteractions
  <2> DEFINE from == Len(entries) - MaxInteractions + 1
  <2>1. from \in 1..Len(entries) /\ Len(entries) - from + 1 = MaxInteractions
    BY <1>1, ParametersAssumption
  <2>2. Prune(entries) = SubSeq(entries, from, Len(entries))
    BY <1>1 DEF Prune
  <2> HIDE DEF from
  <2> QED BY <2>1, <2>2, ParametersAssumption
<1>2. CASE Len(entries) <= MaxInteractions
  BY <1>2, ParametersAssumption DEF Prune
<1> QED BY <1>1, <1>2, ParametersAssumption

-----------------------------------------------------------------------------
(* Type correctness.  The ids a step uses exist: a line has been read when *)
(* the REPL thread works on it, and the poller never runs past what was    *)
(* sent.                                                                   *)

IdsInRange ==
    /\ mainPc \in {"workLock", "work", "reply", "trackLock", "track"} => lines >= 1
    /\ confirmed <= Len(updates) + 1
    /\ lastUpdateId <= Len(updates) + 1
    /\ last <= Len(updates)
    /\ next <= last + 1
    /\ Handling => next >= 2

TypeInv == TypeOK /\ IdsInRange

LEMMA TypeInit == Init => TypeInv
BY ParametersAssumption
   DEF Init, TypeInv, TypeOK, IdsInRange, Handling, MainPcs, MainLocked, MainUnlocked,
       MainWaiting, PollPcs, PollLocked, LineKinds, UpdateIds

LEMMA TypeMain == TypeInv /\ MainStep => TypeInv'
<1> SUFFICES ASSUME TypeInv, MainStep PROVE TypeInv'
  OBVIOUS
<1> USE ParametersAssumption
    DEF TypeInv, TypeOK, IdsInRange, Handling, MainPcs, MainLocked, MainUnlocked,
        MainWaiting, Acquire, Release
<1>1. CASE MainCheck BY <1>1 DEF MainCheck
<1>2. CASE MainGetline
  <2>1. PICK kind \in LineKinds :
          /\ input' = kind
          /\ running' = (running /\ kind # "quit")
          /\ mainPc' = CASE kind = "empty" -> "check"
                         [] kind \in {"local", "quit"} -> "trackLock"
                         [] OTHER -> "workLock"
    BY <1>2 DEF MainGetline
  <2>2. mainPc' \in {"check", "trackLock", "workLock"}
    BY <2>1
  <2>3. input' \in LineKinds /\ running' \in BOOLEAN
    BY <2>1
  <2>4. lines' \in 0..MaxLines /\ lines' >= 1
    <3>1. lines < MaxLines /\ lines' = lines + 1
      BY <1>2, Zenon DEF MainGetline
    <3> QED BY <3>1
  <2>5. UNCHANGED <<server, up, boots, mutex, interactionCount, poller,
                    shortTerm, storage, history>>
    BY <1>2 DEF MainGetline
  <2> QED BY <2>2, <2>3, <2>4, <2>5
<1>3. CASE MainEOF BY <1>3 DEF MainEOF
<1>4. CASE MainLock BY <1>4 DEF MainLock
<1>5. CASE MainCommand BY <1>5 DEF MainCommand
<1>6. ASSUME mainPc \in {"work", "reply"}
      PROVE  Append(memory, lines) \in Seq(LineIds)
  BY <1>6 DEF LineIds
<1>7. CASE MainMath
  <2>1. memory' \in Seq(LineIds) /\ Len(memory') <= MaxInteractions
    BY <1>6, <1>7, PruneType DEF MainMath, Record
  <2> QED BY <1>7, <2>1 DEF MainMath
<1>8. ASSUME mainPc \in {"work", "reply", "track"}
      PROVE  Line(lines) \in Exchanges
  BY <1>8 DEF Line, Exchanges, LineIds
<1>9. CASE MainAsk
  <2>1. shortTerm' \in Seq(Turns) /\ Len(shortTerm') <= MaxContextTurns
    BY <1>8, <1>9, CommitType DEF MainAsk
  <2> QED BY <1>9, <2>1 DEF MainAsk
<1>10. CASE MainReply
  <2>1. shortTerm' \in Seq(Turns) /\ Len(shortTerm') <= MaxContextTurns
    BY <1>8, <1>10, CommitType DEF MainReply
  <2>2. memory' \in Seq(LineIds) /\ Len(memory') <= MaxInteractions
    BY <1>6, <1>10, PruneType DEF MainReply, Record
  <2> QED BY <1>10, <2>1, <2>2 DEF MainReply
<1>11. CASE MainTrack
  <2>1. shortTerm' \in Seq(Turns) /\ Len(shortTerm') <= MaxContextTurns
    BY <1>8, <1>11, CommitType DEF MainTrack
  <2>2. mainPc' \in {"saveLock", "check"} /\ interactionCount' \in Nat
    <3>1. mainPc' = "saveLock" \/ mainPc' = "check"
      BY <1>11, Zenon DEF MainTrack
    <3> QED BY <1>11, <3>1 DEF MainTrack
  <2>3. /\ mutex' = "free"
        /\ UNCHANGED <<server, process, input, lines, poller, storage, history>>
    BY <1>11, Zenon DEF MainTrack
  <2> QED BY <2>1, <2>2, <2>3
<1>12. CASE MainOpen BY <1>12 DEF MainOpen
<1>13. CASE MainOpenFails
  <2>1. failedSaves' \in Nat
    BY <1>13 DEF MainOpenFails
  <2>2. mainPc' \in {"check", "persist"} /\ mutex' \in {"free", mutex}
    BY <1>13, Zenon DEF MainOpenFails
  <2>3. UNCHANGED <<server, process, input, lines, interactionCount, poller,
                    shortTerm, memory, disk, history>>
    BY <1>13 DEF MainOpenFails
  <2> QED BY <2>1, <2>2, <2>3
<1>14. CASE MainClose BY <1>14 DEF MainClose
<1>15. CASE MainJoin BY <1>15 DEF MainJoin
<1>16. CASE MainExit BY <1>16 DEF MainExit
<1> QED BY <1>1, <1>2, <1>3, <1>4, <1>5, <1>7, <1>9, <1>10, <1>11, <1>12,
           <1>13, <1>14, <1>15, <1>16 DEF MainStep

LEMMA TypePoll == TypeInv /\ PollStep => TypeInv'
<1> SUFFICES ASSUME TypeInv, PollStep PROVE TypeInv'
  OBVIOUS
<1> USE ParametersAssumption
    DEF TypeInv, TypeOK, IdsInRange, Handling, PollPcs, PollLocked, Acquire,
        Release, UpdateIds
<1>1. CASE PollCheck BY <1>1 DEF PollCheck
<1>2. CASE PollLock BY <1>2 DEF PollLock
<1>3. Confirm \in 1..(MaxUpdates + 1) /\ Confirm <= Len(updates) + 1
  BY DEF Confirm
<1>4. ASSUME NEW from \in 1..(MaxUpdates + 1), from <= Len(updates) + 1
      PROVE  Newest(from) \in 0..MaxUpdates /\ Newest(from) <= Len(updates)
             /\ from <= Newest(from) + 1
  BY <1>4 DEF Newest
<1>5. CASE FetchDelivered
  <2>1. /\ confirmed' = Confirm /\ next' = Confirm
        /\ last' = Newest(Confirm) /\ pollPc' = "parse"
    BY <1>5 DEF FetchDelivered
  <2> QED BY <1>3, <1>4, <1>5, <2>1 DEF FetchDelivered
<1>6. CASE FetchLost
  <2>1. confirmed' \in 1..(MaxUpdates + 1) /\ confirmed' <= Len(updates) + 1
    BY <1>3, <1>6, Zenon DEF FetchLost
  <2>2. /\ next' = 1 /\ last' = 0 /\ pollPc' = "parse" /\ mutex' = "free"
        /\ UNCHANGED <<updates, process, repl, lastUpdateId, shortTerm, storage,
                       history>>
    BY <1>6, Zenon DEF FetchLost
  <2> HIDE DEF Acquire, Release
  <2> QED BY <2>1, <2>2
<1> DEFINE Counted(u) == /\ done' = done \cup {u}
                         /\ handled' = [handled EXCEPT ![u] = @ + 1]
<1>7. ASSUME NEW u \in UpdateIds, Counted(u)
      PROVE  done' \in SUBSET UpdateIds /\ handled' \in [UpdateIds -> Nat]
  <2>1. handled[u] + 1 \in Nat
    OBVIOUS
  <2> QED BY <1>7, <2>1, Zenon
<1>14. CASE PollParse
  <2> HIDE DEF Acquire, Release
  <2>1. /\ next \in UpdateIds /\ next <= last /\ next' = next + 1
        /\ UNCHANGED <<server, process, mutex, repl, last, shortTerm, storage>>
    BY <1>14 DEF PollParse, PollParseTo
  <2>2. /\ lastUpdateId' = lastUpdateId \/ lastUpdateId' = next + 1
        /\ pollPc' = "parse" \/ pollPc' = "handleLock"
        /\ UNCHANGED history \/ Counted(next)
    BY <1>14, Zenon DEF PollParse, PollParseTo
  <2>3. done' \in SUBSET UpdateIds /\ handled' \in [UpdateIds -> Nat]
    BY <1>7, <2>1, <2>2
  <2>4. /\ lastUpdateId' \in 0..(MaxUpdates + 1) /\ lastUpdateId' <= Len(updates) + 1
        /\ next' \in 2..(MaxUpdates + 1) /\ pollPc' \in PollPcs
    BY <2>1, <2>2
  <2> HIDE DEF Counted
  <2> QED BY <2>1, <2>3, <2>4
<1>8. CASE PollParsed BY <1>8 DEF PollParsed
<1>9. CASE PollSleep BY <1>9 DEF PollSleep
<1>10. ASSUME pollPc \in {"handle", "reply"}
       PROVE  Current \in UpdateIds /\ Update(Current) \in Exchanges
  BY <1>10 DEF Current, Update, Exchanges
<1>11. CASE PollCommand
  <2>1. done' \in SUBSET UpdateIds /\ handled' \in [UpdateIds -> Nat]
    BY <1>7, <1>10, <1>11 DEF PollCommand, Finished
  <2> QED BY <1>11, <2>1 DEF PollCommand, Finished
<1>12. CASE PollAsk
  <2>1. shortTerm' \in Seq(Turns) /\ Len(shortTerm') <= MaxContextTurns
    BY <1>10, <1>12, CommitType DEF PollAsk
  <2> QED BY <1>12, <2>1 DEF PollAsk
<1>13. CASE PollReply
  <2>1. shortTerm' \in Seq(Turns) /\ Len(shortTerm') <= MaxContextTurns
    BY <1>10, <1>13, CommitType DEF PollReply
  <2>2. done' \in SUBSET UpdateIds /\ handled' \in [UpdateIds -> Nat]
    BY <1>7, <1>10, <1>13 DEF PollReply, Finished
  <2> QED BY <1>13, <2>1, <2>2 DEF PollReply, Finished
<1> QED BY <1>1, <1>2, <1>5, <1>6, <1>8, <1>9, <1>11, <1>12, <1>13, <1>14
        DEF PollStep

LEMMA TypeEnvironment == TypeInv /\ Environment => TypeInv'
<1> SUFFICES ASSUME TypeInv, Environment PROVE TypeInv'
  OBVIOUS
<1> USE ParametersAssumption DEF TypeInv, TypeOK, IdsInRange, Handling
<1>1. CASE UserSends
  <2>1. PICK kind \in UpdateKinds : updates' = Append(updates, kind)
    BY <1>1 DEF UserSends
  <2>2. updates' \in Seq(UpdateKinds) /\ Len(updates') = Len(updates) + 1
    BY <2>1
  <2> QED BY <1>1, <2>2 DEF UserSends
<1>2. CASE Signal BY <1>2 DEF Signal
<1>3. CASE Crash
  <2>1. disk' \in Seq(LineIds)
    <3>1. ASSUME NEW n \in 0..Len(memory), disk' = SubSeq(memory, 1, n)
          PROVE  disk' \in Seq(LineIds)
      BY <3>1
    <3> QED BY <1>3, <3>1 DEF Crash
  <2> QED BY <1>3, <2>1 DEF Crash
<1>4. CASE Boot
  <2>1. memory' \in Seq(LineIds) /\ Len(memory') <= MaxInteractions
    BY <1>4, PruneType DEF Boot
  <2> QED BY <1>4, <2>1 DEF Boot, MainPcs, PollPcs, LineKinds, UpdateIds
<1> QED BY <1>1, <1>2, <1>3, <1>4 DEF Environment

LEMMA TypeStep == TypeInv /\ [Next]_vars => TypeInv'
<1>1. TypeInv /\ UNCHANGED vars => TypeInv'
  BY DEF TypeInv, TypeOK, IdsInRange, Handling, vars
<1> QED BY <1>1, TypeMain, TypePoll, TypeEnvironment DEF Next

\* Every value stays in its type and every container within its limit: the
\* window of commitToShortTerm, the interactions of recordInteraction, the ids
\* the poller derives from the replies.
THEOREM TypeCorrect == Spec => []TypeOK
<1>1. Spec => []TypeInv
  BY TypeInit, TypeStep, PTL DEF Spec
<1> QED BY <1>1, PTL DEF TypeInv

-----------------------------------------------------------------------------
(* Mutual exclusion.  The lock says which thread is in a critical section; *)
(* the unlocked end of shutdown is covered by the join before it.          *)

LockInv ==
    up => /\ mutex = "main" <=> mainPc \in MainLocked
          /\ mutex = "poll" <=> pollPc \in PollLocked
          /\ mainPc \in MainUnlocked => pollPc \in {"off", "exited"}

LEMMA LockInit == Init => LockInv
BY DEF Init, LockInv, MainLocked, MainUnlocked, PollLocked

LEMMA LockMain == LockInv /\ MainStep => LockInv'
<1> SUFFICES ASSUME LockInv, MainStep PROVE LockInv'
  OBVIOUS
<1> USE DEF LockInv, MainLocked, MainUnlocked, MainWaiting, PollLocked, Acquire,
            Release
<1>1. CASE MainCheck BY <1>1 DEF MainCheck
<1>2. CASE MainGetline
  <2>1. /\ up /\ mainPc = "getline"
        /\ mainPc' \notin MainLocked \cup MainUnlocked
        /\ UNCHANGED <<up, mutex, pollPc>>
    BY <1>2 DEF MainGetline
  <2> QED BY <2>1
<1>3. CASE MainEOF BY <1>3 DEF MainEOF
<1>4. CASE MainLock BY <1>4 DEF MainLock
<1>5. CASE MainCommand BY <1>5 DEF MainCommand
<1>6. CASE MainMath BY <1>6 DEF MainMath
<1>7. CASE MainAsk BY <1>7 DEF MainAsk
<1>8. CASE MainReply BY <1>8 DEF MainReply
<1>9. CASE MainTrack
  <2>1. /\ up /\ mainPc = "track" /\ mutex' = "free"
        /\ mainPc' = "saveLock" \/ mainPc' = "check"
        /\ UNCHANGED <<up, pollPc>>
    BY <1>9, Zenon DEF MainTrack
  <2> QED BY <2>1
<1>10. CASE MainOpen BY <1>10 DEF MainOpen
<1>11. CASE MainOpenFails BY <1>11 DEF MainOpenFails
<1>12. CASE MainClose BY <1>12 DEF MainClose
<1>13. CASE MainJoin BY <1>13 DEF MainJoin
<1>14. CASE MainExit BY <1>14 DEF MainExit
<1> QED BY <1>1, <1>2, <1>3, <1>4, <1>5, <1>6, <1>7, <1>8, <1>9, <1>10, <1>11,
           <1>12, <1>13, <1>14 DEF MainStep

LEMMA LockPoll == LockInv /\ PollStep => LockInv'
<1> SUFFICES ASSUME LockInv, PollStep PROVE LockInv'
  OBVIOUS
<1> USE DEF LockInv, MainLocked, MainUnlocked, PollLocked, Acquire, Release
<1>1. CASE PollCheck BY <1>1 DEF PollCheck
<1>2. CASE PollLock BY <1>2 DEF PollLock
<1>3. CASE FetchDelivered BY <1>3 DEF FetchDelivered
<1>4. CASE FetchLost BY <1>4 DEF FetchLost
<1>5. CASE PollParse BY <1>5 DEF PollParse, PollParseTo
<1>6. CASE PollParsed BY <1>6 DEF PollParsed
<1>7. CASE PollSleep BY <1>7 DEF PollSleep
<1>8. CASE PollCommand BY <1>8 DEF PollCommand, Finished
<1>9. CASE PollAsk BY <1>9 DEF PollAsk
<1>10. CASE PollReply BY <1>10 DEF PollReply, Finished
<1> QED BY <1>1, <1>2, <1>3, <1>4, <1>5, <1>6, <1>7, <1>8, <1>9, <1>10
        DEF PollStep

LEMMA LockStep == LockInv /\ [Next]_vars => LockInv'
<1>1. LockInv /\ Environment => LockInv'
  BY DEF LockInv, Environment, UserSends, Signal, Crash, Boot, MainLocked,
         MainUnlocked, PollLocked
<1>2. LockInv /\ UNCHANGED vars => LockInv'
  BY DEF LockInv, vars
<1> QED BY <1>1, <1>2, LockMain, LockPoll DEF Next

\* The comment at mk_entry.cpp:335 is true of every interleaving: the REPL
\* thread and the polling thread never use the shared components at once.
THEOREM MutualExclusion == Spec => []SharedAccessExclusive
<1>1. LockInv => SharedAccessExclusive
  BY DEF LockInv, SharedAccessExclusive, MainTouchesShared, PollTouchesShared,
         MainLocked, MainUnlocked, PollLocked
<1> QED BY <1>1, LockInit, LockStep, PTL DEF Spec

-----------------------------------------------------------------------------
(* Delivery.  Everything below Position has been handled, except the       *)
(* update in hand; nothing from Position on has been handled since boot;   *)
(* the server has forgotten at most what lies below Position; the parser   *)
(* always stands at Position.                                              *)

InHand(u) == Handling /\ u = next - 1

InFlight ==
    /\ lastUpdateId # 0 => confirmed <= lastUpdateId
    /\ next <= last => next = Position
    /\ Handling => lastUpdateId = next /\ confirmed < next
    /\ \A u \in UpdateIds : u < Position /\ ~InHand(u) => u \in done
    /\ \A u \in UpdateIds : u >= Position \/ InHand(u) => handled[u] = 0

DeliveryInv ==
    /\ NoUpdateLost
    /\ HandledInOrder
    /\ OncePerBoot
    /\ up => InFlight

LEMMA DeliveryInit == Init => DeliveryInv
BY DEF Init, DeliveryInv, NoUpdateLost, HandledInOrder, OncePerBoot, InFlight,
       Position, InHand, Handling, UpdateIds

\* The steps that touch neither the poller nor the server, and do not boot.
DeliveryVars == <<confirmed, pollPc, lastUpdateId, next, last, handled, done>>

LEMMA DeliveryUntouched ==
    ASSUME DeliveryInv, UNCHANGED DeliveryVars, up' => up PROVE DeliveryInv'
BY DEF DeliveryInv, NoUpdateLost, HandledInOrder, OncePerBoot, InFlight,
       Position, InHand, Handling, UpdateIds, DeliveryVars

LEMMA DeliveryMain == DeliveryInv /\ MainStep => DeliveryInv'
<1> SUFFICES ASSUME DeliveryInv, MainStep PROVE DeliveryInv'
  OBVIOUS
<1>1. UNCHANGED DeliveryVars
  BY DEF DeliveryVars, MainStep, MainCheck, MainGetline, MainEOF, MainLock,
         MainCommand, MainMath, MainAsk, MainReply, MainTrack, MainOpen,
         MainOpenFails, MainClose, MainJoin, MainExit
<1>2. up
  BY DEF MainStep, MainCheck, MainGetline, MainEOF, MainLock,
         MainCommand, MainMath, MainAsk, MainReply, MainTrack, MainOpen,
         MainOpenFails, MainClose, MainJoin, MainExit
<1> QED BY <1>1, <1>2, DeliveryUntouched

\* Handling u, the lowest update not yet handled, keeps the order and the
\* count.
LEMMA HandleNext ==
    ASSUME TypeOK, HandledInOrder, OncePerBoot, NEW u \in UpdateIds,
           \A v \in UpdateIds : v < u => v \in done,
           handled[u] = 0,
           done' = done \cup {u},
           handled' = [handled EXCEPT ![u] = @ + 1]
    PROVE  /\ HandledInOrder'
           /\ OncePerBoot'
           /\ \A v \in UpdateIds : v # u => handled'[v] = handled[v]
<1>1. \A v \in UpdateIds : handled'[v] = IF v = u THEN 1 ELSE handled[v]
  BY DEF TypeOK
<1>2. OncePerBoot'
  BY <1>1 DEF OncePerBoot, UpdateIds
<1>3. ASSUME NEW w \in done' PROVE 1..w \subseteq done'
  <2>1. CASE w = u
    BY <1>3, <2>1, ParametersAssumption DEF UpdateIds
  <2>2. CASE w \in done
    BY <2>2 DEF HandledInOrder
  <2> QED BY <1>3, <2>1, <2>2
<1> QED BY <1>1, <1>2, <1>3 DEF HandledInOrder

LEMMA DeliveryPoll == TypeInv /\ DeliveryInv /\ PollStep => DeliveryInv'
<1> SUFFICES ASSUME TypeInv, DeliveryInv, PollStep PROVE DeliveryInv'
  OBVIOUS
<1>1. TypeOK /\ IdsInRange
  BY DEF TypeInv
<1>2. up /\ up'
  BY DEF PollStep, PollCheck, PollLock, FetchDelivered, FetchLost, PollParse,
         PollParseTo, PollParsed, PollSleep, PollCommand, PollAsk, PollReply
<1>3. InFlight /\ NoUpdateLost /\ HandledInOrder /\ OncePerBoot
  BY <1>2 DEF DeliveryInv
<1>4. ASSUME UNCHANGED <<confirmed, lastUpdateId, next, last, handled, done>>,
             Handling' <=> Handling
      PROVE  DeliveryInv'
  BY <1>2, <1>3, <1>4 DEF DeliveryInv, NoUpdateLost, HandledInOrder, OncePerBoot,
     InFlight, Position, InHand, UpdateIds
<1>5. CASE PollCheck BY <1>4, <1>5 DEF PollCheck, Handling
<1>6. CASE PollLock BY <1>4, <1>6 DEF PollLock, Handling
<1>7. CASE PollParsed BY <1>4, <1>7 DEF PollParsed, Handling
<1>8. CASE PollSleep BY <1>4, <1>8 DEF PollSleep, Handling
<1>9. CASE PollAsk BY <1>4, <1>9 DEF PollAsk, Handling
<1> DEFINE Fetch == /\ pollPc = "fetch" /\ pollPc' = "parse"
                    /\ confirmed' \in {confirmed, Confirm}
                    /\ \/ next' = confirmed' /\ confirmed' = Confirm
                       \/ next' = 1 /\ last' = 0
                    /\ UNCHANGED <<lastUpdateId, handled, done>>
<1>10. CASE Fetch
  <2>1. ~Handling /\ ~Handling'
    BY <1>10 DEF Handling
  <2>2. confirmed' <= Position /\ Position' = Position
    BY <1>1, <1>3, <1>10 DEF TypeOK, InFlight, Position, Confirm
  <2>3. NoUpdateLost'
    BY <1>1, <1>3, <1>10, <2>1, <2>2
       DEF TypeOK, NoUpdateLost, InFlight, InHand, Position, UpdateIds
  <2>4. HandledInOrder' /\ OncePerBoot'
    BY <1>3, <1>10 DEF HandledInOrder, OncePerBoot
  <2>5. lastUpdateId' # 0 => confirmed' <= lastUpdateId'
    BY <1>10, <2>2 DEF Position
  <2>6. next' <= last' => next' = Position'
    BY <1>1, <1>3, <1>10, <2>2 DEF TypeOK, InFlight, Position, Confirm
  <2>7. /\ \A u \in UpdateIds : u < Position' => u \in done'
        /\ \A u \in UpdateIds : u >= Position' => handled'[u] = 0
    BY <1>3, <1>10, <2>1, <2>2 DEF InFlight, InHand
  <2> QED BY <2>1, <2>3, <2>4, <2>5, <2>6, <2>7 DEF DeliveryInv, InFlight, InHand
<1>11. CASE FetchDelivered
  BY <1>10, <1>11 DEF FetchDelivered
<1>12. CASE FetchLost
  BY <1>10, <1>12, Zenon DEF FetchLost
<1>13. CASE PollParse
  <2>1. /\ pollPc = "parse" /\ ~Handling /\ next <= last /\ next = Position
        /\ next' = next + 1 /\ ~(next < lastUpdateId) /\ next \in UpdateIds
    BY <1>1, <1>3, <1>13, ParametersAssumption
       DEF PollParse, PollParseTo, Handling, InFlight, Position,
       TypeOK, IdsInRange, UpdateIds
  <2>2. lastUpdateId' = next + 1 /\ UNCHANGED <<confirmed, last>>
    BY <1>13, <2>1 DEF PollParse, PollParseTo
  <2>3. Position' = next + 1 /\ confirmed <= next
    BY <1>1, <1>3, <2>1, <2>2 DEF Position, TypeOK, InFlight
  <2>4. /\ \A u \in UpdateIds : u < next => u \in done
        /\ \A u \in UpdateIds : u >= next => handled[u] = 0
    BY <1>3, <2>1 DEF InFlight, InHand
  <2>5. CASE updates[next] = "nontext"
    <3>1. /\ done' = done \cup {next} /\ pollPc' = pollPc
          /\ handled' = [handled EXCEPT ![next] = @ + 1]
      BY <1>13, <2>1, <2>5 DEF PollParse, PollParseTo
    <3>2. /\ HandledInOrder' /\ OncePerBoot'
          /\ \A v \in UpdateIds : v # next => handled'[v] = handled[v]
      <4>1. handled[next] = 0
        BY <2>1, <2>4 DEF UpdateIds
      <4> QED BY <1>1, <1>3, <2>1, <2>4, <3>1, <4>1, HandleNext
    <3>3. ~Handling'
      BY <2>1, <3>1 DEF Handling
    <3>4. NoUpdateLost'
      BY <1>3, <2>2, <3>1 DEF NoUpdateLost
    <3>5. /\ \A u \in UpdateIds : u < Position' => u \in done'
          /\ \A u \in UpdateIds : u >= Position' => handled'[u] = 0
      BY <2>1, <2>3, <2>4, <3>1, <3>2 DEF UpdateIds
    <3> QED BY <1>1, <2>1, <2>2, <2>3, <3>2, <3>3, <3>4, <3>5
            DEF DeliveryInv, InFlight, InHand, TypeOK
  <2>6. CASE updates[next] # "nontext"
    <3>1. pollPc' = "handleLock" /\ UNCHANGED history
      BY <1>13, <2>1, <2>6 DEF PollParse, PollParseTo
    <3>2. Handling'
      BY <3>1 DEF Handling
    <3>3. NoUpdateLost' /\ HandledInOrder' /\ OncePerBoot'
      BY <1>3, <2>2, <3>1 DEF NoUpdateLost, HandledInOrder, OncePerBoot
    <3>4. \A u \in UpdateIds : u < Position' /\ u # next' - 1 => u \in done'
      BY <2>1, <2>3, <2>4, <3>1 DEF UpdateIds
    <3>5. \A u \in UpdateIds : u >= Position' \/ u = next' - 1 => handled'[u] = 0
      BY <2>1, <2>3, <2>4, <3>1 DEF UpdateIds
    <3>6. confirmed' < next' /\ lastUpdateId' = next'
      BY <1>1, <2>1, <2>2, <2>3 DEF TypeOK, UpdateIds
    <3>7. InFlight'
      BY <1>1, <2>1, <2>2, <2>3, <3>2, <3>4, <3>5, <3>6
         DEF InFlight, InHand, TypeOK, UpdateIds
    <3> QED BY <3>3, <3>7 DEF DeliveryInv
  <2> QED BY <2>5, <2>6
<1>14. ASSUME Finished, pollPc \in {"handle", "reply"},
              UNCHANGED <<confirmed, lastUpdateId, next, last>>
       PROVE  DeliveryInv'
  <2>1. Handling /\ ~Handling' /\ Position = next /\ Current \in UpdateIds
    BY <1>1, <1>3, <1>14, ParametersAssumption
       DEF Handling, Finished, Position, InFlight, TypeOK,
       IdsInRange, Current, UpdateIds
  <2>2. Position' = next
    BY <1>14, <2>1 DEF Position
  <2>3. /\ \A v \in UpdateIds : v < Current => v \in done
        /\ handled[Current] = 0
    BY <1>1, <1>3, <2>1 DEF InFlight, InHand, Current, TypeOK, UpdateIds
  <2>4. /\ HandledInOrder' /\ OncePerBoot'
        /\ \A v \in UpdateIds : v # Current => handled'[v] = handled[v]
    BY <1>1, <1>3, <1>14, <2>1, <2>3, HandleNext DEF Finished
  <2>5. NoUpdateLost'
    BY <1>3, <1>14 DEF NoUpdateLost, Finished
  <2>6. \A u \in UpdateIds : u < next => u \in done'
    BY <1>3, <1>14, <2>1 DEF Finished, Current, InFlight, InHand
  <2>7. \A u \in UpdateIds : u >= next => handled'[u] = 0
    BY <1>1, <1>3, <2>1, <2>4 DEF Current, InFlight, TypeOK, UpdateIds
  <2> QED BY <1>3, <1>14, <2>1, <2>2, <2>4, <2>5, <2>6, <2>7
          DEF DeliveryInv, InFlight, InHand, Position
<1>15. CASE PollCommand BY <1>14, <1>15 DEF PollCommand
<1>16. CASE PollReply BY <1>14, <1>16 DEF PollReply
<1> QED BY <1>5, <1>6, <1>7, <1>8, <1>9, <1>11, <1>12, <1>13, <1>15, <1>16
        DEF PollStep

LEMMA DeliveryEnvironment ==
    TypeInv /\ DeliveryInv /\ Environment => DeliveryInv'
<1> SUFFICES ASSUME TypeInv, DeliveryInv, Environment PROVE DeliveryInv'
  OBVIOUS
<1>1. CASE UserSends \/ Signal \/ Crash
  <2>1. UNCHANGED DeliveryVars /\ (up' => up)
    BY <1>1 DEF DeliveryVars, UserSends, Signal, Crash
  <2> QED BY <2>1, DeliveryUntouched
<1>2. CASE Boot
  <2>1. Position' = confirmed /\ ~Handling' /\ confirmed' = confirmed
    BY <1>2 DEF Boot, Position, Handling
  <2>2. /\ NoUpdateLost' /\ HandledInOrder'
        /\ \A u \in UpdateIds : handled'[u] = 0
    BY <1>2 DEF Boot, DeliveryInv, NoUpdateLost, HandledInOrder
  <2> QED BY <1>2, <2>1, <2>2 DEF Boot, DeliveryInv, InFlight, InHand,
             OncePerBoot, NoUpdateLost
<1> QED BY <1>1, <1>2 DEF Environment

LEMMA DeliveryStep == TypeInv /\ DeliveryInv /\ [Next]_vars => DeliveryInv'
<1>1. DeliveryInv /\ UNCHANGED vars => DeliveryInv'
  BY DeliveryUntouched DEF DeliveryVars, vars
<1> QED BY <1>1, DeliveryMain, DeliveryPoll, DeliveryEnvironment DEF Next

LEMMA DeliverySafe == Spec => []DeliveryInv
<1>1. Init => TypeInv /\ DeliveryInv
  BY TypeInit, DeliveryInit
<1>2. TypeInv /\ DeliveryInv /\ [Next]_vars => (TypeInv /\ DeliveryInv)'
  BY TypeStep, DeliveryStep
<1> QED BY <1>1, <1>2, PTL DEF Spec

\* Whatever is lost between MK and the server, and however often MK crashes,
\* the server never forgets an update that was not handled.
THEOREM UpdatesAreKept == Spec => []NoUpdateLost
<1>1. DeliveryInv => NoUpdateLost
  BY DEF DeliveryInv
<1> QED BY <1>1, DeliverySafe, PTL

\* One run of the process handles an update at most once.
THEOREM UpdatesAreHandledOnce == Spec => []OncePerBoot
<1>1. DeliveryInv => OncePerBoot
  BY DEF DeliveryInv
<1> QED BY <1>1, DeliverySafe, PTL

\* Updates are handled in the order in which they were sent.
THEOREM UpdatesAreHandledInOrder == Spec => []HandledInOrder
<1>1. DeliveryInv => HandledInOrder
  BY DEF DeliveryInv
<1> QED BY <1>1, DeliverySafe, PTL

\* The three together, as the runs check them.
THEOREM DeliveryIsExact == Spec => []DeliveredOnceInOrder
<1>1. DeliveryInv => DeliveredOnceInOrder
  BY DEF DeliveryInv, DeliveredOnceInOrder
<1> QED BY <1>1, DeliverySafe, PTL

-----------------------------------------------------------------------------
(* The poller and the server implement Mailbox.  A step that handles an    *)
(* update takes the next message, because by InFlight the parser stands at *)
(* Position; a fetch may forget, and a boot is a new session.              *)

LEMMA MailInit == Init => Mail!Init
BY DEF Init, Mail!Init, Handling, Position

LEMMA MailStep ==
    TypeInv /\ DeliveryInv /\ [Next]_vars => [Mail!Next]_(Mail!vars)
<1> SUFFICES ASSUME TypeInv, DeliveryInv, [Next]_vars
             PROVE  Mail!Next \/ UNCHANGED Mail!vars
  OBVIOUS
<1> USE DEF Mail!Next, Mail!vars
<1>1. TypeOK /\ IdsInRange /\ (up => InFlight)
  BY DEF TypeInv, DeliveryInv
<1>2. ASSUME UNCHANGED <<updates, DeliveryVars>> PROVE UNCHANGED Mail!vars
  BY <1>2 DEF DeliveryVars, Handling, Current, Position
<1>3. CASE MainStep
  <2>1. UNCHANGED <<updates, DeliveryVars>>
    BY <1>3 DEF DeliveryVars, MainStep, MainCheck, MainGetline, MainEOF, MainLock,
       MainCommand, MainMath, MainAsk, MainReply, MainTrack, MainOpen,
       MainOpenFails, MainClose, MainJoin, MainExit, server, poller, history
  <2> QED BY <1>2, <2>1
<1>4. CASE Signal \/ Crash \/ UNCHANGED vars
  <2>1. UNCHANGED <<updates, DeliveryVars>>
    BY <1>4 DEF DeliveryVars, Signal, Crash, vars, server, poller, history
  <2> QED BY <1>2, <2>1
<1>5. CASE UserSends
  <2>1. Len(updates') = Len(updates) + 1
    BY <1>1, <1>5 DEF UserSends, TypeOK
  <2> QED BY <1>5, <2>1
          DEF UserSends, Mail!Send, Handling, Current, Position, poller, history
<1>6. CASE Boot
  BY <1>6 DEF Boot, Mail!NewSession, Handling, Position, server
<1>7. ASSUME UNCHANGED <<updates, confirmed, lastUpdateId, next, done>>,
             Handling' <=> Handling
      PROVE  UNCHANGED Mail!vars
  BY <1>7 DEF Current, Position
<1>8. CASE PollCheck \/ PollLock \/ PollParsed \/ PollSleep \/ PollAsk
  <2>1. Handling' <=> Handling
    BY <1>8 DEF PollCheck, PollLock, PollParsed, PollSleep, PollAsk, Handling
  <2>2. UNCHANGED <<updates, confirmed, lastUpdateId, next, done>>
    BY <1>8 DEF PollCheck, PollLock, PollParsed, PollSleep, PollAsk,
                server, poller, history
  <2> QED BY <1>7, <2>1, <2>2
<1>9. CASE FetchDelivered \/ FetchLost
  <2>1. /\ ~Handling /\ ~Handling' /\ up
        /\ confirmed' \in {confirmed, Confirm}
        /\ UNCHANGED <<updates, lastUpdateId, done>>
    BY <1>9, Zenon DEF FetchDelivered, FetchLost, Handling, history
  <2>2. confirmed' \in confirmed..Position /\ Position' = Position
    BY <1>1, <2>1 DEF InFlight, Position, Confirm, TypeOK
  <2> QED BY <2>1, <2>2 DEF Mail!Forget
<1>10. CASE PollParse
  <2>1. /\ up /\ pollPc = "parse" /\ ~Handling /\ next <= last /\ next = Position
        /\ ~(next < lastUpdateId) /\ next' = next + 1
        /\ UNCHANGED <<updates, confirmed>>
    BY <1>1, <1>10 DEF PollParse, PollParseTo, Handling, InFlight, Position,
       TypeOK, server
  <2>2. lastUpdateId' = next + 1
    BY <1>10, <2>1 DEF PollParse, PollParseTo
  <2>3. Position' = next + 1 /\ next <= Len(updates) /\ next \in Nat
    BY <1>1, <2>1, <2>2 DEF Position, TypeOK, IdsInRange
  <2>4. CASE updates[next] = "nontext"
    <3>1. done' = done \cup {next} /\ ~Handling'
      BY <1>10, <2>1, <2>4 DEF PollParse, PollParseTo, Handling
    <3> QED BY <2>1, <2>3, <3>1 DEF Mail!Deliver
  <2>5. CASE updates[next] # "nontext"
    <3>1. Handling' /\ UNCHANGED done
      BY <1>10, <2>1, <2>5 DEF PollParse, PollParseTo, Handling, history
    <3>2. Current' = next
      BY <2>1, <2>3 DEF Current
    <3> QED BY <2>1, <3>1, <3>2
  <2> QED BY <2>4, <2>5
<1>11. CASE PollCommand \/ PollReply
  <2>1. /\ up /\ Handling /\ ~Handling'
        /\ done' = done \cup {Current}
        /\ UNCHANGED <<updates, confirmed, lastUpdateId, next>>
    BY <1>11 DEF PollCommand, PollReply, Finished, Handling, server, poller
  <2>2. /\ Position = next /\ Position' = next
        /\ Current + 1 = next /\ Current <= Len(updates)
    BY <1>1, <2>1 DEF InFlight, Position, Current, TypeOK, IdsInRange
  <2> QED BY <2>1, <2>2 DEF Mail!Deliver
<1> QED BY <1>3, <1>4, <1>5, <1>6, <1>8, <1>9, <1>10, <1>11
        DEF Next, PollStep, Environment

\* Every behaviour of the threads, the server and the network is one of the
\* mailbox: messages are taken in order, once per session, from the oldest
\* that is kept, and only delivered messages are forgotten.
THEOREM ImplementsMailbox == Spec => IsMailbox
BY MailInit, MailStep, TypeInit, TypeStep, DeliverySafe, PTL
   DEF Spec, IsMailbox, Mail!Spec

-----------------------------------------------------------------------------
(* The window.  While a thread owes a reply it holds the lock, and the     *)
(* window ends with its question; evicting two turns at the front leaves   *)
(* every pair but the first whole.                                         *)

Paired(window) ==
    \A i \in 2..Len(window) :
        window[i].role = "mk" => window[i-1] = [role |-> "user", of |-> window[i].of]

EndsWith(window, exchange) ==
    /\ window # << >>
    /\ window[Len(window)] = [role |-> "user", of |-> exchange]

WindowInv ==
    /\ Paired(shortTerm)
    /\ up /\ mainPc = "reply" => EndsWith(shortTerm, Line(lines))
    /\ up /\ pollPc = "reply" => EndsWith(shortTerm, Update(Current))

\* commitToShortTerm keeps questions and answers together.
LEMMA CommitPaired ==
    ASSUME NEW role \in {"user", "mk"}, NEW exchange \in Exchanges,
           NEW window \in Seq(Turns), Paired(window),
           role = "mk" => EndsWith(window, exchange)
    PROVE  /\ Paired(Commit(role, exchange, window))
           /\ role = "user" => EndsWith(Commit(role, exchange, window), exchange)
<1> DEFINE turn == [role |-> role, of |-> exchange]
           kept == IF Len(window) >= MaxContextTurns
                     THEN SubSeq(window, 3, Len(window)) ELSE window
<1>1. turn \in Turns
  BY DEF Turns
<1>2. /\ kept \in Seq(Turns) /\ Paired(kept)
      /\ kept # << >> /\ window # << >> => kept[Len(kept)] = window[Len(window)]
      /\ kept # << >> => window # << >>
  <2>1. CASE kept = window
    BY <2>1
  <2>2. CASE kept = SubSeq(window, 3, Len(window)) /\ Len(window) >= 3
    <3>1. /\ kept \in Seq(Turns) /\ Len(kept) = Len(window) - 2
          /\ \A i \in 1..Len(kept) : kept[i] = window[i + 2]
      BY <2>2
    <3> HIDE DEF kept
    <3>2. Paired(kept)
      <4> SUFFICES ASSUME NEW i \in 2..Len(kept), kept[i].role = "mk"
                   PROVE  kept[i-1] = [role |-> "user", of |-> kept[i].of]
        BY DEF Paired
      <4>1. /\ Len(window) \in Nat /\ i \in Int /\ i + 2 \in 2..Len(window)
            /\ kept[i] = window[i + 2] /\ kept[i-1] = window[(i - 1) + 2]
            /\ (i - 1) + 2 = (i + 2) - 1
        BY <3>1
      <4>2. window[i + 2].role = "mk"
            => window[(i + 2) - 1] = [role |-> "user", of |-> window[i + 2].of]
        BY <4>1 DEF Paired
      <4> QED BY <4>1, <4>2
    <3>3. kept[Len(kept)] = window[Len(window)] /\ window # << >>
      BY <3>1, <2>2
    <3> QED BY <3>1, <3>2, <3>3
  <2>3. CASE kept = SubSeq(window, 3, Len(window)) /\ Len(window) < 3
    <3>1. kept = << >>
      BY <2>3
    <3> HIDE DEF kept
    <3> QED BY <3>1 DEF Paired
  <2> QED BY <2>1, <2>2, <2>3
<1>3. Commit(role, exchange, window) = Append(kept, turn)
  BY DEF Commit
<1>4. turn.role = role /\ turn.of = exchange
  OBVIOUS
<1> HIDE DEF kept
<1>5. /\ Append(kept, turn) \in Seq(Turns) /\ Len(Append(kept, turn)) = Len(kept) + 1
      /\ Append(kept, turn)[Len(kept) + 1] = turn
      /\ \A i \in 1..Len(kept) : Append(kept, turn)[i] = kept[i]
  BY <1>1, <1>2
<1>6. role = "mk" /\ kept # << >> => kept[Len(kept)] = [role |-> "user", of |-> exchange]
  BY <1>2 DEF EndsWith
<1>7. Paired(Append(kept, turn))
  <2> SUFFICES ASSUME NEW i \in 2..Len(kept) + 1, Append(kept, turn)[i].role = "mk"
               PROVE  Append(kept, turn)[i-1] =
                          [role |-> "user", of |-> Append(kept, turn)[i].of]
    BY <1>5 DEF Paired
  <2>1. CASE i = Len(kept) + 1
    <3>1. role = "mk" /\ kept # << >> /\ Append(kept, turn)[i-1] = kept[Len(kept)]
      BY <2>1, <1>2, <1>4, <1>5
    <3> QED BY <3>1, <2>1, <1>4, <1>5, <1>6
  <2>2. CASE i <= Len(kept)
    BY <2>2, <1>2, <1>5 DEF Paired
  <2> QED BY <2>1, <2>2, <1>2
<1>8. role = "user" => EndsWith(Append(kept, turn), exchange)
  <2>1. Len(kept) \in Nat
    BY <1>2
  <2>2. Append(kept, turn) # << >>
    BY <1>5, <2>1
  <2> QED BY <1>5, <2>2 DEF EndsWith
<1> QED BY <1>3, <1>7, <1>8

LEMMA WindowInit == Init => WindowInv
BY DEF Init, WindowInv, Paired

\* A step that touches neither the window nor who owes a reply.
LEMMA WindowUntouched ==
    ASSUME WindowInv, UNCHANGED shortTerm,
           up' => up,
           mainPc' = "reply" => mainPc = "reply" /\ UNCHANGED lines,
           pollPc' = "reply" => pollPc = "reply" /\ UNCHANGED next
    PROVE  WindowInv'
BY DEF WindowInv, Current, Line, Update

LEMMA WindowMain == TypeInv /\ LockInv /\ WindowInv /\ MainStep => WindowInv'
<1> SUFFICES ASSUME TypeInv, LockInv, WindowInv, MainStep PROVE WindowInv'
  OBVIOUS
<1>1. /\ shortTerm \in Seq(Turns) /\ Paired(shortTerm)
      /\ mainPc \in {"work", "reply", "track"} => Line(lines) \in Exchanges
      /\ up /\ mainPc \in {"work", "reply", "track"} => pollPc # "reply"
  BY DEF TypeInv, TypeOK, IdsInRange, WindowInv, LockInv, MainLocked, PollLocked,
         Line, Exchanges, LineIds
<1>2. CASE MainAsk
  <2>1. Paired(shortTerm') /\ EndsWith(shortTerm', Line(lines))
    BY <1>1, <1>2, CommitPaired DEF MainAsk
  <2> QED BY <1>1, <1>2, <2>1 DEF MainAsk, WindowInv
<1>3. CASE MainReply
  <2>1. Paired(shortTerm')
    BY <1>1, <1>3, CommitPaired DEF MainReply, WindowInv
  <2> QED BY <1>1, <1>3, <2>1 DEF MainReply, WindowInv
<1>4. CASE MainTrack
  <2>1. Paired(shortTerm')
    BY <1>1, <1>4, CommitPaired DEF MainTrack
  <2>2. mainPc' # "reply" /\ UNCHANGED pollPc /\ pollPc # "reply"
    <3>1. mainPc' = "saveLock" \/ mainPc' = "check"
      BY <1>4, Zenon DEF MainTrack
    <3> QED BY <3>1, <1>1, <1>4 DEF MainTrack
  <2> QED BY <2>1, <2>2 DEF WindowInv
<1>5. CASE MainGetline
  <2>1. UNCHANGED <<shortTerm, up, pollPc, next>> /\ mainPc' # "reply"
    BY <1>5 DEF MainGetline
  <2> QED BY <2>1, WindowUntouched
<1>6. CASE MainStep /\ ~(MainAsk \/ MainReply \/ MainTrack \/ MainGetline)
  <2>1. UNCHANGED <<shortTerm, pollPc, next>> /\ (up' => up)
    BY <1>6 DEF MainStep, MainCheck, MainEOF, MainLock, MainCommand, MainMath,
               MainOpen, MainOpenFails, MainClose, MainJoin, MainExit
  <2>2. mainPc' # "reply"
    BY <1>6 DEF MainStep, MainCheck, MainEOF, MainLock, MainCommand, MainMath,
               MainOpen, MainOpenFails, MainClose, MainJoin, MainExit, MainWaiting
  <2> QED BY <2>1, <2>2, WindowUntouched
<1> QED BY <1>2, <1>3, <1>4, <1>5, <1>6

LEMMA WindowPoll == TypeInv /\ LockInv /\ WindowInv /\ PollStep => WindowInv'
<1> SUFFICES ASSUME TypeInv, LockInv, WindowInv, PollStep PROVE WindowInv'
  OBVIOUS
<1>1. /\ shortTerm \in Seq(Turns) /\ Paired(shortTerm)
      /\ pollPc \in {"handle", "reply"} => Update(Current) \in Exchanges
      /\ up /\ pollPc \in {"handle", "reply"} => mainPc # "reply"
  <2>1. shortTerm \in Seq(Turns) /\ Paired(shortTerm)
    BY DEF TypeInv, TypeOK, WindowInv
  <2>2. pollPc \in {"handle", "reply"} => Update(Current) \in Exchanges
    <3> SUFFICES ASSUME pollPc \in {"handle", "reply"} PROVE Update(Current) \in Exchanges
      OBVIOUS
    <3>1. /\ next \in Nat /\ next >= 2 /\ next <= last + 1 /\ last \in Nat
          /\ last <= Len(updates) /\ Len(updates) \in Nat /\ Len(updates) <= MaxUpdates
      BY DEF TypeInv, TypeOK, IdsInRange, Handling
    <3>2. Current \in UpdateIds
      BY <3>1, ParametersAssumption DEF Current, UpdateIds
    <3> QED BY <3>2 DEF Update, Exchanges
  <2>3. up /\ pollPc \in {"handle", "reply"} => mainPc # "reply"
    BY DEF TypeInv, TypeOK, LockInv, MainLocked, PollLocked
  <2> QED BY <2>1, <2>2, <2>3
<1>2. CASE PollAsk
  <2>1. Paired(shortTerm') /\ EndsWith(shortTerm', Update(Current))
    BY <1>1, <1>2, CommitPaired DEF PollAsk
  <2> QED BY <1>1, <1>2, <2>1 DEF PollAsk, WindowInv, Current
<1>3. CASE PollReply
  <2>1. Paired(shortTerm')
    BY <1>1, <1>3, CommitPaired DEF PollReply, WindowInv
  <2> QED BY <1>1, <1>3, <2>1 DEF PollReply, Finished, WindowInv
<1>4. CASE PollStep /\ ~(PollAsk \/ PollReply)
  <2>1. UNCHANGED <<shortTerm, up, mainPc, lines>>
    BY <1>4 DEF PollStep, PollCheck, PollLock, FetchDelivered, FetchLost, PollParse,
               PollParseTo, PollParsed, PollSleep, PollCommand
  <2>2. pollPc' # "reply"
    BY <1>4 DEF PollStep, PollCheck, PollLock, FetchDelivered, FetchLost, PollParse,
               PollParseTo, PollParsed, PollSleep, PollCommand, Finished
  <2> QED BY <2>1, <2>2, WindowUntouched
<1> QED BY <1>2, <1>3, <1>4

LEMMA WindowStep == TypeInv /\ LockInv /\ WindowInv /\ [Next]_vars => WindowInv'
<1> SUFFICES ASSUME TypeInv, LockInv, WindowInv, [Next]_vars PROVE WindowInv'
  OBVIOUS
<1>1. CASE Boot
  BY <1>1 DEF Boot, WindowInv, Paired
<1>2. CASE UserSends \/ Signal \/ Crash \/ UNCHANGED vars
  <2>1. UNCHANGED <<shortTerm, mainPc, lines, pollPc, next>> /\ (up' => up)
    BY <1>2 DEF UserSends, Signal, Crash, vars
  <2> QED BY <2>1, WindowUntouched
<1> QED BY <1>1, <1>2, WindowMain, WindowPoll DEF Next, Environment

\* In the window every reply directly follows its question, however the two
\* threads take turns and whatever was evicted (mk_entry.cpp:2196-2212,
\* conversation_loop.cpp:74-138).
THEOREM RepliesFollow == Spec => []ReplyFollowsQuestion
<1>1. Spec => []TypeInv
  BY TypeInit, TypeStep, PTL DEF Spec
<1>2. Spec => []LockInv
  BY LockInit, LockStep, PTL DEF Spec
<1>3. Spec => []WindowInv
  BY <1>1, <1>2, WindowInit, WindowStep, PTL DEF Spec
<1>4. WindowInv => ReplyFollowsQuestion
  BY DEF WindowInv, Paired, ReplyFollowsQuestion
<1> QED BY <1>3, <1>4, PTL

-----------------------------------------------------------------------------
(* What is only in memory.  Since the last save the REPL thread has        *)
(* recorded at most one interaction for each line it has counted, and one  *)
(* for the line in hand.                                                   *)

Recorded == mainPc \in {"trackLock", "track"}
SaveDue  == mainPc \in {"saveLock", "open"}

Allowance == (CASE SaveDue -> AutoSaveInterval
                [] Recorded -> (interactionCount % AutoSaveInterval) + 1
                [] OTHER -> interactionCount % AutoSaveInterval)
             + AutoSaveInterval * failedSaves

SaveInv ==
    (up /\ mainPc \notin {"saving", "finalSaving"}) =>
        /\ Cardinality(Unsaved) <= Allowance
        /\ SaveDue => interactionCount % AutoSaveInterval = 0

\* Counting by the interval: the remainder goes up by one or starts again.
LEMMA CountingByInterval ==
    ASSUME NEW c \in Nat
    PROVE  /\ c % AutoSaveInterval \in 0..AutoSaveInterval - 1
           /\ (c + 1) % AutoSaveInterval =
                 IF c % AutoSaveInterval = AutoSaveInterval - 1 THEN 0
                 ELSE (c % AutoSaveInterval) + 1
<1> DEFINE q == c \div AutoSaveInterval
           r == c % AutoSaveInterval
<1>1. /\ q \in Nat /\ r \in 0..AutoSaveInterval - 1
      /\ c = q * AutoSaveInterval + r
  BY ParametersAssumption
<1>2. CASE r = AutoSaveInterval - 1
  <2>1. c + 1 = (q + 1) * AutoSaveInterval + 0
    BY <1>1, <1>2, ParametersAssumption
  <2>2. ((q + 1) * AutoSaveInterval + 0) % AutoSaveInterval = 0
    BY <1>1, ParametersAssumption
  <2> QED BY <1>1, <1>2, <2>1, <2>2
<1>3. CASE r # AutoSaveInterval - 1
  <2>1. c + 1 = q * AutoSaveInterval + (r + 1) /\ r + 1 \in 0..AutoSaveInterval - 1
    BY <1>1, <1>3, ParametersAssumption
  <2>2. (q * AutoSaveInterval + (r + 1)) % AutoSaveInterval = r + 1
    BY <1>1, <2>1, ParametersAssumption
  <2> QED BY <1>1, <1>3, <2>1, <2>2
<1> QED BY <1>1, <1>2, <1>3

\* pruneIfNeeded only drops.
LEMMA PruneRange ==
    ASSUME NEW entries \in Seq(LineIds)
    PROVE  Range(Prune(entries)) \subseteq Range(entries)
<1>1. CASE Len(entries) > MaxInteractions
  <2> DEFINE from == Len(entries) - MaxInteractions + 1
  <2>1. from \in 1..Len(entries)
    BY <1>1, ParametersAssumption
  <2>2. Prune(entries) = SubSeq(entries, from, Len(entries))
    BY <1>1 DEF Prune
  <2> HIDE DEF from
  <2> QED BY <2>1, <2>2 DEF Range
<1>2. CASE ~(Len(entries) > MaxInteractions)
  BY <1>2 DEF Prune
<1> QED BY <1>1, <1>2

LEMMA UnsavedFinite ==
    ASSUME TypeInv
    PROVE  IsFiniteSet(Unsaved) /\ Cardinality(Unsaved) \in Nat
<1>1. IsFiniteSet(LineIds)
  BY FS_Interval, ParametersAssumption DEF LineIds
<1>2. Unsaved \in SUBSET LineIds
  BY DEF Unsaved, Range, TypeInv, TypeOK
<1>3. IsFiniteSet(Unsaved)
  BY <1>1, <1>2, FS_Subset
<1> QED BY <1>3, FS_CardinalityType

\* recordInteraction adds one interaction at most to those only in memory.
LEMMA RecordAddsOne ==
    ASSUME TypeInv, Record(lines), UNCHANGED disk, lines \in LineIds
    PROVE  /\ Cardinality(Unsaved') <= Cardinality(Unsaved) + 1
           /\ Cardinality(Unsaved') \in Nat
<1> DEFINE longer == Append(memory, lines)
<1>1. longer \in Seq(LineIds) /\ Range(longer) \subseteq Range(memory) \cup {lines}
  BY DEF Range, TypeInv, TypeOK
<1> HIDE DEF longer
<1>2. Range(Prune(longer)) \subseteq Range(longer)
  BY <1>1, PruneRange
<1>3. memory' = Prune(longer)
  BY DEF Record, longer
<1>4. Unsaved' \in SUBSET (Unsaved \cup {lines})
  BY <1>1, <1>2, <1>3 DEF Unsaved
<1>5. /\ IsFiniteSet(Unsaved \cup {lines})
      /\ Cardinality(Unsaved \cup {lines}) <= Cardinality(Unsaved) + 1
  BY UnsavedFinite, FS_AddElement
<1>6. /\ Cardinality(Unsaved') <= Cardinality(Unsaved \cup {lines})
      /\ IsFiniteSet(Unsaved')
  BY <1>4, <1>5, FS_Subset
<1>7. Cardinality(Unsaved') \in Nat /\ Cardinality(Unsaved \cup {lines}) \in Nat
  BY <1>5, <1>6, FS_CardinalityType
<1> QED BY <1>5, <1>6, <1>7, UnsavedFinite

LEMMA AllowanceIs ==
    ASSUME TypeInv
    PROVE  /\ AutoSaveInterval * failedSaves \in Nat
           /\ interactionCount % AutoSaveInterval \in 0..AutoSaveInterval - 1
           /\ SaveDue => Allowance = AutoSaveInterval + AutoSaveInterval * failedSaves
           /\ Recorded => Allowance = (interactionCount % AutoSaveInterval) + 1
                                      + AutoSaveInterval * failedSaves
           /\ ~SaveDue /\ ~Recorded =>
                Allowance = (interactionCount % AutoSaveInterval)
                            + AutoSaveInterval * failedSaves
<1>1. AutoSaveInterval * failedSaves \in Nat
  BY ParametersAssumption DEF TypeInv, TypeOK
<1>2. interactionCount % AutoSaveInterval \in 0..AutoSaveInterval - 1
  BY CountingByInterval DEF TypeInv, TypeOK
<1>3. ~(SaveDue /\ Recorded)
  BY DEF SaveDue, Recorded
<1> QED BY <1>1, <1>2, <1>3, Zenon DEF Allowance

LEMMA SaveInit == Init => SaveInv
<1> SUFFICES ASSUME Init PROVE SaveInv
  OBVIOUS
<1>1. TypeInv
  BY TypeInit
<1>2. Unsaved = {}
  BY DEF Init, Unsaved, Range
<1>3. Cardinality(Unsaved) = 0
  BY <1>2, FS_EmptySet
<1>4. ~SaveDue /\ ~Recorded
  BY DEF Init, SaveDue, Recorded
<1> QED BY <1>1, <1>3, <1>4, AllowanceIs DEF SaveInv

\* Nothing was recorded, saved or counted, and the allowance is not smaller.
LEMMA SaveUntouched ==
    ASSUME TypeInv, TypeInv', SaveInv, up,
           mainPc \notin {"saving", "finalSaving"},
           UNCHANGED <<memory, disk, interactionCount, failedSaves>>,
           Recorded => Recorded',
           SaveDue' <=> SaveDue
    PROVE  SaveInv'
<1>1. Unsaved' = Unsaved
  BY DEF Unsaved
<1>2. /\ Cardinality(Unsaved) <= Allowance
      /\ SaveDue => interactionCount % AutoSaveInterval = 0
  BY DEF SaveInv
<1>3. Allowance' >= Allowance
  <2>1. /\ SaveDue' => Allowance' = AutoSaveInterval + AutoSaveInterval * failedSaves
        /\ Recorded' => Allowance' = (interactionCount % AutoSaveInterval) + 1
                                   + AutoSaveInterval * failedSaves
        /\ ~SaveDue' /\ ~Recorded' =>
             Allowance' = (interactionCount % AutoSaveInterval)
                         + AutoSaveInterval * failedSaves
    BY AllowanceIs DEF Allowance, SaveDue, Recorded
  <2> QED BY <2>1, AllowanceIs, ParametersAssumption
<1>4. Allowance' \in Nat /\ Allowance \in Nat
  BY AllowanceIs, ParametersAssumption DEF Allowance, SaveDue, Recorded
<1> QED BY <1>1, <1>2, <1>3, <1>4, UnsavedFinite DEF SaveInv

LEMMA SaveMain == TypeInv /\ TypeInv' /\ SaveInv /\ MainStep => SaveInv'
<1> SUFFICES ASSUME TypeInv, TypeInv', SaveInv, MainStep PROVE SaveInv'
  OBVIOUS
<1>1. /\ AutoSaveInterval * failedSaves \in Nat
      /\ interactionCount % AutoSaveInterval \in 0..AutoSaveInterval - 1
  BY AllowanceIs
<1>2. CASE MainCheck \/ MainEOF \/ MainCommand \/ MainAsk \/ MainJoin
  BY <1>2, SaveUntouched
     DEF MainCheck, MainEOF, MainCommand, MainAsk, MainJoin, SaveDue, Recorded
<1>3. CASE MainGetline
  <2>1. /\ up /\ mainPc = "getline"
        /\ UNCHANGED <<memory, disk, interactionCount, failedSaves>>
        /\ mainPc' = "check" \/ mainPc' = "trackLock" \/ mainPc' = "workLock"
    BY <1>3, Zenon DEF MainGetline
  <2> QED BY <2>1, SaveUntouched DEF SaveDue, Recorded
<1>4. CASE MainLock
  <2>1. /\ up /\ mainPc \in MainWaiting
        /\ UNCHANGED <<memory, disk, interactionCount, failedSaves>>
        /\ mainPc = "workLock" => mainPc' = "work"
        /\ mainPc = "trackLock" => mainPc' = "track"
        /\ mainPc # "workLock" /\ mainPc # "trackLock" => mainPc' = "open"
    BY <1>4, Zenon DEF MainLock
  <2> QED BY <2>1, SaveUntouched DEF SaveDue, Recorded, MainWaiting
<1>5. CASE MainMath \/ MainReply
  <2>1. /\ up /\ mainPc \in {"work", "reply"} /\ mainPc' = "trackLock" /\ Record(lines)
        /\ UNCHANGED <<disk, failedSaves, interactionCount>>
    BY <1>5 DEF MainMath, MainReply
  <2>2. lines \in LineIds
    BY <2>1 DEF TypeInv, TypeOK, IdsInRange, LineIds
  <2>3. /\ Cardinality(Unsaved') <= Cardinality(Unsaved) + 1
        /\ Cardinality(Unsaved') \in Nat
    BY <2>1, <2>2, RecordAddsOne
  <2>4. /\ ~SaveDue /\ ~Recorded /\ ~SaveDue' /\ Recorded'
    BY <2>1 DEF SaveDue, Recorded
  <2>5. Allowance = (interactionCount % AutoSaveInterval) + AutoSaveInterval * failedSaves
    BY <2>4, AllowanceIs
  <2>6. Allowance' = (interactionCount % AutoSaveInterval) + 1 + AutoSaveInterval * failedSaves
    BY <2>1, <2>4, Zenon DEF Allowance
  <2>7. Cardinality(Unsaved) <= Allowance
    BY <2>1 DEF SaveInv
  <2> QED BY <1>1, <2>3, <2>4, <2>5, <2>6, <2>7, UnsavedFinite DEF SaveInv
<1>6. CASE MainTrack
  <2>1. /\ up /\ mainPc = "track" /\ UNCHANGED <<memory, disk, failedSaves>>
        /\ interactionCount' = interactionCount + 1
        /\ IF interactionCount' % AutoSaveInterval = 0
             THEN mainPc' = "saveLock" ELSE mainPc' = "check"
    BY <1>6, Zenon DEF MainTrack
  <2>2. Unsaved' = Unsaved
    BY <2>1 DEF Unsaved
  <2>3. Cardinality(Unsaved) <= (interactionCount % AutoSaveInterval) + 1
                                + AutoSaveInterval * failedSaves
    BY <2>1, AllowanceIs DEF SaveInv, Recorded
  <2>4. interactionCount' % AutoSaveInterval =
            IF interactionCount % AutoSaveInterval = AutoSaveInterval - 1 THEN 0
            ELSE (interactionCount % AutoSaveInterval) + 1
    BY <2>1, CountingByInterval DEF TypeInv, TypeOK
  <2>5. CASE interactionCount' % AutoSaveInterval = 0
    <3>1. mainPc' = "saveLock" /\ SaveDue' /\ ~Recorded'
      BY <2>1, <2>5 DEF SaveDue, Recorded
    <3>2. Allowance' = AutoSaveInterval + AutoSaveInterval * failedSaves
      BY <2>1, <3>1, Zenon DEF Allowance
    <3>3. (interactionCount % AutoSaveInterval) + 1 = AutoSaveInterval
      BY <1>1, <2>4, <2>5, ParametersAssumption
    <3> QED BY <2>2, <2>3, <2>5, <3>1, <3>2, <3>3 DEF SaveInv
  <2>6. CASE interactionCount' % AutoSaveInterval # 0
    <3>1. mainPc' = "check" /\ ~SaveDue' /\ ~Recorded'
      BY <2>1, <2>6 DEF SaveDue, Recorded
    <3>2. Allowance' = (interactionCount' % AutoSaveInterval)
                       + AutoSaveInterval * failedSaves
      BY <2>1, <3>1, Zenon DEF Allowance
    <3>3. interactionCount' % AutoSaveInterval = (interactionCount % AutoSaveInterval) + 1
      BY <2>4, <2>6
    <3> QED BY <2>2, <2>3, <3>1, <3>2, <3>3 DEF SaveInv
  <2> QED BY <2>5, <2>6
<1>7. CASE MainOpen
  BY <1>7 DEF MainOpen, SaveInv
<1>8. CASE MainOpenFails
  <2>1. /\ up /\ mainPc \in {"open", "finalOpen"}
        /\ failedSaves' = failedSaves + 1
        /\ mainPc' = "check" \/ mainPc' = "persist"
        /\ UNCHANGED <<memory, disk, interactionCount>>
    BY <1>8, Zenon DEF MainOpenFails
  <2>2. Unsaved' = Unsaved /\ ~SaveDue' /\ ~Recorded'
    BY <2>1 DEF Unsaved, SaveDue, Recorded
  <2>3. Allowance' = (interactionCount % AutoSaveInterval) + AutoSaveInterval * (failedSaves + 1)
    BY <2>1, <2>2, Zenon DEF Allowance
  <2>4. AutoSaveInterval * (failedSaves + 1) = AutoSaveInterval + AutoSaveInterval * failedSaves
    BY ParametersAssumption DEF TypeInv, TypeOK
  <2>5. Cardinality(Unsaved) <= AutoSaveInterval + AutoSaveInterval * failedSaves
    <3>1. CASE mainPc = "open"
      BY <2>1, <3>1, AllowanceIs DEF SaveInv, SaveDue
    <3>2. CASE mainPc = "finalOpen"
      <4>1. Cardinality(Unsaved) <= (interactionCount % AutoSaveInterval)
                                    + AutoSaveInterval * failedSaves
        BY <2>1, <3>2, AllowanceIs DEF SaveInv, SaveDue, Recorded
      <4> QED BY <1>1, <4>1, UnsavedFinite, ParametersAssumption
    <3> QED BY <2>1, <3>1, <3>2
  <2> QED BY <1>1, <2>2, <2>3, <2>4, <2>5, UnsavedFinite, ParametersAssumption DEF SaveInv
<1>9. CASE MainClose
  <2>1. /\ disk' = memory /\ memory' = memory
        /\ mainPc' = "check" \/ mainPc' = "persist"
        /\ UNCHANGED <<interactionCount, failedSaves>>
    BY <1>9, Zenon DEF MainClose
  <2>2. Unsaved' = {} /\ ~SaveDue' /\ ~Recorded'
    BY <2>1 DEF Unsaved, SaveDue, Recorded
  <2>3. Cardinality(Unsaved') = 0
    BY <2>2, FS_EmptySet
  <2>4. Allowance' = (interactionCount % AutoSaveInterval) + AutoSaveInterval * failedSaves
    BY <2>1, <2>2, Zenon DEF Allowance
  <2> QED BY <1>1, <2>2, <2>3, <2>4 DEF SaveInv
<1>10. CASE MainExit
  BY <1>10 DEF MainExit, SaveInv
<1> QED BY <1>2, <1>3, <1>4, <1>5, <1>6, <1>7, <1>8, <1>9, <1>10 DEF MainStep

LEMMA SaveStep == TypeInv /\ TypeInv' /\ SaveInv /\ [Next]_vars => SaveInv'
<1> SUFFICES ASSUME TypeInv, TypeInv', SaveInv, [Next]_vars PROVE SaveInv'
  OBVIOUS
<1>1. CASE MainStep
  BY <1>1, SaveMain
<1>2. CASE PollStep \/ UserSends \/ Signal \/ UNCHANGED vars
  <2>1. UNCHANGED <<up, mainPc, memory, disk, interactionCount, failedSaves>>
    <3>1. CASE PollStep
      BY <3>1 DEF PollStep, PollCheck, PollLock, FetchDelivered, FetchLost, PollParse,
                  PollParseTo, PollParsed, PollSleep, PollCommand, PollAsk, PollReply
    <3>2. CASE ~PollStep
      BY <1>2, <3>2 DEF UserSends, Signal, vars
    <3> QED BY <3>1, <3>2
  <2>2. Unsaved' = Unsaved /\ Allowance' = Allowance /\ SaveDue' = SaveDue
    BY <2>1 DEF Unsaved, Allowance, SaveDue, Recorded
  <2> QED BY <2>1, <2>2 DEF SaveInv
<1>3. CASE Crash
  BY <1>3 DEF Crash, SaveInv
<1>4. CASE Boot
  <2>1. /\ memory' = Prune(disk) /\ disk' = disk /\ disk \in Seq(LineIds)
        /\ mainPc' = "check" /\ interactionCount' = 0 /\ failedSaves' = 0
    BY <1>4 DEF Boot, TypeInv, TypeOK
  <2>2. Range(Prune(disk)) \subseteq Range(disk)
    BY <2>1, PruneRange
  <2>3. Unsaved' = {} /\ ~SaveDue' /\ ~Recorded'
    BY <2>1, <2>2 DEF Unsaved, SaveDue, Recorded
  <2>4. Cardinality(Unsaved') = 0
    BY <2>3, FS_EmptySet
  <2>5. Allowance' = (0 % AutoSaveInterval) + AutoSaveInterval * 0
    BY <2>1, <2>3, Zenon DEF Allowance
  <2>6. 0 % AutoSaveInterval \in Nat /\ AutoSaveInterval * 0 = 0
    BY ParametersAssumption
  <2> QED BY <2>3, <2>4, <2>5, <2>6 DEF SaveInv
<1> QED BY <1>1, <1>2, <1>3, <1>4 DEF Next, Environment

\* Between saves at most one interval of interactions is only in memory, and
\* one more for each save that failed (mk_entry.cpp:2204-2214,
\* persistent_memory.cpp:219-272).
THEOREM LossIsBounded == Spec => []UnsavedBounded
<1>1. Spec => []TypeInv
  BY TypeInit, TypeStep, PTL DEF Spec
<1>2. Spec => []SaveInv
  BY <1>1, SaveInit, SaveStep, PTL DEF Spec
<1>3. TypeInv /\ SaveInv => UnsavedBounded
  <2> SUFFICES ASSUME TypeInv, SaveInv, up, mainPc \notin {"saving", "finalSaving"}
               PROVE  Cardinality(Unsaved) <= AutoSaveInterval * (1 + failedSaves)
    BY DEF UnsavedBounded
  <2>1. Cardinality(Unsaved) <= Allowance
    BY DEF SaveInv
  <2>2. Allowance <= AutoSaveInterval + AutoSaveInterval * failedSaves /\ Allowance \in Int
    BY AllowanceIs, ParametersAssumption
  <2>3. AutoSaveInterval * (1 + failedSaves) = AutoSaveInterval + AutoSaveInterval * failedSaves
    BY ParametersAssumption DEF TypeInv, TypeOK
  <2> QED BY <2>1, <2>2, <2>3, UnsavedFinite, AllowanceIs, ParametersAssumption
<1> QED BY <1>1, <1>2, <1>3, PTL
=============================================================================
