----------------------------- MODULE Assistant -----------------------------
(***************************************************************************)
(* The running mk_os process (system/mk_entry.cpp): the REPL thread of     *)
(* main(), the Telegram polling thread, the systemMutex that orders them,  *)
(* the Telegram server's getUpdates/offset protocol, the conversation      *)
(* window of MKBrainMemory, and the interactions that MKPersistentMemory   *)
(* rewrites to mk_memory.dat.  The process may be stopped by a signal,     *)
(* /quit or end of input, may crash between any two steps, and is started  *)
(* again from what is on disk.                                             *)
(***************************************************************************)
EXTENDS Integers, Sequences, FiniteSets, Functions

CONSTANTS
    TelegramOn,         \* a Telegram token is configured (mk_entry.cpp:1531)
    AutoSaveInterval,   \* AUTO_SAVE_INTERVAL
    MaxInteractions,    \* maxInteractions of MKPersistentMemory
    MaxContextTurns,    \* maxContextTurns of MKBrainMemory
    BatchLimit,         \* most updates one getUpdates reply holds
    MaxUpdates,         \* bound: messages the Telegram users send
    MaxLines,           \* bound: lines typed at the terminal
    MaxBoots,           \* bound: starts of the process
    MaxFailedSaves      \* bound: saves that cannot open the file, per start

ASSUME ParametersAssumption ==
    /\ TelegramOn \in BOOLEAN
    /\ AutoSaveInterval \in Nat /\ AutoSaveInterval > 0
    /\ MaxInteractions \in Nat /\ MaxInteractions > 0
    /\ MaxContextTurns \in Nat /\ MaxContextTurns >= 2
    /\ BatchLimit \in Nat /\ BatchLimit > 0
    /\ MaxUpdates \in Nat /\ MaxLines \in Nat
    /\ MaxBoots \in Nat /\ MaxFailedSaves \in Nat

VARIABLES
    updates,            \* what users have sent: update id -> kind
    confirmed,          \* lowest update id the server still holds
    up, boots,          \* the process is running; how often it was started
    running,            \* g_running
    mutex,              \* systemMutex: who holds it
    mainPc, input, lines, interactionCount,
    pollPc, lastUpdateId, next, last,   \* the reply being parsed is next..last
    shortTerm,          \* shortTermContext: the conversation window
    memory,             \* interactions, by line number
    disk,               \* interactions in mk_memory.dat
    failedSaves,        \* saves of this start that could not open the file
    handled,            \* history: times each update was handled since boot
    done                \* history: updates handled since the beginning

server   == <<updates, confirmed>>
process  == <<up, boots, running>>
repl     == <<mainPc, input, lines, interactionCount>>
poller   == <<pollPc, lastUpdateId, next, last>>
storage  == <<memory, disk, failedSaves>>
history  == <<handled, done>>
vars == <<server, process, mutex, repl, poller, shortTerm, storage, history>>

UpdateKinds == {"chat", "command", "nontext"}

\* "local" stands for /clear, /help and /apikey, which take no lock.
LineKinds == {"query", "math", "command", "local", "quit", "empty"}

UpdateIds == 1..MaxUpdates
LineIds   == 1..MaxLines

Exchanges == [from : {"repl"}, id : LineIds] \cup
             [from : {"telegram"}, id : UpdateIds]
Turns == [role : {"user", "mk"}, of : Exchanges]

Line(n)   == [from |-> "repl", id |-> n]
Update(u) == [from |-> "telegram", id |-> u]

-----------------------------------------------------------------------------
(* Control points of the two threads.                                      *)

MainLocked   == {"work", "reply", "track", "open", "saving"}
MainUnlocked == {"finalOpen", "finalSaving", "persist"}
MainWaiting  == {"workLock", "trackLock", "saveLock"}
MainPcs == MainLocked \cup MainUnlocked \cup MainWaiting
             \cup {"check", "getline", "join", "exited"}

PollLocked == {"fetch", "handle", "reply"}
PollPcs == PollLocked \cup
             {"off", "loop", "fetchLock", "parse", "handleLock", "sleep", "exited"}

-----------------------------------------------------------------------------
(* Data the threads share.                                                 *)

\* commitToShortTerm: a full window first archives its two oldest turns.
Commit(role, exchange, window) ==
    Append(IF Len(window) >= MaxContextTurns
             THEN SubSeq(window, 3, Len(window)) ELSE window,
           [role |-> role, of |-> exchange])

\* pruneIfNeeded: only the newest MaxInteractions entries are kept.
Prune(entries) ==
    IF Len(entries) > MaxInteractions
      THEN SubSeq(entries, Len(entries) - MaxInteractions + 1, Len(entries))
      ELSE entries

\* recordInteraction
Record(n) == memory' = Prune(Append(memory, n))

Acquire(thread) == mutex = "free" /\ mutex' = thread
Release(thread) == mutex = thread /\ mutex' = "free"

-----------------------------------------------------------------------------
Init ==
    /\ updates = << >>
    /\ confirmed = 1
    /\ up = TRUE
    /\ boots = 1
    /\ running = TRUE
    /\ mutex = "free"
    /\ mainPc = "check"
    /\ input = "empty"
    /\ lines = 0
    /\ interactionCount = 0
    /\ pollPc = IF TelegramOn THEN "loop" ELSE "off"
    /\ lastUpdateId = 0
    /\ next = 1
    /\ last = 0
    /\ shortTerm = << >>
    /\ memory = << >>
    /\ disk = << >>
    /\ failedSaves = 0
    /\ handled = [u \in UpdateIds |-> 0]
    /\ done = {}

-----------------------------------------------------------------------------
(* The REPL thread: the loop of main().                                    *)

MainCheck ==
    /\ up /\ mainPc = "check"
    /\ mainPc' = IF running THEN "getline" ELSE "join"
    /\ UNCHANGED <<server, process, mutex, input, lines, interactionCount,
                   poller, shortTerm, storage, history>>

\* A line arrives: /quit stops the loop but is still tracked; an empty line
\* goes straight back to the loop condition.
MainGetline ==
    /\ up /\ mainPc = "getline" /\ lines < MaxLines
    /\ lines' = lines + 1
    /\ \E kind \in LineKinds :
         /\ input' = kind
         /\ running' = (running /\ kind # "quit")
         /\ mainPc' = CASE kind = "empty" -> "check"
                        [] kind \in {"local", "quit"} -> "trackLock"
                        [] OTHER -> "workLock"
    /\ UNCHANGED <<server, up, boots, mutex, interactionCount, poller,
                   shortTerm, storage, history>>

\* End of input leaves the loop; g_running keeps its value.
MainEOF ==
    /\ up /\ mainPc = "getline"
    /\ mainPc' = "join"
    /\ UNCHANGED <<server, process, mutex, input, lines, interactionCount,
                   poller, shortTerm, storage, history>>

MainLock ==
    /\ up /\ mainPc \in MainWaiting
    /\ Acquire("main")
    /\ mainPc' = CASE mainPc = "workLock"  -> "work"
                   [] mainPc = "trackLock" -> "track"
                   [] OTHER                -> "open"
    /\ UNCHANGED <<server, process, input, lines, interactionCount, poller,
                   shortTerm, storage, history>>

\* A command runs to its end under the lock.
MainCommand ==
    /\ up /\ mainPc = "work" /\ input = "command"
    /\ Release("main")
    /\ mainPc' = "trackLock"
    /\ UNCHANGED <<server, process, input, lines, interactionCount, poller,
                   shortTerm, storage, history>>

\* handle_natural_query answered by the math solver: no turn is committed.
MainMath ==
    /\ up /\ mainPc = "work" /\ input = "math"
    /\ Record(lines)
    /\ Release("main")
    /\ mainPc' = "trackLock"
    /\ UNCHANGED <<server, process, input, lines, interactionCount, poller,
                   shortTerm, disk, failedSaves, history>>

\* handle_natural_query answered by respond(): the user's turn ...
MainAsk ==
    /\ up /\ mainPc = "work" /\ input = "query"
    /\ shortTerm' = Commit("user", Line(lines), shortTerm)
    /\ mainPc' = "reply"
    /\ UNCHANGED <<server, process, mutex, input, lines, interactionCount,
                   poller, storage, history>>

\* ... and then MK's; the interaction is recorded before the lock is released.
MainReply ==
    /\ up /\ mainPc = "reply"
    /\ shortTerm' = Commit("mk", Line(lines), shortTerm)
    /\ Record(lines)
    /\ Release("main")
    /\ mainPc' = "trackLock"
    /\ UNCHANGED <<server, process, input, lines, interactionCount, poller,
                   disk, failedSaves, history>>

\* Variant: the turn is tracked without taking the lock.
MainTrackUnlocked ==
    /\ up /\ mainPc = "trackLock"
    /\ shortTerm' = Commit("user", Line(lines), shortTerm)
    /\ interactionCount' = interactionCount + 1
    /\ mainPc' = IF interactionCount' % AutoSaveInterval = 0
                   THEN "saveLock" ELSE "check"
    /\ UNCHANGED <<server, process, mutex, input, lines, poller, storage,
                   history>>

\* Variant: only queries are counted towards the next save.
MainTrackQueries ==
    /\ up /\ mainPc = "track"
    /\ shortTerm' = Commit("user", Line(lines), shortTerm)
    /\ Release("main")
    /\ interactionCount' = IF input = "query" THEN interactionCount + 1
                                              ELSE interactionCount
    /\ mainPc' = IF interactionCount' > interactionCount
                      /\ interactionCount' % AutoSaveInterval = 0
                   THEN "saveLock" ELSE "check"
    /\ UNCHANGED <<server, process, input, lines, poller, storage, history>>

\* Every interaction is committed (a query for the second time) and counted.
MainTrack ==
    /\ up /\ mainPc = "track"
    /\ shortTerm' = Commit("user", Line(lines), shortTerm)
    /\ Release("main")
    /\ interactionCount' = interactionCount + 1
    /\ mainPc' = IF interactionCount' % AutoSaveInterval = 0
                   THEN "saveLock" ELSE "check"
    /\ UNCHANGED <<server, process, input, lines, poller, storage, history>>

-----------------------------------------------------------------------------
(* saveToDisk, periodic (under the lock) and final (without it): opening   *)
(* truncates the file, the entries follow one by one.                      *)

MainOpen ==
    /\ up /\ mainPc \in {"open", "finalOpen"}
    /\ disk' = << >>
    /\ mainPc' = IF mainPc = "open" THEN "saving" ELSE "finalSaving"
    /\ UNCHANGED <<server, process, mutex, input, lines, interactionCount,
                   poller, shortTerm, memory, failedSaves, history>>

\* The file cannot be opened: the error is printed, nothing else happens.
MainOpenFails ==
    /\ up /\ mainPc \in {"open", "finalOpen"} /\ failedSaves < MaxFailedSaves
    /\ failedSaves' = failedSaves + 1
    /\ \/ mainPc = "open" /\ Release("main") /\ mainPc' = "check"
       \/ mainPc = "finalOpen" /\ mainPc' = "persist" /\ UNCHANGED mutex
    /\ UNCHANGED <<server, process, input, lines, interactionCount, poller,
                   shortTerm, memory, disk, history>>

MainClose ==
    /\ up
    /\ disk' = memory
    /\ \/ mainPc = "saving" /\ Release("main") /\ mainPc' = "check"
       \/ mainPc = "finalSaving" /\ mainPc' = "persist" /\ UNCHANGED mutex
    /\ UNCHANGED <<server, process, input, lines, interactionCount, poller,
                   shortTerm, memory, failedSaves, history>>

-----------------------------------------------------------------------------
(* Shutdown: wait for the polling thread, stop the daemon and the          *)
(* services, save, persist the learned facts, return from main().          *)

\* Variant: shutdown does not wait for the polling thread.
MainJoinNot ==
    /\ up /\ mainPc = "join"
    /\ mainPc' = "finalOpen"
    /\ UNCHANGED <<server, process, mutex, input, lines, interactionCount,
                   poller, shortTerm, storage, history>>

MainJoin ==
    /\ up /\ mainPc = "join"
    /\ pollPc \in {"off", "exited"}
    /\ mainPc' = "finalOpen"
    /\ UNCHANGED <<server, process, mutex, input, lines, interactionCount,
                   poller, shortTerm, storage, history>>

MainExit ==
    /\ up /\ mainPc = "persist"
    /\ mainPc' = "exited"
    /\ up' = FALSE
    /\ UNCHANGED <<server, boots, running, mutex, input, lines,
                   interactionCount, poller, shortTerm, storage, history>>

-----------------------------------------------------------------------------
(* The Telegram polling thread: telegram_poll_loop().                      *)

\* Variant: the loop does not look at g_running.
PollCheckForever ==
    /\ up /\ pollPc = "loop"
    /\ pollPc' = "fetchLock"
    /\ UNCHANGED <<server, process, mutex, repl, lastUpdateId, next, last,
                   shortTerm, storage, history>>

PollCheck ==
    /\ up /\ pollPc = "loop"
    /\ pollPc' = IF running THEN "fetchLock" ELSE "exited"
    /\ UNCHANGED <<server, process, mutex, repl, lastUpdateId, next, last,
                   shortTerm, storage, history>>

PollLock ==
    /\ up /\ pollPc \in {"fetchLock", "handleLock"}
    /\ Acquire("poll")
    /\ pollPc' = IF pollPc = "fetchLock" THEN "fetch" ELSE "handle"
    /\ UNCHANGED <<server, process, repl, lastUpdateId, next, last,
                   shortTerm, storage, history>>

\* getUpdates: an offset tells the server to forget every earlier update; it
\* answers with the updates it still holds, oldest first.  Without an offset
\* (lastUpdateId = 0, the first call of a start) nothing is confirmed.
Confirm == IF lastUpdateId > confirmed THEN lastUpdateId ELSE confirmed
Newest(from) == IF Len(updates) - from >= BatchLimit
                  THEN from + BatchLimit - 1 ELSE Len(updates)

\* Variant: parsing starts behind the first update of the reply.
FetchSkippingFirst ==
    /\ up /\ pollPc = "fetch"
    /\ confirmed' = Confirm
    /\ last' = Newest(confirmed')
    /\ next' = IF confirmed' < last' THEN confirmed' + 1 ELSE confirmed'
    /\ Release("poll")
    /\ pollPc' = "parse"
    /\ UNCHANGED <<updates, process, repl, lastUpdateId, shortTerm, storage,
                   history>>

FetchDelivered ==
    /\ up /\ pollPc = "fetch"
    /\ confirmed' = Confirm
    /\ next' = confirmed'
    /\ last' = Newest(confirmed')
    /\ Release("poll")
    /\ pollPc' = "parse"
    /\ UNCHANGED <<updates, process, repl, lastUpdateId, shortTerm, storage,
                   history>>

\* Variant: a failed poll ends the thread.
FetchLostFatal ==
    /\ up /\ pollPc = "fetch"
    /\ confirmed' \in {confirmed, Confirm}
    /\ next' = 1 /\ last' = 0
    /\ Release("poll")
    /\ pollPc' = "exited"
    /\ UNCHANGED <<updates, process, repl, lastUpdateId, shortTerm, storage,
                   history>>

\* The call fails, before or after the server saw it: the reply is empty.
FetchLost ==
    /\ up /\ pollPc = "fetch"
    /\ confirmed' \in {confirmed, Confirm}
    /\ next' = 1 /\ last' = 0
    /\ Release("poll")
    /\ pollPc' = "parse"
    /\ UNCHANGED <<updates, process, repl, lastUpdateId, shortTerm, storage,
                   history>>

\* One update of the reply: ids below lastUpdateId are skipped, the others
\* advance it before they are handled; an update without text ends there.
PollParseTo(offset) ==
    /\ up /\ pollPc = "parse" /\ next <= last
    /\ next' = next + 1
    /\ IF next < lastUpdateId
         THEN UNCHANGED <<lastUpdateId, pollPc, history>>
         ELSE /\ lastUpdateId' = offset
              /\ IF updates[next] = "nontext"
                   THEN /\ done' = done \cup {next}
                        /\ handled' = [handled EXCEPT ![next] = @ + 1]
                        /\ UNCHANGED pollPc
                   ELSE pollPc' = "handleLock" /\ UNCHANGED history
    /\ UNCHANGED <<server, process, mutex, repl, last, shortTerm, storage>>

\* Variants: the offset is one too low, one too high.
PollParseLow  == PollParseTo(next)
PollParseHigh == PollParseTo(next + 2)

PollParse == PollParseTo(next + 1)

\* The reply is used up: sleep two seconds.
PollParsed ==
    /\ up /\ pollPc = "parse" /\ next > last
    /\ pollPc' = "sleep"
    /\ UNCHANGED <<server, process, mutex, repl, lastUpdateId, next, last,
                   shortTerm, storage, history>>

PollSleep ==
    /\ up /\ pollPc = "sleep"
    /\ pollPc' = "loop"
    /\ UNCHANGED <<server, process, mutex, repl, lastUpdateId, next, last,
                   shortTerm, storage, history>>

\* updateId, the update parsed last
Current == next - 1

Finished ==
    /\ done' = done \cup {Current}
    /\ handled' = [handled EXCEPT ![Current] = @ + 1]
    /\ Release("poll")
    /\ pollPc' = "parse"

PollCommand ==
    /\ up /\ pollPc = "handle" /\ updates[Current] = "command"
    /\ Finished
    /\ UNCHANGED <<server, process, repl, lastUpdateId, next, last, shortTerm,
                   storage>>

PollAsk ==
    /\ up /\ pollPc = "handle" /\ updates[Current] = "chat"
    /\ shortTerm' = Commit("user", Update(Current), shortTerm)
    /\ pollPc' = "reply"
    /\ UNCHANGED <<server, process, mutex, repl, lastUpdateId, next, last,
                   storage, history>>

PollReply ==
    /\ up /\ pollPc = "reply"
    /\ shortTerm' = Commit("mk", Update(Current), shortTerm)
    /\ Finished
    /\ UNCHANGED <<server, process, repl, lastUpdateId, next, last, storage>>

-----------------------------------------------------------------------------
(* The environment.                                                        *)

UserSends ==
    /\ TelegramOn /\ Len(updates) < MaxUpdates
    /\ \E kind \in UpdateKinds : updates' = Append(updates, kind)
    /\ UNCHANGED <<confirmed, process, mutex, repl, poller, shortTerm, storage,
                   history>>

\* SIGINT or SIGTERM: the handler only clears g_running; a getline that is
\* waiting goes on waiting.
Signal ==
    /\ up /\ running
    /\ running' = FALSE
    /\ UNCHANGED <<server, up, boots, mutex, repl, poller, shortTerm, storage,
                   history>>

\* The process dies.  Of a save in progress a prefix has reached the file.
Crash ==
    /\ up
    /\ up' = FALSE
    /\ IF mainPc \in {"saving", "finalSaving"}
         THEN \E n \in 0..Len(memory) : disk' = SubSeq(memory, 1, n)
         ELSE UNCHANGED disk
    /\ UNCHANGED <<server, boots, running, mutex, repl, poller, shortTerm,
                   memory, failedSaves, history>>

\* main() again: loadFromDisk, an empty window, a new polling thread.
Boot ==
    /\ ~up /\ boots < MaxBoots
    /\ up' = TRUE
    /\ boots' = boots + 1
    /\ running' = TRUE
    /\ mutex' = "free"
    /\ mainPc' = "check"
    /\ input' = "empty"
    /\ interactionCount' = 0
    /\ pollPc' = IF TelegramOn THEN "loop" ELSE "off"
    /\ lastUpdateId' = 0
    /\ next' = 1 /\ last' = 0
    /\ shortTerm' = << >>
    /\ memory' = Prune(disk)
    /\ failedSaves' = 0
    /\ handled' = [u \in UpdateIds |-> 0]
    /\ UNCHANGED <<server, lines, disk, done>>

-----------------------------------------------------------------------------
MainStep ==
    \/ MainCheck \/ MainGetline \/ MainEOF \/ MainLock \/ MainCommand
    \/ MainMath \/ MainAsk \/ MainReply \/ MainTrack \/ MainOpen
    \/ MainOpenFails \/ MainClose \/ MainJoin \/ MainExit

PollStep ==
    \/ PollCheck \/ PollLock \/ FetchDelivered \/ FetchLost \/ PollParse
    \/ PollParsed \/ PollSleep \/ PollCommand \/ PollAsk \/ PollReply

Environment == UserSends \/ Signal \/ Crash \/ Boot

Next == MainStep \/ PollStep \/ Environment

Spec == Init /\ [][Next]_vars

(* Both threads keep running; neither waits for the lock for ever while    *)
(* it keeps being released (the poller sleeps two seconds without it, the  *)
(* REPL thread sits at the terminal without it); a poll that is repeated   *)
(* gets an answer in the end.  What the user types is under no fairness.   *)
Fairness ==
    /\ WF_vars(MainStep /\ mainPc \notin {"getline"} \cup MainWaiting)
    /\ SF_vars(MainLock)
    /\ WF_vars(PollStep /\ pollPc \notin {"fetchLock", "handleLock"})
    /\ SF_vars(PollLock)
    /\ SF_vars(FetchDelivered)

FairSpec == Spec /\ Fairness

-----------------------------------------------------------------------------
(* What should hold.                                                       *)

TypeOK ==
    /\ updates \in Seq(UpdateKinds) /\ Len(updates) <= MaxUpdates
    /\ confirmed \in 1..(MaxUpdates + 1)
    /\ up \in BOOLEAN /\ boots \in Nat /\ running \in BOOLEAN
    /\ mutex \in {"free", "main", "poll"}
    /\ mainPc \in MainPcs
    /\ input \in LineKinds
    /\ lines \in 0..MaxLines
    /\ interactionCount \in Nat
    /\ pollPc \in PollPcs
    /\ lastUpdateId \in 0..(MaxUpdates + 1)
    /\ next \in 1..(MaxUpdates + 1) /\ last \in 0..MaxUpdates
    /\ shortTerm \in Seq(Turns) /\ Len(shortTerm) <= MaxContextTurns
    /\ memory \in Seq(LineIds) /\ Len(memory) <= MaxInteractions
    /\ disk \in Seq(LineIds)
    /\ failedSaves \in Nat
    /\ handled \in [UpdateIds -> Nat]
    /\ done \in SUBSET UpdateIds

MainTouchesShared == mainPc \in MainLocked \cup MainUnlocked
PollTouchesShared == pollPc \in PollLocked

\* Graph, memory, learning engine and Telegram calls are never used by the two
\* threads at the same time (comment at mk_entry.cpp:335), although the final
\* save and persist of shutdown take no lock.
SharedAccessExclusive == up => ~(MainTouchesShared /\ PollTouchesShared)

\* The server forgets an update only when MK has handled it: an update is not
\* lost by a crash, a failed poll, or a batch cut short by a restart.
NoUpdateLost == \A u \in UpdateIds : u < confirmed => u \in done

\* Within one run of the process no update is handled twice, whatever replies
\* are lost (the skip and the offset of telegram_poll_loop).
OncePerBoot == \A u \in UpdateIds : handled[u] <= 1

\* Telegram users' messages are handled in the order they were sent.
HandledInOrder == \A u \in done : 1..u \subseteq done

\* The three together: whatever replies are lost and whenever the process
\* stops, updates are handled in order, once per start, and none is lost
\* (telegram_poll_loop, mk_entry.cpp:1174-1250, with getUpdates' offset).
DeliveredOnceInOrder == NoUpdateLost /\ OncePerBoot /\ HandledInOrder

\* In the window, MK's turn directly follows the question it answers: turns
\* of the two threads do not mix inside an exchange.
ReplyFollowsQuestion ==
    \A i \in 2..Len(shortTerm) :
        shortTerm[i].role = "mk" =>
            shortTerm[i-1] = [role |-> "user", of |-> shortTerm[i].of]

\* A parsed update is being handled, or waits for the lock to be.
Handling == pollPc \in {"handleLock", "handle", "reply"}

\* The lowest update this start of the process has not taken from the server.
Position == IF lastUpdateId = 0 THEN confirmed ELSE lastUpdateId

\* The poller and the server, with their lost replies, batches, skips and
\* crashes, are a mailbox: a message is delivered when its handler returns
\* (telegram_poll_loop, mk_entry.cpp:1173-1446).
Mail == INSTANCE Mailbox WITH
            sent      <- Len(updates),
            kept      <- confirmed,
            position  <- IF Handling THEN Current ELSE Position,
            delivered <- done
IsMailbox == Mail!Spec

Unsaved == Range(memory) \ Range(disk)

\* Between saves at most one interval of interactions is only in memory; each
\* save that fails adds one more interval.
UnsavedBounded ==
    (up /\ mainPc \notin {"saving", "finalSaving"}) =>
        Cardinality(Unsaved) <= AutoSaveInterval * (1 + failedSaves)

-----------------------------------------------------------------------------
(* Liveness.                                                               *)

\* Once the REPL loop is left with g_running false, the process ends.
ShutdownCompletes == (mainPc = "join" /\ ~running) ~> ~up

\* A message is handled unless the process goes down or is told to stop.
UpdatesHandled ==
    \A u \in UpdateIds :
        (u <= Len(updates) /\ up /\ running)
            ~> (u \in done \/ ~up \/ ~running)

\* Leaving the REPL loop stops the polling thread ("Signal and join the
\* telegram polling thread", mk_entry.cpp:2223).
LeavingStopsPolling == (up /\ mainPc = "join") ~> (~up \/ pollPc = "exited")

\* "Periodic auto-save every N interactions to limit data loss on crash"
\* (mk_entry.cpp:2210): a restart with no failed save loses at most one
\* interval of interactions.
CrashLossLimited ==
    [][Boot /\ failedSaves = 0 =>
         Cardinality(Range(memory) \ Range(memory')) <= AutoSaveInterval]_vars
=============================================================================
