--------------------------- MODULE TokenScheduler ---------------------------
(***************************************************************************)
(* MKTokenScheduler: a priority queue of tasks, from which background work *)
(* is set aside while an AI burst lasts.  A task may call the scheduler    *)
(* while it runs, also from inside drain(), so any operation may come      *)
(* between two tasks.  Tokens are granted and never looked at again: they  *)
(* are only counted.                                                       *)
(***************************************************************************)
EXTENDS Integers, FiniteSets

CONSTANTS
    MaxTasks,      \* bound on the tasks ever submitted
    MaxBursts      \* bound on the AI bursts

ASSUME TokenAssumption == MaxTasks \in Nat /\ MaxBursts \in Nat

REALTIME   == 0
NORMAL     == 5
BACKGROUND == 8
IDLE       == 9
TokenPriorities == {REALTIME, NORMAL, BACKGROUND, IDLE}

VARIABLES
    taskQueue, deferredTasks,      \* sets of [n, priority]; n counts submissions
    aiBurstActive, thermalThrottled, onBattery,
    totalTasksRun, totalTokensGranted,
    (* history: submissions, those refused, those run, and the bursts *)
    submitted, refused, ran, bursts

tokVars == <<taskQueue, deferredTasks, aiBurstActive, thermalThrottled, onBattery,
             totalTasksRun, totalTokensGranted, submitted, refused, ran, bursts>>

TokInit ==
    /\ taskQueue = {} /\ deferredTasks = {}
    /\ aiBurstActive = FALSE /\ thermalThrottled = FALSE /\ onBattery = FALSE
    /\ totalTasksRun = 0 /\ totalTokensGranted = 0
    /\ submitted = 0 /\ refused = {} /\ ran = {} /\ bursts = 0

Yields(p) == p >= BACKGROUND

(* signalAIBurst: queued background work is deferred, ai_core gets a token. *)
SignalAIBurst ==
    /\ bursts < MaxBursts /\ bursts' = bursts + 1
    /\ aiBurstActive' = TRUE
    /\ LET yielded == {t \in taskQueue : Yields(t.priority)}
       IN  /\ deferredTasks' = deferredTasks \cup yielded
           /\ taskQueue' = taskQueue \ yielded
    /\ totalTokensGranted' = totalTokensGranted + 1
    /\ UNCHANGED <<thermalThrottled, onBattery, totalTasksRun, submitted, refused, ran>>

\* Variant: the deferred tasks are dropped instead of queued again.
ClearAndForget ==
    /\ aiBurstActive' = FALSE
    /\ deferredTasks' = {}
    /\ UNCHANGED <<taskQueue, thermalThrottled, onBattery, totalTasksRun,
                   totalTokensGranted, submitted, refused, ran, bursts>>

(* clearAIBurst: whatever the temperature and the power supply are by now. *)
ClearAIBurst ==
    /\ aiBurstActive' = FALSE
    /\ taskQueue' = taskQueue \cup deferredTasks
    /\ deferredTasks' = {}
    /\ UNCHANGED <<thermalThrottled, onBattery, totalTasksRun, totalTokensGranted,
                   submitted, refused, ran, bursts>>

(* submitTask: deferred, refused, or queued with a token of its own. *)
Deferred(p) == aiBurstActive /\ Yields(p)
Refused(p)  == (thermalThrottled /\ Yields(p)) \/ (onBattery /\ p = IDLE)

SubmitTask(p) ==
    /\ submitted < MaxTasks /\ submitted' = submitted + 1
    /\ LET task == [n |-> submitted', priority |-> p]
       IN  \/ /\ Deferred(p)
              /\ deferredTasks' = deferredTasks \cup {task}
              /\ UNCHANGED <<taskQueue, totalTokensGranted, refused>>
           \/ /\ ~ Deferred(p) /\ Refused(p)
              /\ refused' = refused \cup {task.n}
              /\ UNCHANGED <<taskQueue, deferredTasks, totalTokensGranted>>
           \/ /\ ~ Deferred(p) /\ ~ Refused(p)
              /\ taskQueue' = taskQueue \cup {task}
              /\ totalTokensGranted' = totalTokensGranted + 1
              /\ UNCHANGED <<deferredTasks, refused>>
    /\ UNCHANGED <<aiBurstActive, thermalThrottled, onBattery, totalTasksRun, ran, bursts>>

(* runNext, alone or as a turn of drain(): the heap orders by priority only. *)
RunNext(t) ==
    /\ t \in taskQueue
    /\ \A u \in taskQueue : t.priority <= u.priority
    /\ taskQueue' = taskQueue \ {t}
    /\ totalTasksRun' = totalTasksRun + 1
    /\ ran' = ran \cup {t.n}
    /\ UNCHANGED <<deferredTasks, aiBurstActive, thermalThrottled, onBattery,
                   totalTokensGranted, submitted, refused, bursts>>

SetThermalState(throttled) ==
    /\ thermalThrottled' = throttled
    /\ UNCHANGED <<taskQueue, deferredTasks, aiBurstActive, onBattery, totalTasksRun,
                   totalTokensGranted, submitted, refused, ran, bursts>>

SetPowerState(battery) ==
    /\ onBattery' = battery
    /\ UNCHANGED <<taskQueue, deferredTasks, aiBurstActive, thermalThrottled,
                   totalTasksRun, totalTokensGranted, submitted, refused, ran, bursts>>

TokNext ==
    \/ SignalAIBurst \/ ClearAIBurst
    \/ \E p \in TokenPriorities : SubmitTask(p)
    \/ \E t \in taskQueue : RunNext(t)
    \/ \E b \in BOOLEAN : SetThermalState(b) \/ SetPowerState(b)

TokSpec == TokInit /\ [][TokNext]_tokVars

-----------------------------------------------------------------------------
(* A task that was not refused waits in one queue or has run once: however   *)
(* bursts, submissions and runs interleave, a deferred task is neither lost  *)
(* nor run twice; and no background task is in reach of runNext in a burst,  *)
(* nor left aside after one.                                                 *)
Numbers(tasks) == {t.n : t \in tasks}

TasksAccounted ==
    /\ 1 .. submitted = Numbers(taskQueue) \cup Numbers(deferredTasks) \cup ran \cup refused
    /\ submitted = Cardinality(taskQueue) + Cardinality(deferredTasks)
                     + totalTasksRun + Cardinality(refused)
    /\ aiBurstActive => \A t \in taskQueue : ~ Yields(t.priority)
    /\ ~ aiBurstActive => deferredTasks = {}
=============================================================================
