------------------------------- MODULE Reminders -------------------------------
(***************************************************************************)
(* MKTaskScheduler: reminders kept in a file, handed out when they are     *)
(* due.  A file that cannot be written is left as it was.                  *)
(***************************************************************************)
EXTENDS Integers, Sequences, FiniteSets, Functions, SequencesExt, Lists

CONSTANTS
    Periods,         \* 0 for once; an hour and a day in units of the clock
    Offsets,         \* seconds from now a reminder is set for
    MaxReminders,    \* bound on the reminders ever added
    MaxNow,          \* bound on the clock
    MaxReloads       \* bound on the restarts

ASSUME ReminderAssumption ==
    /\ Periods \cup Offsets \subseteq Nat
    /\ {MaxReminders, MaxNow, MaxReloads} \subseteq Nat

VARIABLES
    tasks,           \* sequence of [id, trigger, period, serial]
    scheduleFile,    \* mk_schedules.dat
    nextTaskId,
    now,
    serials,         \* reminders ever added
    handedOut,       \* [serial, trigger] -> how often it was handed out
    unsaved,         \* checks whose result could not be saved
    reloads

reminderVars == <<tasks, scheduleFile, nextTaskId, now, serials, handedOut, unsaved, reloads>>

ReminderInit ==
    /\ tasks = <<>> /\ scheduleFile = <<>> /\ nextTaskId = 1
    /\ now = 0 /\ serials = 0 /\ handedOut = <<>>
    /\ unsaved = 0 /\ reloads = 0

-----------------------------------------------------------------------------
SaveToDisk(saved, s) == scheduleFile' = IF saved THEN s ELSE scheduleFile

AddReminder(offset, period, saved) ==
    /\ serials < MaxReminders /\ serials' = serials + 1
    /\ tasks' = Append(tasks, [id |-> nextTaskId, trigger |-> now + offset,
                               period |-> period, serial |-> serials + 1])
    /\ nextTaskId' = nextTaskId + 1
    /\ SaveToDisk(saved, tasks')
    /\ UNCHANGED <<now, handedOut, unsaved, reloads>>

IsDue(t) == t.trigger <= now
Key(t)   == [serial |-> t.serial, trigger |-> t.trigger]

\* Variant: a reminder for once stays on the list.
AfterKeepingFired(s) ==
    [i \in DOMAIN s |-> IF IsDue(s[i]) THEN [s[i] EXCEPT !.trigger = @ + s[i].period] ELSE s[i]]

(* One for once goes, one that recurs moves on by one period, however late. *)
After(s) ==
    Picked([i \in DOMAIN s |-> IF IsDue(s[i]) THEN [s[i] EXCEPT !.trigger = @ + s[i].period]
                               ELSE s[i]],
           {i \in DOMAIN s : s[i].period > 0 \/ ~IsDue(s[i])})

CheckDueTasks(saved) ==
    LET due == {i \in DOMAIN tasks : IsDue(tasks[i])}
        out == {Key(tasks[i]) : i \in due}
    IN  /\ due # {}
        /\ tasks' = After(tasks)
        /\ SaveToDisk(saved, After(tasks))
        /\ unsaved' = IF saved THEN unsaved ELSE unsaved + 1
        /\ handedOut' = [k \in DOMAIN handedOut \cup out |->
              (IF k \in DOMAIN handedOut THEN handedOut[k] ELSE 0) + (IF k \in out THEN 1 ELSE 0)]
        /\ UNCHANGED <<nextTaskId, now, serials, reloads>>

RemoveTask(i, saved) ==
    /\ i \in DOMAIN tasks
    /\ tasks' = Picked(tasks, {j \in DOMAIN tasks : tasks[j].id # tasks[i].id})
    /\ SaveToDisk(saved, tasks')
    /\ UNCHANGED <<nextTaskId, now, serials, handedOut, unsaved, reloads>>

(* The next number follows the highest on file, so one may be used again. *)
LoadFromDisk ==
    /\ reloads < MaxReloads /\ reloads' = reloads + 1
    /\ tasks' = scheduleFile
    /\ nextTaskId' = 1 + Max({0} \cup {scheduleFile[i].id : i \in DOMAIN scheduleFile})
    /\ UNCHANGED <<scheduleFile, now, serials, handedOut, unsaved>>

TimePasses ==
    /\ now < MaxNow /\ now' = now + 1
    /\ UNCHANGED <<tasks, scheduleFile, nextTaskId, serials, handedOut, unsaved, reloads>>

ReminderNext ==
    \/ \E saved \in BOOLEAN :
         \/ \E o \in Offsets, p \in Periods : AddReminder(o, p, saved)
         \/ \E i \in 1 .. MaxReminders : RemoveTask(i, saved)
         \/ CheckDueTasks(saved)
    \/ LoadFromDisk \/ TimePasses

ReminderSpec == ReminderInit /\ [][ReminderNext]_reminderVars

-----------------------------------------------------------------------------
(* An occurrence of a reminder is handed out again only for a check that    *)
(* could not be saved, whatever became of the saves of those added and      *)
(* removed around it; and no two reminders answer to one number.            *)
HandedOutOnce ==
    /\ \A k \in DOMAIN handedOut : handedOut[k] <= 1 + unsaved
    /\ \A i, j \in DOMAIN tasks : tasks[i].id = tasks[j].id => i = j

=============================================================================
