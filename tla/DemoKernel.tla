------------------------------ MODULE DemoKernel ------------------------------
(***************************************************************************)
(* The demonstration kernel: its boot, the timer that calls the scheduler,  *)
(* the process table and the disk cache, and the shell that is its only     *)
(* clock.  A command of the shell ticks, flushes, halts or panics; the      *)
(* other steps are the calls that the tables offer to what runs on them.    *)
(***************************************************************************)
EXTENDS Naturals

CONSTANTS
    Interval,       \* event of the timer -> its ticks (10, 10, 100, 50)
    BootTasks,      \* the tasks queued at boot: name, priority, left (its ticks)
    BootProcesses,  \* the processes created at boot (4)
    MaxPids,        \* bound on the processes
    Blocks          \* the blocks of the disk in use, 0 and 1 among them

Events == {"sched_tick", "proc_tick", "disk_flush", "reap_zombies"}
Low    == 8

ASSUME KernelAssumption ==
    /\ Interval \in [Events -> Nat \ {0}]
    /\ BootProcesses \in Nat /\ MaxPids \in Nat /\ {0, 1} \subseteq Blocks

VARIABLES
    kernelPhase,    \* "drivers", "boot queue", "shell", "halted" or "panic"
    procs,          \* pid -> the state of the process, of those in the table
    nextPid,
    bootQueue,      \* the tasks waiting
    aiCoreActive,
    cache,          \* block -> whether it is dirty, of the blocks in the cache
    countdown,      \* event -> its ticks left
    deadFor,        \* history: pid -> the ticks since it was killed
    dirtyFor        \* history: block -> the ticks since it was written

tableVars  == <<procs, nextPid, deadFor>>
queueVars  == <<bootQueue, aiCoreActive>>
diskVars   == <<cache, dirtyFor>>
kernelVars == <<kernelPhase, tableVars, queueVars, diskVars, countdown>>

KernelInit ==
    /\ kernelPhase = "drivers"
    /\ procs = [p \in {} |-> ""] /\ nextPid = 1
    /\ bootQueue = {} /\ aiCoreActive = FALSE
    /\ cache = [b \in {} |-> FALSE]
    /\ countdown = Interval
    /\ deadFor = [p \in 1 .. MaxPids |-> 0] /\ dirtyFor = [b \in Blocks |-> 0]

Flushed == [b \in DOMAIN cache |-> FALSE]
Reaped  == [p \in {q \in DOMAIN procs : procs[q] # "ZOMBIE"} |-> procs[p]]

(* runNext: one of the most urgent tasks takes a tick; while the AI core     *)
(* works a task of LOW or less is put back, and no other gets the turn.      *)
AfterRunNext(tasks) ==
    LET urgent == {t \in tasks : \A u \in tasks : t.priority <= u.priority}
        Throttled(t) == aiCoreActive /\ t.priority >= Low
        Rest(t) == IF t.left > 1 THEN {[t EXCEPT !.left = @ - 1]} ELSE {}
    IN  {IF Throttled(t) THEN tasks ELSE (tasks \ {t}) \cup Rest(t) : t \in urgent}
        \cup (IF tasks = {} THEN {tasks} ELSE {})

-----------------------------------------------------------------------------
KernelBoot ==
    /\ kernelPhase = "drivers" /\ kernelPhase' = "boot queue"
    /\ procs' = [p \in 1 .. BootProcesses |-> "RUNNING"]
    /\ nextPid' = BootProcesses + 1
    /\ bootQueue' = BootTasks
    /\ UNCHANGED <<aiCoreActive, diskVars, countdown, deadFor>>

(* drain, which ends when the queue does.                                  *)
Drain ==
    /\ kernelPhase = "boot queue" /\ bootQueue # {}
    /\ bootQueue' \in AfterRunNext(bootQueue)
    /\ UNCHANGED <<kernelPhase, tableVars, aiCoreActive, diskVars, countdown>>

WriteBootBlocks ==
    /\ kernelPhase = "boot queue" /\ bootQueue = {}
    /\ cache' = [b \in {0, 1} |-> FALSE]
    /\ kernelPhase' = "shell"
    /\ UNCHANGED <<tableVars, queueVars, countdown, dirtyFor>>

(* The timer counts down and calls the events that are due, in the order     *)
(* they were registered; then the shell lets the processes age and the       *)
(* scheduler run once more.                                                *)
Elapse(due) ==
    LET Zombie(p) == p \in DOMAIN procs' /\ procs'[p] = "ZOMBIE"
        Dirty(b)  == b \in DOMAIN cache' /\ cache'[b]
    IN  /\ countdown' = [e \in Events |-> IF e \in due THEN Interval[e] ELSE countdown[e] - 1]
        /\ \E tasks \in IF "sched_tick" \in due THEN AfterRunNext(bootQueue) ELSE {bootQueue} :
              bootQueue' \in AfterRunNext(tasks)
        /\ cache' = IF "disk_flush" \in due THEN Flushed ELSE cache
        /\ procs' = IF "reap_zombies" \in due THEN Reaped ELSE procs
        /\ deadFor'  = [p \in 1 .. MaxPids |-> IF Zombie(p) THEN deadFor[p] + 1 ELSE 0]
        /\ dirtyFor' = [b \in Blocks |-> IF Dirty(b) THEN dirtyFor[b] + 1 ELSE 0]

\* Variant: an event is due only when its countdown is past zero.
DueLate == {e \in Events : countdown[e] = 0}

Due == {e \in Events : countdown[e] = 1}

KernelTick ==
    /\ kernelPhase = "shell"
    /\ Elapse(Due)
    /\ UNCHANGED <<kernelPhase, nextPid, aiCoreActive>>

Flush ==
    /\ kernelPhase = "shell"
    /\ cache' = Flushed /\ dirtyFor' = [b \in Blocks |-> 0]
    /\ UNCHANGED <<kernelPhase, tableVars, queueVars, countdown>>

Halt ==
    /\ kernelPhase = "shell" /\ kernelPhase' = "halted"
    /\ cache' = Flushed /\ dirtyFor' = [b \in Blocks |-> 0]
    /\ UNCHANGED <<tableVars, queueVars, countdown>>

(* Nothing comes after it, and nothing is flushed.                          *)
Panic ==
    /\ kernelPhase = "shell" /\ kernelPhase' = "panic"
    /\ UNCHANGED <<tableVars, queueVars, diskVars, countdown>>

-----------------------------------------------------------------------------
Create ==
    /\ nextPid <= MaxPids                                   \* the bound
    /\ procs' = [p \in DOMAIN procs \cup {nextPid} |-> IF p = nextPid THEN "RUNNING" ELSE procs[p]]
    /\ nextPid' = nextPid + 1
    /\ UNCHANGED <<deadFor, queueVars, diskVars>>

(* kill, sleep and wake.                                                   *)
Becomes(p, from, to) ==
    /\ p \in DOMAIN procs /\ procs[p] \in from
    /\ procs' = [procs EXCEPT ![p] = to]
    /\ UNCHANGED <<nextPid, deadFor, queueVars, diskVars>>

Add(t) ==
    /\ \A u \in bootQueue : u.name # t.name
    /\ bootQueue' = bootQueue \cup {t}
    /\ UNCHANGED <<tableVars, aiCoreActive, diskVars>>

SignalKernelBurst == aiCoreActive' = TRUE  /\ UNCHANGED <<tableVars, bootQueue, diskVars>>
ClearKernelBurst  == aiCoreActive' = FALSE /\ UNCHANGED <<tableVars, bootQueue, diskVars>>

WriteBlock(b) ==
    /\ cache' = [c \in DOMAIN cache \cup {b} |-> c = b \/ cache[c]]
    /\ UNCHANGED <<tableVars, queueVars, dirtyFor>>

ClearBlock(b) ==
    /\ cache' = [c \in DOMAIN cache \ {b} |-> cache[c]]
    /\ dirtyFor' = [dirtyFor EXCEPT ![b] = 0]
    /\ UNCHANGED <<tableVars, queueVars>>

KernelCall ==
    /\ kernelPhase = "shell"
    /\ \/ Create \/ SignalKernelBurst \/ ClearKernelBurst
       \/ \E p \in 1 .. MaxPids : \/ Becomes(p, {"RUNNING", "SLEEPING"}, "ZOMBIE")
                                  \/ Becomes(p, {"RUNNING"}, "SLEEPING")
                                  \/ Becomes(p, {"SLEEPING"}, "RUNNING")
       \/ \E t \in BootTasks : Add(t)
       \/ \E b \in Blocks : WriteBlock(b) \/ ClearBlock(b)
    /\ UNCHANGED <<kernelPhase, countdown>>

KernelNext ==
    \/ KernelBoot \/ Drain \/ WriteBootBlocks
    \/ KernelTick \/ Flush \/ Halt \/ Panic \/ KernelCall

KernelSpec == KernelInit /\ [][KernelNext]_kernelVars

-----------------------------------------------------------------------------
(* Whatever is killed, written, rewritten and cleared between the ticks, a   *)
(* zombie is out of the table and a block is flushed before their interval   *)
(* has passed once, and a halt leaves nothing dirty: the commands and the    *)
(* timer's events never get in each other's way (timer_driver.cpp:34,        *)
(* kernel_main.cpp:70-82, 122-125).                                         *)
KernelKeepsUp ==
    /\ \A p \in DOMAIN procs : procs[p] = "ZOMBIE" => deadFor[p] < Interval["reap_zombies"]
    /\ \A b \in DOMAIN cache : cache[b] => dirtyFor[b] < Interval["disk_flush"]
    /\ kernelPhase = "halted" => \A b \in DOMAIN cache : ~cache[b]
=============================================================================
