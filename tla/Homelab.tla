------------------------------- MODULE Homelab -------------------------------
(***************************************************************************)
(* MKServiceOrchestrator: health checks of the services of the home lab,   *)
(* restarts of those that crash, and the move to another device when a     *)
(* service has used up its restarts.                                       *)
(*                                                                         *)
(* The caller runs the commands: a restart or a move may be slow, fail, or *)
(* be asked for again before it is confirmed.                              *)
(***************************************************************************)
EXTENDS Integers, Sequences, SequencesExt, FiniteSetsExt

CONSTANTS
    LabServices,    \* the services registered at construction
    LabDevices, NoDevice,
    MaxLabRestarts, \* max_restarts
    MaxMisses,      \* max_consecutive_failures
    MaxFailovers    \* bound on the failover events

ASSUME LabAssumption ==
    /\ MaxLabRestarts \in Nat /\ MaxMisses \in Nat \ {0} /\ MaxFailovers \in Nat
    /\ NoDevice \notin LabDevices

VARIABLES
    lab,            \* services
    failovers       \* failover_history

labVars == <<lab, failovers>>

LabStatuses == {"UNKNOWN", "RUNNING", "DEGRADED", "CRASHED", "RESTARTING"}

Registered0 ==
    [status |-> "UNKNOWN", device |-> NoDevice, restarts |-> 0, misses |-> 0,
     targets |-> <<>>]

LabInit == lab = [s \in LabServices |-> Registered0] /\ failovers = <<>>

-----------------------------------------------------------------------------
AssignToDevice(s, d) ==
    /\ lab' = [lab EXCEPT ![s].device = d]
    /\ UNCHANGED failovers

AddFailoverDevice(s, d) ==
    /\ ~Contains(lab[s].targets, d)     \* a bound on the list
    /\ lab' = [lab EXCEPT ![s].targets = Append(@, d)]
    /\ UNCHANGED failovers

(* recordHealthCheck: a healthy service has its misses forgotten, not its  *)
(* restarts.                                                               *)
Healthy(s) ==
    /\ lab' = [lab EXCEPT ![s].status = "RUNNING", ![s].misses = 0]
    /\ UNCHANGED failovers

Unhealthy(s) ==
    /\ lab[s].misses < MaxMisses        \* a bound: nothing changes beyond it
    /\ lab' = [lab EXCEPT
                  ![s].misses = @ + 1,
                  ![s].status = IF lab[s].misses + 1 >= MaxMisses
                                THEN "CRASHED" ELSE "DEGRADED"]
    /\ UNCHANGED failovers

\* Variant: the misses are not forgotten at a restart.
RestartKeepsMisses(s) ==
    /\ lab[s].status = "CRASHED" /\ lab[s].restarts < MaxLabRestarts
    /\ lab' = [lab EXCEPT ![s].status = "RESTARTING", ![s].restarts = @ + 1]
    /\ UNCHANGED failovers

CheckNeedsRestart(s) ==
    /\ lab[s].status = "CRASHED" /\ lab[s].restarts < MaxLabRestarts
    /\ lab' = [lab EXCEPT ![s].status = "RESTARTING",
                          ![s].restarts = @ + 1,
                          ![s].misses = 0]
    /\ UNCHANGED failovers

(* checkNeedsFailover notes the move to the first device of the list, the  *)
(* one it is on included, each time it is asked.                           *)
CheckNeedsFailover(s) ==
    /\ lab[s].status = "CRASHED" /\ lab[s].restarts >= MaxLabRestarts
    /\ lab[s].targets # <<>>
    /\ Len(failovers) < MaxFailovers
    /\ failovers' = Append(failovers,
                       [service |-> s, from |-> lab[s].device,
                        to |-> Head(lab[s].targets), success |-> FALSE])
    /\ UNCHANGED lab

(* confirmFailover marks the newest event of the service that is not       *)
(* confirmed yet.                                                          *)
Unconfirmed(s) == {k \in DOMAIN failovers : /\ failovers[k].service = s
                                            /\ ~failovers[k].success}

ConfirmFailover(s, d) ==
    /\ lab' = [lab EXCEPT ![s].device = d,
                          ![s].status = "RUNNING",
                          ![s].restarts = 0,
                          ![s].misses = 0]
    /\ failovers' = IF Unconfirmed(s) = {} THEN failovers
                    ELSE [failovers EXCEPT ![Max(Unconfirmed(s))].success = TRUE]

LabNext ==
    \E s \in LabServices :
        \/ \E d \in LabDevices :
              \/ AssignToDevice(s, d)
              \/ AddFailoverDevice(s, d)
              \/ ConfirmFailover(s, d)
        \/ Healthy(s)
        \/ Unhealthy(s)
        \/ CheckNeedsRestart(s)
        \/ CheckNeedsFailover(s)

LabSpec == LabInit /\ [][LabNext]_labVars

-----------------------------------------------------------------------------
(* How the statuses, the counts and the history of moves agree, whatever   *)
(* the order of checks, restarts and confirmations                         *)
(* (service_orchestrator.cpp:143-233): a service is reported down only     *)
(* after that many misses in a row, and never in any other status with so  *)
(* many; its restarts stay within the limit; and while a move of it waits  *)
(* for its confirmation and none has been confirmed since, the restarts    *)
(* are used up, so that a service is not restarted here and moved there.   *)
StatusOfMisses(s) ==
    CASE lab[s].misses = 0         -> {"UNKNOWN", "RUNNING", "RESTARTING"}
      [] lab[s].misses = MaxMisses -> {"CRASHED"}
      [] OTHER                     -> {"DEGRADED"}

Awaited(s) ==
    \E k \in Unconfirmed(s) : \A j \in DOMAIN failovers :
        failovers[j].service = s /\ failovers[j].success => j < k

MovesAfterRestarts ==
    \A s \in LabServices :
        /\ lab[s].status \in StatusOfMisses(s)
        /\ lab[s].restarts <= MaxLabRestarts
        /\ Awaited(s) => lab[s].restarts = MaxLabRestarts
=============================================================================
