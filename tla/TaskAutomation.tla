---------------------------- MODULE TaskAutomation ----------------------------
(***************************************************************************)
(* MKTaskAutomation: a plan is made from a template, its steps are run one *)
(* after the other, and steps held back for safety may be approved later.  *)
(*                                                                         *)
(* A command is only what classifyCommand says of it.  The caller keeps    *)
(* the plan and may have it executed again; the engine keeps a copy.       *)
(***************************************************************************)
EXTENDS Integers, Sequences, SequencesExt, FiniteSets

CONSTANTS
    Templates,      \* the plans of the library, as sequences of safety levels
    MaxExecutions,  \* bound on executions of plans
    MaxApprovals    \* bound on approvals

VARIABLES
    plan,           \* the caller's plan
    next,           \* the step to run, 0 when no plan is being executed
    taskHistory,    \* copies of the plans executed
    counters,       \* totalTasksRun, ...Succeeded, ...Failed, ...BlockedBySafety
    dryRunMode,
    approvals

taskVars == <<plan, next, taskHistory, counters, dryRunMode, approvals>>

SafetyLevels == {"SAFE", "NEEDS_CONFIRMATION", "DANGEROUS"}

ASSUME TemplatesAssumption ==
    /\ Templates # {} /\ \A t \in Templates : t \in Seq(SafetyLevels)
    /\ MaxExecutions \in Nat /\ MaxApprovals \in Nat

(* A step's status, and whether its command has really been run. *)
Planned(levels) ==
    [steps  |-> [i \in 1 .. Len(levels) |->
                    [safety |-> levels[i], status |-> "PENDING", ran |-> FALSE]],
     status |-> "PENDING", completed |-> 0, failed |-> 0]

(* createFromTemplate of a name that is not there. *)
Unknown == [steps |-> <<>>, status |-> "FAILED", completed |-> 0, failed |-> 0]

TaskInit ==
    /\ plan = Unknown /\ next = 0 /\ taskHistory = <<>>
    /\ counters = [run |-> 0, succeeded |-> 0, failed |-> 0, blocked |-> 0]
    /\ dryRunMode = FALSE /\ approvals = 0

-----------------------------------------------------------------------------
CreateFromTemplate ==
    /\ next = 0
    /\ \/ \E levels \in Templates : plan' = Planned(levels)
       \/ plan' = Unknown
    /\ UNCHANGED <<next, taskHistory, counters, dryRunMode, approvals>>

SetDryRun ==
    /\ next = 0
    /\ dryRunMode' = ~dryRunMode
    /\ UNCHANGED <<plan, next, taskHistory, counters, approvals>>

(* executePlan: the counts start again, the steps keep their statuses      *)
(* until each is reached.                                                  *)
ExecutePlan ==
    /\ next = 0 /\ counters.run < MaxExecutions
    /\ plan' = [plan EXCEPT !.status = "IN_PROGRESS", !.completed = 0, !.failed = 0]
    /\ next' = 1
    /\ UNCHANGED <<taskHistory, counters, dryRunMode, approvals>>

(* The steps when step i has ended. *)
Ended(i, status, ran) ==
    [plan.steps EXCEPT ![i] = [@ EXCEPT !.status = status, !.ran = ran]]

HoldBack ==
    /\ plan.steps[next].safety # "SAFE"
    /\ plan' = [plan EXCEPT !.steps[next].status = "BLOCKED_SAFETY",
                            !.failed = @ + 1]
    /\ counters' = [counters EXCEPT !.blocked = @ + 1]

(* A step of a dry run is completed, but not counted. *)
PretendStep ==
    /\ plan.steps[next].safety = "SAFE" /\ dryRunMode
    /\ plan' = [plan EXCEPT !.steps = Ended(next, "COMPLETED", FALSE)]
    /\ UNCHANGED counters

ExecuteStep ==
    /\ plan.steps[next].safety = "SAFE" /\ ~dryRunMode
    /\ \/ plan' = [plan EXCEPT !.steps = Ended(next, "COMPLETED", TRUE), !.completed = @ + 1]
       \/ plan' = [plan EXCEPT !.steps = Ended(next, "FAILED", TRUE), !.failed = @ + 1]
    /\ UNCHANGED counters

RunStep ==
    /\ next \in 1 .. Len(plan.steps)
    /\ HoldBack \/ PretendStep \/ ExecuteStep
    /\ next' = next + 1
    /\ UNCHANGED <<taskHistory, dryRunMode, approvals>>

FinishPlan ==
    /\ next = Len(plan.steps) + 1
    /\ LET ended == [plan EXCEPT !.status = IF plan.failed = 0 THEN "COMPLETED"
                                            ELSE "FAILED"]
       IN  /\ plan' = ended
           /\ taskHistory' = Append(taskHistory, ended)
    /\ counters' = IF plan.failed = 0
                   THEN [counters EXCEPT !.run = @ + 1, !.succeeded = @ + 1]
                   ELSE [counters EXCEPT !.run = @ + 1, !.failed = @ + 1]
    /\ next' = 0
    /\ UNCHANGED <<dryRunMode, approvals>>

\* Variant: an approved step that fails is counted as failed once more.
ApproveTwiceFailed(i) ==
    /\ next = 0 /\ approvals < MaxApprovals
    /\ i \in 1 .. Len(plan.steps) /\ plan.steps[i].status = "BLOCKED_SAFETY"
    /\ \/ plan' = [plan EXCEPT !.steps = Ended(i, "COMPLETED", TRUE),
                               !.completed = @ + 1, !.failed = @ - 1]
       \/ plan' = [plan EXCEPT !.steps = Ended(i, "FAILED", TRUE), !.failed = @ + 1]
    /\ approvals' = approvals + 1
    /\ UNCHANGED <<next, taskHistory, counters, dryRunMode>>

(* approveAndExecuteStep runs the step even in a dry run; neither the      *)
(* plan's status nor the copy in the history follows.                      *)
Approve(i) ==
    /\ next = 0 /\ approvals < MaxApprovals
    /\ i \in 1 .. Len(plan.steps) /\ plan.steps[i].status = "BLOCKED_SAFETY"
    /\ \/ plan' = [plan EXCEPT !.steps = Ended(i, "COMPLETED", TRUE),
                               !.completed = @ + 1, !.failed = @ - 1]
       \/ plan' = [plan EXCEPT !.steps = Ended(i, "FAILED", TRUE)]
    /\ approvals' = approvals + 1
    /\ UNCHANGED <<next, taskHistory, counters, dryRunMode>>

TaskNext ==
    \/ CreateFromTemplate
    \/ SetDryRun
    \/ ExecutePlan
    \/ RunStep
    \/ FinishPlan
    \/ \E i \in 1 .. Len(plan.steps) : Approve(i)

TaskSpec == TaskInit /\ [][TaskNext]_taskVars

-----------------------------------------------------------------------------
(* What a report of a plan may be trusted in, through repeated executions, *)
(* dry runs and approvals (task_automation.cpp:110-187, 296-315): the      *)
(* counts of the steps reached so far are those of their statuses, a dry   *)
(* run's apart; a plan reported completed has no step that failed or was   *)
(* held back; and the totals are those of the history.                     *)
Reached == IF next = 0 THEN DOMAIN plan.steps ELSE 1 .. next - 1
With(statuses) == {i \in Reached : plan.steps[i].status \in statuses}

Executed == next # 0 \/ plan.status \in {"COMPLETED", "FAILED"}

PlanCounted ==
    /\ Executed =>
          /\ plan.failed = Cardinality(With({"FAILED", "BLOCKED_SAFETY"}))
          /\ plan.completed =
                Cardinality({i \in With({"COMPLETED"}) : plan.steps[i].ran})
    /\ plan.status = "COMPLETED" =>
          \A i \in DOMAIN plan.steps : plan.steps[i].status = "COMPLETED"
    /\ counters.run = counters.succeeded + counters.failed
    /\ Len(taskHistory) = counters.run
    /\ Cardinality({k \in DOMAIN taskHistory : taskHistory[k].status = "COMPLETED"})
          = counters.succeeded
=============================================================================
