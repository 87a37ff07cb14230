------------------------------ MODULE GoalEngine ------------------------------
(***************************************************************************)
(* MKGoalEngine: goals, the actions they are broken into, and the lessons  *)
(* drawn from goals that end.  Goals are numbered from 1 in the order of   *)
(* their creation and never removed, so a goal's id is its position.       *)
(***************************************************************************)
EXTENDS Integers, Sequences, SequencesExt, FiniteSetsExt

CONSTANTS
    GoalPriorities, \* the priorities in use, among 1 .. 5
    MaxGoals,       \* bound on the goals created
    MaxActions,     \* bound on the actions of a goal
    MaxEnded        \* bound on how often a goal is completed or failed

ASSUME GoalAssumption == {MaxGoals, MaxActions, MaxEnded} \subseteq Nat

VARIABLES
    goals,          \* goals
    lessons,        \* lessons: the goal each is about and how it ended
    totals          \* total_completed and total_failed

goalVars == <<goals, lessons, totals>>

GoalStatuses == {"PENDING", "IN_PROGRESS", "COMPLETED", "FAILED"}

GoalInit ==
    /\ goals = <<>> /\ lessons = <<>>
    /\ totals = [COMPLETED |-> 0, FAILED |-> 0]

-----------------------------------------------------------------------------
(* progress is kept as the number of completed actions at the time it was  *)
(* last computed, out of how many.                                         *)
NewGoal(priority, deadline) ==
    [priority |-> priority, deadline |-> deadline, status |-> "PENDING",
     actions |-> <<>>, done |-> 0, outOf |-> 0, subGoals |-> {}]

(* selectNextGoal: the first goal of the best score among the active ones. *)
(* A deadline gives a bonus that depends on the hours left.                *)
Active == {g \in DOMAIN goals : goals[g].status \in {"PENDING", "IN_PROGRESS"}}

Bonuses == {bonus \in [DOMAIN goals -> {0, 100, 200}] :
               \A g \in DOMAIN goals : goals[g].deadline \/ bonus[g] = 0}

Score(g, bonus) == goals[g].priority * 100 + bonus[g]
                   + (IF goals[g].status = "IN_PROGRESS" THEN 50 ELSE 0)

Selected(bonus) ==
    {g \in Active : \A h \in Active :
        \/ Score(g, bonus) > Score(h, bonus)
        \/ Score(g, bonus) = Score(h, bonus) /\ g <= h}

CompletedIn(actions) == {i \in DOMAIN actions : actions[i] = "COMPLETED"}

(* The status a goal ends in is counted, and a lesson drawn from it. *)
Ends(g, status) ==
    /\ totals' = [totals EXCEPT ![status] = @ + 1]
    /\ lessons' = Append(lessons, [goal |-> g, lesson |-> status])

-----------------------------------------------------------------------------
CreateGoal(priority, deadline) ==
    /\ Len(goals) < MaxGoals
    /\ goals' = Append(goals, NewGoal(priority, deadline))
    /\ UNCHANGED <<lessons, totals>>

(* A sub-goal is a goal of medium priority, created before its parent is   *)
(* looked up: it may be its own.  A parent that is not there is passed     *)
(* over.                                                                   *)
AddSubGoal(parent) ==
    /\ Len(goals) < MaxGoals
    /\ LET grown == Append(goals, NewGoal(2, FALSE))
       IN  goals' = IF parent \in DOMAIN grown
                    THEN [grown EXCEPT ![parent].subGoals = @ \cup {Len(grown)}]
                    ELSE grown
    /\ UNCHANGED <<lessons, totals>>

(* Whatever the goal's status was, it is in progress now. *)
BreakIntoActions(g, n) ==
    /\ Len(goals[g].actions) + n <= MaxActions
    /\ goals' = [goals EXCEPT
                    ![g].actions = @ \o [i \in 1 .. n |-> "PENDING"],
                    ![g].status = "IN_PROGRESS"]
    /\ UNCHANGED <<lessons, totals>>

\* Variant: the goal is completed when as many actions are done as were
\* planned when progress was last computed.
CompleteStale(g, i) ==
    /\ i \in DOMAIN goals[g].actions
    /\ Len(lessons) < MaxEnded
    /\ LET actions == [goals[g].actions EXCEPT ![i] = "COMPLETED"]
           done    == Cardinality(CompletedIn(actions))
           all     == done >= goals[g].outOf /\ goals[g].outOf > 0
       IN  /\ goals' = [goals EXCEPT
                           ![g].actions = actions,
                           ![g].done = done,
                           ![g].outOf = Len(actions),
                           ![g].status = IF all THEN "COMPLETED" ELSE @]
           /\ IF all THEN Ends(g, "COMPLETED") ELSE UNCHANGED <<lessons, totals>>

CompleteAction(g, i) ==
    /\ i \in DOMAIN goals[g].actions
    /\ Len(lessons) < MaxEnded
    /\ LET actions == [goals[g].actions EXCEPT ![i] = "COMPLETED"]
           done    == Cardinality(CompletedIn(actions))
           all     == done = Len(actions)
       IN  /\ goals' = [goals EXCEPT
                           ![g].actions = actions,
                           ![g].done = done,
                           ![g].outOf = Len(actions),
                           ![g].status = IF all THEN "COMPLETED" ELSE @]
           /\ IF all THEN Ends(g, "COMPLETED") ELSE UNCHANGED <<lessons, totals>>

FailGoal(g) ==
    /\ Len(lessons) < MaxEnded
    /\ goals' = [goals EXCEPT ![g].status = "FAILED"]
    /\ Ends(g, "FAILED")

(* tick starts the first pending action of the selected goal, if it has    *)
(* one; the goal's own status stays.                                       *)
Tick ==
    /\ \E bonus \in Bonuses : \E g \in Selected(bonus) :
          LET pending == {i \in DOMAIN goals[g].actions :
                             goals[g].actions[i] = "PENDING"}
          IN  goals' = IF pending = {} THEN goals
                       ELSE [goals EXCEPT ![g].actions[Min(pending)] = "IN_PROGRESS"]
    /\ UNCHANGED <<lessons, totals>>

GoalNext ==
    \/ \E p \in GoalPriorities, d \in BOOLEAN : CreateGoal(p, d)
    \/ \E parent \in 1 .. MaxGoals : AddSubGoal(parent)
    \/ \E g \in DOMAIN goals :
          \/ \E n \in 0 .. MaxActions : BreakIntoActions(g, n)
          \/ \E i \in 1 .. MaxActions : CompleteAction(g, i)
          \/ FailGoal(g)
    \/ Tick

GoalSpec == GoalInit /\ [][GoalNext]_goalVars

-----------------------------------------------------------------------------
(* Goals are broken down again, failed after they were completed and       *)
(* completed after they failed (goal_engine.cpp:181-244).  Whatever the    *)
(* order: a goal reported completed has actions, every one completed, and  *)
(* shows full progress; the last lesson about a goal that has ended says   *)
(* how; and the totals the success rate is computed from are the numbers   *)
(* of lessons of each kind.                                                *)
LessonsOf(g) == {k \in DOMAIN lessons : lessons[k].goal = g}

GoalsAccounted ==
    /\ \A g \in DOMAIN goals :
          /\ goals[g].status = "COMPLETED" =>
                /\ goals[g].actions # <<>>
                /\ CompletedIn(goals[g].actions) = DOMAIN goals[g].actions
                /\ goals[g].done = goals[g].outOf
                /\ goals[g].outOf = Len(goals[g].actions)
          /\ goals[g].status \in {"COMPLETED", "FAILED"} =>
                /\ LessonsOf(g) # {}
                /\ lessons[Max(LessonsOf(g))].lesson = goals[g].status
    /\ \A s \in DOMAIN totals :
          totals[s] = Cardinality({k \in DOMAIN lessons : lessons[k].lesson = s})
=============================================================================
