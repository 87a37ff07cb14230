---------------------------- MODULE MCKnowledge ----------------------------
(***************************************************************************)
(* The learning engine, the knowledge gate over its graph, the merging of   *)
(* conversations between devices, the files of facts that programs share,   *)
(* the trading bot, automated tasks, the reminders, the goals and the       *)
(* service manager, which share no state: a behaviour works one of them,    *)
(* the focus, as in MCMessaging.  The claims offered to the gate contradict *)
(* each other or close a circle.                                            *)
(***************************************************************************)
EXTENDS MCLearningEngine, KnowledgeGate, MemorySync, KnowledgeFiles,
        TradingBot, TaskAutomation, Reminders, GoalEngine, ServiceManager

Claim(s, t) == [source |-> s, relation |-> "isa", target |-> t]

MCClaims       == {Claim("x", "hot"), Claim("x", "cold"), Claim("hot", "x")}
MCIncompatible == {{"hot", "cold"}}
MCDefaultTrust == [p \in Providers |-> IF p = "user" THEN 1000 ELSE 100]

MCTemplates == {<<"SAFE", "SAFE">>,
                <<"SAFE", "NEEDS_CONFIRMATION", "DANGEROUS">>}

(* 2 and 3 may wait for each other; 1 waits for both. *)
MCDependencySets == (1 :> {{2, 3}}) @@ (2 :> {{}, {3}}) @@ (3 :> {{}, {2}})

VARIABLE focus

knowledgeVars == <<focus, vars, gateVars, memoryVars, filesVars, botVars, taskVars,
                   reminderVars, goalVars, svcVars>>

KnowledgeInit ==
    /\ focus \in {"learning", "gate", "memory", "files", "bot", "tasks",
                  "reminders", "goals", "services"}
    /\ Init /\ GateInit /\ MemoryInit /\ FilesInit /\ BotInit /\ TaskInit
    /\ ReminderInit /\ GoalInit /\ SvcInit

Rest(part) ==
    /\ UNCHANGED focus
    /\ part = "learning" \/ UNCHANGED vars
    /\ part = "gate"     \/ UNCHANGED gateVars
    /\ part = "memory"   \/ UNCHANGED memoryVars
    /\ part = "files"    \/ UNCHANGED filesVars
    /\ part = "bot"      \/ UNCHANGED botVars
    /\ part = "tasks"    \/ UNCHANGED taskVars
    /\ part = "reminders" \/ UNCHANGED reminderVars
    /\ part = "goals"    \/ UNCHANGED goalVars
    /\ part = "services" \/ UNCHANGED svcVars

KnowledgeNext ==
    \/ focus = "learning" /\ Next       /\ Rest("learning")
    \/ focus = "gate"     /\ GateNext   /\ Rest("gate")
    \/ focus = "memory"   /\ MemoryNext /\ Rest("memory")
    \/ focus = "files"    /\ FilesNext  /\ Rest("files")
    \/ focus = "bot"      /\ BotNext    /\ Rest("bot")
    \/ focus = "tasks"    /\ TaskNext   /\ Rest("tasks")
    \/ focus = "reminders" /\ ReminderNext /\ Rest("reminders")
    \/ focus = "goals"    /\ GoalNext   /\ Rest("goals")
    \/ focus = "services" /\ SvcNext    /\ Rest("services")

KnowledgeSpec == KnowledgeInit /\ [][KnowledgeNext]_knowledgeVars
=============================================================================
