------------------------------- MODULE ToolLoop -------------------------------
(***************************************************************************)
(* One turn of MKOrchestrator::respond: the model's answer is searched for *)
(* a tool call, the call is executed, and the model is asked again with    *)
(* the result, at most MaxToolCalls times.                                 *)
(*                                                                         *)
(* A text is a sequence of pieces: a tool call in JSON, or a word for any  *)
(* other stretch of text.  What the tools do to the paper wallet and the   *)
(* learned facts is PaperTrading's and LearningEngine's; here a tool has   *)
(* an effect or not.                                                       *)
(***************************************************************************)
EXTENDS Integers, Sequences, SequencesExt, Lists

CONSTANTS
    Answers,        \* what the model may write, as texts
    Outputs,        \* what a command may print or a file hold, after capOutput
    Registered,     \* the devices of the registry
    Writable,       \* the paths write_file may open
    Dangerous,      \* the commands isDangerous refuses
    MaxToolCalls,   \* MK_TOOL_MAX_CALLS_PER_TURN
    FactLists       \* what the graph and the learning engine may offer

VARIABLES
    stage,          \* "idle", "looping", "synthesizing", "stopping" or "delivered"
    facts,          \* relevantFacts
    reply,          \* response
    used,           \* toolCallCount
    toolRuns        \* the tools run in this turn, with what became of each

toolVars == <<stage, facts, reply, used, toolRuns>>

-----------------------------------------------------------------------------
(* Texts and the calls in them. *)

IsCall(piece) == DOMAIN piece = {"tool", "args"}
IsWord(piece) == DOMAIN piece = {"word"}
Text(word)    == <<[word |-> word]>>

Pieces == UNION {Range(text) : text \in Answers \cup Outputs}

ASSUME ToolAssumption ==
    /\ MaxToolCalls \in Nat
    /\ Answers \cup Outputs \subseteq Seq(Pieces)
    /\ \A piece \in Pieces : IsCall(piece) \/ IsWord(piece)
    /\ FactLists \subseteq Seq(UNION {Range(list) : list \in FactLists})

ToolNames == {"ssh_exec", "docker_cmd", "local_shell", "read_file", "write_file",
              "web_search", "system_info", "device_list", "learn_fact",
              "paper_trade"}

(* parseToolCall looks at the first call only, and refuses unknown tools.  *)
CallsAt(text) ==
    LET marks == {i \in 1 .. Len(text) : IsCall(text[i])}
    IN  {i \in marks : /\ \A j \in marks : i <= j
                       /\ text[i].tool \in ToolNames}

Arg(call, key) == IF key \in DOMAIN call.args THEN call.args[key] ELSE ""
Missing(call, keys) == \E key \in keys : Arg(call, key) = ""

-----------------------------------------------------------------------------
(* The handlers of MKToolExecutor, each as the outcomes it may have: the   *)
(* text it returns, empty if the tool printed nothing, and whether it      *)
(* changed anything.                                                       *)

Outcome(text, effect) == [text |-> text, effect |-> effect]

Refusal  == {Outcome(Text("error"), FALSE)}
Report   == {Outcome(Text("report"), FALSE)}
Read     == {Outcome(t, FALSE) : t \in Outputs \cup {<<>>}} \cup Refusal
Command  == {Outcome(t, TRUE) : t \in Outputs \cup {<<>>}} \cup
            {Outcome(Text("error"), b) : b \in BOOLEAN}
Change   == {Outcome(Text("report"), TRUE)}

SSHExec(call) ==
    IF Missing(call, {"device", "command"}) \/ Arg(call, "device") \notin Registered
    THEN Refusal ELSE Command

DockerCmd(call) ==
    IF \/ Missing(call, {"device", "action"})
       \/ Arg(call, "device") \notin Registered
       \/ Arg(call, "action") \notin {"list", "start", "stop", "logs"}
       \/ Arg(call, "action") # "list" /\ Missing(call, {"container"})
    THEN Refusal ELSE Command

LocalShell(call) ==
    IF Missing(call, {"command"}) \/ Arg(call, "command") \in Dangerous
    THEN Refusal ELSE Command

ReadFile(call) == IF Missing(call, {"path"}) THEN Refusal ELSE Read

WriteText(call) ==
    IF Missing(call, {"path", "content"}) \/ Arg(call, "path") \notin Writable
    THEN Refusal ELSE Refusal \cup Change

WebSearch(call) == IF Missing(call, {"query"}) THEN Refusal ELSE Refusal \cup Report

LearnFact(call) ==
    IF Missing(call, {"subject", "relation", "object"}) THEN Refusal ELSE Change

(* A sale without an amount sells everything. *)
PaperTrade(call) ==
    LET action == Arg(call, "action")
        amount == Arg(call, "amount")
    IN  CASE action \in {"portfolio", "history", "stats"} -> Report
          [] action = "buy" ->
                IF Missing(call, {"symbol"}) \/ amount \in {"", "0", "junk"}
                THEN Refusal ELSE Refusal \cup Change
          [] action = "sell" ->
                IF Missing(call, {"symbol"}) \/ amount = "junk"
                THEN Refusal ELSE Refusal \cup Change
          [] OTHER -> Refusal

Execute(call) ==
    CASE call.tool = "ssh_exec"    -> SSHExec(call)
      [] call.tool = "docker_cmd"  -> DockerCmd(call)
      [] call.tool = "local_shell" -> LocalShell(call)
      [] call.tool = "read_file"   -> ReadFile(call)
      [] call.tool = "write_file"  -> WriteText(call)
      [] call.tool = "web_search"  -> WebSearch(call)
      [] call.tool = "system_info" -> Refusal \cup Report
      [] call.tool = "device_list" -> Report
      [] call.tool = "learn_fact"  -> LearnFact(call)
      [] call.tool = "paper_trade" -> PaperTrade(call)

-----------------------------------------------------------------------------
(* What the model's answer becomes: sanitizeLLMResponse drops lines that   *)
(* repeat the prompt, or all of it; no model configured, or every provider *)
(* failing, gives the empty text.                                          *)

Sanitized(text) == {Picked(text, I) : I \in SUBSET DOMAIN text}

Generated == {<<>>} \cup UNION {Sanitized(text) : text \in Answers}

(* Personal facts that are not yet in the list go to its front, one by one. *)
Unlisted(relevant, personal) ==
    {i \in DOMAIN personal :
        personal[i] \notin Range(relevant) \cup {personal[j] : j \in 1 .. i - 1}}

Gathered(relevant, personal) ==
    Reverse(Picked(personal, Unlisted(relevant, personal))) \o relevant

(* What the program says when the model says nothing, in pieces of its own.  *)
Notice(text) == [notice |-> text]
Fallback     == IF facts = <<>> THEN <<Notice("unreachable")>>
                ELSE [i \in 1 .. (IF Len(facts) < 3 THEN Len(facts) ELSE 3) |->
                         Notice(facts[i])]

-----------------------------------------------------------------------------
ToolInit == stage = "idle" /\ facts = <<>> /\ reply = <<>> /\ used = 0 /\ toolRuns = <<>>

(* respond, up to the first answer of the model.  Nothing of a turn is kept *)
(* for the next one.                                                       *)
Ask ==
    /\ stage \in {"idle", "delivered"}
    /\ \E relevant, personal \in FactLists : facts' = Gathered(relevant, personal)
    /\ reply' \in Generated
    /\ stage' = "looping" /\ used' = 0 /\ toolRuns' = <<>>

Run(call, outcome) ==
    [call |-> call, text |-> outcome.text, effect |-> outcome.effect, told |-> FALSE]

\* Variant: the loop is not left when a tool says nothing.
SilentGoesOn ==
    /\ stage = "looping" /\ used < MaxToolCalls
    /\ \E i \in CallsAt(reply) : \E outcome \in Execute(reply[i]) :
          /\ toolRuns' = Append(toolRuns, Run(reply[i], outcome))
          /\ stage' = IF outcome.text = <<>> THEN "looping" ELSE "synthesizing"
    /\ UNCHANGED <<facts, reply, used>>

(* A tool that says nothing ends the loop, uncounted. *)
RunTool ==
    /\ stage = "looping" /\ used < MaxToolCalls
    /\ \E i \in CallsAt(reply) : \E outcome \in Execute(reply[i]) :
          /\ toolRuns' = Append(toolRuns, Run(reply[i], outcome))
          /\ stage' = IF outcome.text = <<>> THEN "stopping" ELSE "synthesizing"
    /\ UNCHANGED <<facts, reply, used>>

(* synthesizeWithToolResult: without an answer, the call is cut out of the *)
(* text and the result put after what is left.                             *)
Spliced == LET i == CHOOSE i \in CallsAt(reply) : TRUE
           IN  RemoveAt(reply, i) \o Last(toolRuns).text

Synthesize ==
    /\ stage = "synthesizing"
    /\ \E answer \in Generated :
          /\ reply' = IF answer = <<>> THEN Spliced ELSE answer
          /\ toolRuns' = [toolRuns EXCEPT ![Len(toolRuns)].told = answer # <<>>]
    /\ used' = used + 1
    /\ stage' = "looping"
    /\ UNCHANGED facts

Deliver ==
    /\ \/ stage = "stopping"
       \/ stage = "looping" /\ (used = MaxToolCalls \/ CallsAt(reply) = {})
    /\ reply' = IF reply = <<>> THEN Fallback ELSE reply
    /\ stage' = "delivered"
    /\ UNCHANGED <<facts, used, toolRuns>>

ToolNext == Ask \/ RunTool \/ Synthesize \/ Deliver

ToolSpec == ToolInit /\ [][ToolNext]_toolVars

-----------------------------------------------------------------------------
(* What a turn owes the user when its reply is delivered                   *)
(* (conversation_loop.cpp:103-133):                                        *)
(* - a reply that still holds a call it could have run has used up its     *)
(*   calls, or the tool it just ran said nothing;                          *)
(* - nobody is told that the model is out of reach, or given a list of     *)
(*   facts instead, after a tool has been run;                             *)
(* - whatever a tool said is in the reply, was itself a call that has been *)
(*   run, or had the model write an answer, to it or to a later result.    *)
Delivered == stage = "delivered"

RanLater(i, piece) == \E j \in i + 1 .. Len(toolRuns) : toolRuns[j].call = piece

TurnAccounted ==
    Delivered =>
        /\ CallsAt(reply) # {} => used = MaxToolCalls \/ Last(toolRuns).text = <<>>
        /\ reply = Fallback => toolRuns = <<>>
        /\ \A i \in 1 .. Len(toolRuns) : \A k \in 1 .. Len(toolRuns[i].text) :
              \/ \E j \in i .. Len(toolRuns) : toolRuns[j].told
              \/ Contains(reply, toolRuns[i].text[k])
              \/ IsCall(toolRuns[i].text[k]) /\ RanLater(i, toolRuns[i].text[k])
        /\ Len(toolRuns) <= MaxToolCalls
=============================================================================
