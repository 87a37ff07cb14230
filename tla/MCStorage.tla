------------------------------ MODULE MCStorage ------------------------------
(***************************************************************************)
(* The assistant saving and loading its memory, the tools a turn runs, the *)
(* snapshots, the scheduler of tokens, the file system, the weight pager,  *)
(* the encrypted shards, the vector index, the demonstration kernel and    *)
(* paper trading, which share no state: a behaviour works one of them, the *)
(* focus, as in MCMessaging.                                               *)
(***************************************************************************)
EXTENDS Assistant, ToolLoop, CowSnapshots, TokenScheduler, FileSystem, WeightPager,
        EncryptedShards, VectorSearch, DemoKernel, PaperTrading

Call(t, a) == [tool |-> t, args |-> a]
Shell      == Call("local_shell", [command |-> "ls"])

(* Calls whose tools may be silent, fail, change something or not exist. *)
MCCalls == {Shell,
            Call("paper_trade", [action |-> "buy", symbol |-> "doge", amount |-> "5"]),
            Call("time_travel", [year |-> "1"])}

MCAnswers   == {Text("prose") \o <<c>> : c \in MCCalls} \cup {<<c, Shell>> : c \in MCCalls}
MCOutputs   == {Text("output"), <<Call("read_file", [path |-> "p"])>>}
MCFactLists == {<<>>, <<"f">>, <<"g", "f">>}

(* The timer's 10, 10, 100 and 50 ticks: none is shorter than it is there   *)
(* compared with another.                                                   *)
MCInterval  == [sched_tick |-> 2, proc_tick |-> 2, disk_flush |-> 3, reap_zombies |-> 2]
MCBootTasks == {[name |-> "ai_core_boot",  priority |-> 0,   left |-> 2],
                [name |-> "plugin_loader", priority |-> Low, left |-> 1]}

VARIABLE focus

storageVars == <<focus, vars, toolVars, cowVars, tokVars, fsVars, pagerVars,
                 shardVars, vectorVars, kernelVars, paperVars>>

StorageInit ==
    /\ focus \in {"assistant", "tools", "snapshots", "tokens", "files", "weights",
                  "shards", "vectors", "kernel", "paper"}
    /\ Init /\ ToolInit /\ CowInit /\ TokInit /\ FsInit /\ PagerInit
    /\ ShardsInit /\ VectorInit /\ KernelInit /\ PaperInit
    \* the first saves are of either coin: one is enough
    /\ coin = CHOOSE c \in Coins : TRUE

Rest(part) ==
    /\ UNCHANGED focus
    /\ part = "assistant" \/ UNCHANGED vars
    /\ part = "tools"     \/ UNCHANGED toolVars
    /\ part = "snapshots" \/ UNCHANGED cowVars
    /\ part = "tokens"    \/ UNCHANGED tokVars
    /\ part = "files"     \/ UNCHANGED fsVars
    /\ part = "weights"   \/ UNCHANGED pagerVars
    /\ part = "shards"    \/ UNCHANGED shardVars
    /\ part = "vectors"   \/ UNCHANGED vectorVars
    /\ part = "kernel"    \/ UNCHANGED kernelVars
    /\ part = "paper"     \/ UNCHANGED paperVars

StorageNext ==
    \/ focus = "assistant" /\ Next         /\ Rest("assistant")
    \/ focus = "tools"     /\ ToolNext     /\ Rest("tools")
    \/ focus = "snapshots" /\ CowNext      /\ Rest("snapshots")
    \/ focus = "tokens"    /\ TokNext      /\ Rest("tokens")
    \/ focus = "files"     /\ FsNext       /\ Rest("files")
    \/ focus = "weights"   /\ PagerNext    /\ Rest("weights")
    \/ focus = "shards"    /\ ShardsNext   /\ Rest("shards")
    \/ focus = "vectors"   /\ VectorNext   /\ Rest("vectors")
    \/ focus = "kernel"    /\ KernelNext   /\ Rest("kernel")
    \/ focus = "paper"     /\ PaperNext    /\ Rest("paper")

StorageSpec == StorageInit /\ [][StorageNext]_storageVars
=============================================================================
