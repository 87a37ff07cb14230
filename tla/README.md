# MK OS: specifications and proofs

TLA+ models of the stateful core of MK OS, the TLC runs that check them on small
instances, and TLAPS proofs of the properties that matter most for every value of
the constants. Source paths below are relative to `src/MK_OS/`.

## 1. The system

`mk_os` is one process (`system/mk_entry.cpp`). `main()` builds the modules, loads what
is on disk, starts a Telegram polling thread if a token is configured, and runs a
terminal loop until `/quit`, a signal or end of input; then it joins the thread and saves.

| component | state | operations | talks to |
|---|---|---|---|
| REPL thread (`system/mk_entry.cpp`) | `g_running`, interaction count | read a line, run a command, answer a query, track, auto-save, shut down | everything, under `systemMutex` |
| Telegram poller (`system/mk_entry.cpp`, `plugins/telegram.cpp`) | `lastUpdateId` | poll, parse, handle, sleep | Telegram server (offset protocol), orchestrator, under `systemMutex` |
| persistent memory (`ai_core/persistent_memory.cpp`) | interactions, `mk_memory.dat` | record, prune, save, load | REPL thread |
| conversation window (`mk_brain/memory/brain_memory.cpp`) | window of turns, SQLite archive | commit, archive | both threads |
| learning engine (`mk_brain/learning/learning_engine.cpp`) | facts, subject index, `mk_knowledge_graph.dat` | learn, correct, forget, query, persist, restore | commands, tools, biographical extractor |
| paper trading (`crypto/paper_trading.cpp`) | wallet, trades, three SQLite tables | buy, sell, load | tool executor, Telegram `/paper` |
| orchestrator and tools (`orchestrator/`) | none of their own | respond, run up to three tools | LLM clients, learning engine, paper trading |
| provider routing (`llm/cloud_llm.cpp`, `provider_router.cpp`) | two tables of providers: keys, fail counts, where to search next; keys, status, daily quotas | call, pick, log, `/setkey`, `/setmodel` | LLM services, both threads, encrypted key file |
| trading bot (`crypto/trading_bot.cpp`, `risk_manager.cpp`, `portfolio_manager.cpp`) | paper balances, holdings with a last value, pauses, stop-losses, savings schedules, a database | scan cycle, orders in three modes, resume, restart | exchange, market data |
| service manager (`system/service_manager.cpp`) | services, dependencies, statuses | register, start, stop, restart, crash, start all | registered by `main()` |
| pattern graph (`ai_core/hre/pattern_graph.cpp`) | edges, index, cache of answers, two files | add, remove, query, dump, load | brain's statements, corrections, nightly growth |
| knowledge gate (`ai_core/hre/knowledge_gate.cpp`) | facts held back, trust in sources, two files | validate, promote, report a bad answer, load | the graph it judges against |
| reminders (`system/task_scheduler.cpp`) | reminders, one file | add, hand out, remove, load | REPL thread |
| goals (`mind/goal_engine.cpp`) | goals with actions and progress, lessons, totals | create, break down, complete, fail, tick | commands |
| automated tasks (`ai_core/task_automation.cpp`) | plans with the status of each step, history, totals | plan, execute, dry run, approve | shell commands |
| home lab (`homelab/service_orchestrator.cpp`) | services with misses and restarts, history of moves | check, restart, move, confirm | the caller that runs the commands |
| sync (`sync/knowledge_sync.cpp`, `memory_sync.cpp`) | queue of facts, accepted versions; turns per user | queue, send, receive, merge | other devices |
| weight pager (`ai_core/weight_pager.cpp`) | layers in slots, least recently used order, prefetch queue | access, pin, hint, prefetch | files of weights |
| shared fact files (`tools/knowledge_sync.cpp`, `telegram_bridge.cpp`, `system/auto_maintenance.cpp`) | `learned_facts.mk` on each device, its copy in a repository | append, push, pull, merge, automatic synchronisation, removal of doubles and of broken lines | several programs and devices, with nothing between them |
| encrypted shards (`security/encrypted_shards.cpp`) | shards in memory and on file, key, lock | unlock, lock, create, read, delete | callers in one thread, files of earlier processes |
| vector search (`mk_brain/vector_search/ann_search.cpp`) | index of embeddings, clusters, one file | add, build, search, save, load | the brain |
| memory and tokens (`memory_mgmt/cow_snapshots.cpp`, `scheduler/token_scheduler.cpp`) | pages with reference counts; a queue of tasks | write, snapshot, roll back; submit, run, burst | callers in one thread |
| kernel (`Kernel/`) | ring buffer, file tree, sockets and pool, users and escalations, process table, boot tasks, timer, block cache | per part | a separate demonstration program |

`PROJECT.json` lists every part with its status, including those that are not modelled.

### What is hard here

* **Two threads, one mutex.** The lock is given up between answering a query and tracking
  it, between two messages of one Telegram reply, and is not taken at all by the final save.
* **Delivery.** `lastUpdateId` is advanced before a message is handled, lives in memory
  only, and confirms messages to the server by the next poll. Replies may be lost on the
  way out or on the way back, and the process may die anywhere.
* **Files rewritten in place.** `mk_memory.dat` and `mk_knowledge_graph.dat` are truncated
  and written again; a crash in between leaves a prefix, or a line cut short.
* **Write-through without transactions.** A paper trade is three SQLite statements whose
  errors are ignored.
* **Ids used as positions.** `MKLearningEngine` indexes its vector by fact id.
* **Two tables of providers.** `MKCloudLLM` calls the providers and `MKProviderRouter`
  picks and counts them; each keeps its own keys and failures, filled by `main()`. Whether a
  call succeeds is the network's choice, and midnight may pass inside a message.
* **Two books of one account.** The trading bot tells each trade to its paper balances and to
  the portfolio, which cut amounts down differently, and only one of the two is restored.
* **Counts kept beside what they count.** Reference counts of pages, the space in use of the
  file system, the map from layers to slots, the flag of a pooled connection.
* **Positions read by two sides.** Producer and consumer of the ring each act on an old value
  of the other's position.
* **Caches.** Answers of the graph are cached while five writers change it.
* **Files with several writers.** Appending, tidying and synchronising programs read and
  rewrite `learned_facts.mk` with nothing between them.
* **Names that outlive what they name.** Numbers of shards begin again over the files of the
  process before; a user that is deleted leaves escalations to the next of that name.
* **Other devices.** Facts and conversations arrive late, repeated, out of order or never.
* **A model that calls tools.** The answer of a language model may hold any call, any number of
  times; tools fail or say nothing, and the second answer may be missing.
* **Reports beside what happened.** Goals and plans keep statuses, progress, counts and a
  history of the same events, and may be failed, repeated or approved after they ended.
* **Commands somebody else runs.** The home lab asks for restarts and moves, and hears of them
  late, twice or never.
* **Leaving.** There are three ways out of the REPL loop; two of them clear `g_running`.

### What makes each part correct

* Poller: the server forgets a message only after it was handled; no message is handled
  twice in one start; messages are handled in order; every message is handled in the end.
* Threads: shared modules are never used by both threads at once; turns of the two do not
  mix inside an exchange; shutdown ends.
* Persistent memory: what is only in memory is bounded by the auto-save interval.
* Learning engine: ids identify facts, the index holds exactly each subject's ids, a
  forgotten id is not reused, queries are about their subject.
* Provider routing: every usable provider gets its turn before a call gives up, none gets a
  second turn before the others had theirs, quotas hold, the two tables agree, every message
  is answered.
* Paper trading: the balance never falls below zero, tables follow memory, a restart keeps
  the trades, wallet and trade history agree up to torn or failed saves.
* Trading bot: what the portfolio holds follows from the orders; it pauses for losses only.
* Services: starting all starts everything that can run, and only a circle is refused.
* Ring: a bounded queue. Snapshots: never changed by later writes, no page leaked or freed
  early. Token scheduler: no task lost or run twice. File system: the space in use never
  falls below what the files take. Weight pager: a layer is read only where it is loaded.
  Network: a connection has one user.
* Graph: cached answers miss nothing, and what it holds comes back after a restart. Gate: what
  is held back is exactly what its file holds. Sync: no device falls behind what it has seen.
* A turn: the reply never hides work that was done, nor shows a call that should have been run.
* Goals and plans: statuses, counts, lessons and history tell one story.
* Home lab: a service moves only when its restarts are used up.
* Fact files: what disappears was overwritten by a download or tidied away. Shards: what went
  into a file reads as what it was created with, or as nothing. Vector search: clusters that
  are trusted cover the index. Kernel: zombies and dirty blocks do not wait longer than their
  timer's interval. Permissions: more than one's level only by way of a trusted name.
* Reminders: each is handed out once per time it is due, restarts included.

## 2. Plan

Done: `Assistant` with the abstract `Mailbox`, `LearningEngine`, `PaperTrading`, `LLMRouting`
and `RingBuffer` with the abstract `Channel`, each with its proofs; `Permissions`,
`DemoKernel`, `TokenScheduler`, `NetworkStack`, `EncryptedShards`, `VectorSearch`,
`KnowledgeSync`, `CowSnapshots`, `WeightPager` and `ToolLoop`, proved about in
`PlatformProofs`; `Homelab`, `TaskAutomation`, `GoalEngine`, `TradingBot`, `KnowledgeGate`,
`PatternGraph`, `KnowledgeFiles`, `Reminders`, `MemorySync`, `ServiceManager` and
`FileSystem`, proved about in `ServiceProofs`. Every safety property that a run checks has a
theorem.

Next:

1. The pager and the drivers of the demonstration kernel, the caches of the reasoning engine,
   the updater, and the bodies of the commands that `Assistant` takes as one step.
2. Abstract specifications of more components (of the wallet with its database, of the gate
   with its file) and proofs that they are implemented, as `Mailbox` and `Channel` are.
3. What the inductive invariants of section 5 say beyond the properties, as properties of runs.

## 3. The modules

### Assistant

The REPL thread and the poller are two program counters over shared state.

| model | code |
|---|---|
| `mainPc`, `MainStep` | the loop of `main()`, `mk_entry.cpp:1802-2240`; a value of `mainPc` is a place where the other thread can run |
| `pollPc`, `PollStep` | `telegram_poll_loop`, `mk_entry.cpp:1173-1446` |
| `mutex`, `Acquire`, `Release` | `systemMutex` and its `lock_guard` scopes |
| `shortTerm`, `Commit` | `shortTermContext`, `commitToShortTerm` with `archiveToLongTerm` |
| `memory`, `disk`, `Record`, `MainOpen`, `MainClose` | `MKPersistentMemory`: `recordInteraction`, `saveToDisk` split at the point where the file is truncated |
| `updates`, `confirmed`, `FetchDelivered`, `FetchLost` | the Telegram server: what users sent, the lowest id it still holds; an offset confirms all lower ids |
| `lastUpdateId`, `next`, `last`, `PollParse` | the offset, and the reply being parsed |
| `Crash`, `Boot` | the process dies between any two steps; `main()` starts again from disk |
| `handled`, `done` | history variables |

A line typed at the terminal is one of six kinds: `query`, `math`, `command` (runs under
the lock), `local` (`/clear`, `/help`, `/apikey`, which take no lock), `quit`, `empty`. A
Telegram update is `chat`, `command` or `nontext`. Interactions and turns are named by the
number of the line or update they come from.

Abstracted: the text of messages; the bodies of the commands that run under the lock;
SQLite archiving of evicted turns; update ids are consecutive (the server's are ascending,
and only their order matters); a message is handled when its handler returns (whether
`sendMessage` reached the user is not looked at by the code).

### Mailbox

What the channel promises without threads, offsets or lost replies: messages wait until they
are forgotten, only delivered ones are forgotten, a session takes every kept message in order
and once, a new session starts with the oldest one kept. `IsMailbox` in `Assistant` maps the
program to it: `sent` is the number of `updates`, `kept` is `confirmed`, `delivered` is
`done`, and `position` is the update being handled or, between two, the one after
`lastUpdateId` (where the updates without text that were skipped are counted as delivered).
A `Deliver` is the step in which a handler returns; a `Forget` is a poll that reaches the
server; a `NewSession` is a boot.

### LearningEngine

`facts` is `knowledgeGraph`, `index` is `subjectIndex`, `file` is `mk_knowledge_graph.dat`.
A fact's id is a natural number; `Slot(id)` is `knowledgeGraph[id]`, the read by position.
`LearnNew`, `Reinforce` and `Override` are the three ways `learnFact` changes something; a
conflicting statement changes nothing. A read past the end finds nothing in the model: in
the program it is undefined, and may also end the process, which `Crash` allows at any time.
`Restored` is what the unescaped `|` format does to an object that contains the separator;
`Cut` is what a line torn by a crash may come back as. Not modelled: a line cut inside its
id, separators in subjects and predicates, and texts with line breaks. `MCLearningEngine`
gives the objects of the runs: `"tea"` and `"tea|sugar"`, the second of which is read back as
the first.

### PaperTrading

`cash`, `holdings` and `trades` are the wallet in memory; `dbCash`, `dbHoldings` and
`dbTrades` the three tables. A trade is one step (`Buy`, `Sell`), because callers hold
`systemMutex`, followed by its three saves (`SaveBalance`, `SaveHolding`, `SaveTrade`), any
of which may fail, with a `Stop` possible between them. Prices, slippage and fees decide
only which quantity or proceeds a trade has and are chosen from bounded sets. `Stored` is
the rounding of `std::to_string`. Average costs are left out, because only reports read
them, and `avgCosts_` has exactly the coins that are held. Reads of the database succeed.

### LLMRouting

| model | code |
|---|---|
| `apiKey`, `failCount`, `activeProvider` | `MKCloudLLM`: each provider's `apiKey` and `failCount`, `activeProvider_` |
| `routerKey`, `status`, `routerFails`, `usedQuota`, `currentDay`, `totalRequests` | `MKProviderRouter`: `providers_`, its quota of the day and `totalRequests_` |
| `pc`, `picked`, `calls`, `attempts` | one message: the provider the poller picked, the calls of `generate()` it has led to, the pass of the loop in `generate()` |
| `due`, `tried` | history: the providers usable when the call began, and those it has been made to |
| `encrypted` | the encrypted key file |
| `TelegramMessage`, `Reply` | `pickProvider` before `respond()` and `logRequest` after it, in the poller |
| `TerminalMessage` | a line at the terminal, `/search` or `/think`: `generate()` without the router |
| `StartCall`, `TryProvider`, `GiveUp` | `generate()`: entry, one pass of the loop with the outcome of the network call, exit with no provider left |
| `SetKey`, `SetModel` | `/setkey` with the test it makes, `/setmodel` |
| `Midnight`, `Restart` | the date changes; the process ends and starts again with whatever keys the environment has |

Messages and commands hold `systemMutex` (section `Assistant`), so one of them is in progress
at a time. Abstracted: the scores (any candidate may be picked), model slugs, latencies, the
request log. The encrypted file is written and read without error. Not modelled because only
tests call them: `resetFailCounts` of both classes and `getFallbackChain`.

### TradingBot

A scan takes the coins of the watchlist one at a time (`todo`), because prices come from the
network between them: `ScanBegin` is the pause check of `runScanCycle`, `Analyse` one coin,
`Saving` the schedules due at its end. `held` and `value` are `amount` and `currentValue` of a
holding, `paperHeld` and `botCash` the paper account, `restored` and `liveNet` history. Order
sizes, prices and signals are chosen from small sets; quantities are whole. Trades cost nothing.

### RingBuffer and Channel

`writer` and `reader` say where the two threads are; a load of the other side's position, the
access to a slot and the store of the own position are steps of their own. Release and acquire
order them, so the model is sequentially consistent in that order. `Channel` is a queue of
`Capacity - 1` messages; `IsChannel` maps the slots between the positions to it.

### KnowledgeSync and MemorySync

Several devices with the queues and merges of the code and a network that keeps, repeats or
never delivers what was sent. `heard` and `said` are history: what a device has seen.

### PatternGraph and KnowledgeGate

The graph is its edges, its index by source and relation, and the cache (`lru`), with the two
files it is loaded from. The gate extends it: the five gates of `validate` decide, in the
code's order, from the graph, the trust in the source and how many sources agree.

### ToolLoop, GoalEngine, TaskAutomation and Homelab

`ToolLoop` is one turn of `MKOrchestrator::respond`: `stage` says where it is, `reply` is the
text so far as a sequence of pieces, `toolRuns` (history) the calls run in this turn with what
they said and whether the model was told. Each handler of `MKToolExecutor` is the set of
outcomes it may have. `GoalEngine`, `TaskAutomation` and `Homelab` have one action per method;
in `TaskAutomation` a step of a plan is a step of its own (`HoldBack`, `PretendStep`,
`ExecuteStep`), because its command may take long and its outcome is open.

### KnowledgeFiles

`factsFile` is `learned_facts.mk` per device, `remote` the copy in the repository, `sync` and
`tidy` where `mk_sync` and the maintenance are on each device: both read the file, work on what
they read and write it later. A rewrite is two steps, as it is in the code: an `ofstream` that
empties the file (`OpenLocalFile`, `OpenRewrite`) and lines written from its start, over what
others have appended since (`WriteLocalFile`, `WriteBack`, `Over`). Both programs may be stopped
at any step (`Killed`, `TidyEnds`); a stop or a failed write while the file is open leaves some of
the lines, the last of them cut or not (`Torn`), and the next line appended may be swallowed by a
cut one (`Appended`). `Decoded` is what the base64 decoding of the code makes of a text that
GitHub has broken into lines: the lines of `Misread` may come back as `Noise`, as a cut line
does. `Broken` are the facts that `/learn` or `pushFact` wrote with a `|` or a blank field in
them: `is_valid_knowledge_line` refuses them, and `Verify` removes them with the noise. What a
file `Present`s to its readers counts a rewrite that is under way as done, so that the moment in
which it is empty is not a loss; whether the rewrite is finished is for the next step to say.
A cut line that still has a `|` in it, and would be read as another fact, is `Noise` here.

### DemoKernel and Permissions

`DemoKernel` is the program that `Kernel/kernel_main.cpp` builds: phases of the boot, the queue
of boot tasks, the process table, the block cache and the timer (`countdown`), whose ticks come
from the shell alone. `deadFor` and `dirtyFor` are history: how many ticks a zombie or a dirty
block has waited. In `Permissions`, `users`, `tokens` (escalations) and `otherFlags` are kept by
name as in the code; `trusted` and `given` are history.

### EncryptedShards and VectorSearch

A shard is its data in memory and its file, written under the key of the moment; `Garbled` is
what a wrong key makes of a text. Files of earlier processes are there at the start, and writes
may fail. The clusters of `VectorSearch` hold places in `index`; which cluster an embedding
falls into is left open, equal embeddings falling into the same.

### The other components

`ServiceManager`, `CowSnapshots`, `TokenScheduler`, `FileSystem`, `NetworkStack`,
`WeightPager` and `Reminders` are classes used from one thread: one action per method, with
the failures its environment may cause (a file that cannot be read or written, a connection
that is refused). Their headers say what is left out.

### Lists

`Picked` takes some elements of a list in their order, by the places that stay; `Ascending` is a
set of numbers in order; `AddedUp` is a sum. The modules use them, and loops written as recursive
functions, where a fold or a filter of the community modules would hide from the prover what it
does. For the same reason the file system and the snapshots count their space as the number of
units in a set (`Space`, `Bytes`).

### Composition

Components that share no state are checked together: `MCMessaging`, `MCStorage` and `MCKnowledge`
extend several modules and a variable `focus` chosen at the start says which
of them moves. As none reads what another writes, interleaving them would reach no new state of
any component; the sum of their state spaces is searched instead of the product.

## 4. Runs

| run | module, cfg | question | bounds |
|---|---|---|---|
| `assistant` | `Assistant`, `Assistant.cfg` | is every message handled, once per start, in order, with the threads kept apart? is it a `Mailbox`? does shutdown end, is every message handled in the end? | 2 updates, batches of 2, 1 line, 2 starts, 1 failing save |
| `messaging` | `MCMessaging`, `Messaging.cfg` | is the ring a `Channel`, has each connection one user, do devices keep the best version, are cached answers complete, do services of the home lab move only after their restarts, who gets more than its level? | ring of 3 slots, 5 messages; 2 hosts, 2 sockets, 2 connections; 3 devices, 1 fact, 2 priorities, 2 times; 2 concepts, 2 relations, 2 edges, 2 starts; 2 lab services, 1 device, 1 restart, 2 misses, 2 moves; 2 names, 2 escalations |
| `storage` | `MCStorage`, `Storage.cfg` | how much is only in memory? does a turn account for its tools? do snapshots, tasks, file space, layers, shards, clusters, timers and the wallet come out right? | 5 lines, interval 2, 2 starts, 1 failing save, no Telegram; 4 pages, memory of 4, 2 snapshots; 4 tasks, 2 bursts; 3 kinds of call, 2 tool calls; 2 names, depth 2, space 2; 3 layers in 2 slots; 2 secrets, 2 passwords, 2 shards; 2 embeddings, 4 vectors, 3 clusters; intervals 2 and 3, 2 processes, 2 blocks; 2 coins, 3 trades, 2 starts, 1 failing statement |
| `assistant_eof` | `Assistant`, `AssistantEOF.cfg` | finding: does leaving the loop stop the poller? | 1 update, 1 line, 1 start |
| `assistant_crash` | `Assistant`, `AssistantCrash.cfg` | finding: does auto-save limit the loss of a crash? | 4 lines, interval 2, 2 starts |
| `knowledge` | `MCKnowledge`, `Knowledge.cfg` | do ids, index, vector and file agree? is what the gate holds back what its file holds? do merged conversations keep their latest turns? what do the files of facts lose? do the bot's positions follow from its orders, are plans, goals and reminders counted as they went? does starting all start everything? | 1 subject, 2 predicates, 2 objects, 3 facts, 2 starts; 3 claims, 2 sources, 3 verdicts; 2 devices, 5 turns, windows of 2; 1 device, 2 facts, files of 2 lines; 1 coin at 2 prices, 2 scans, 2 starts, a day passing; plans of up to 3 steps, 3 executions, 2 approvals; 2 reminders; 2 goals, 2 actions, 2 endings; 3 services with two possible sets of dependencies, 1 restart |
| `learning_engine_query` | `MCLearningEngine`, `LearningEngineQuery.cfg` | finding: are answers about their subject after a fact was forgotten? | 2 subjects |
| `knowledge_sync_tool` | `KnowledgeFiles`, `GitHubSync.cfg` | finding: does the automatic synchronisation only add facts? | 2 devices, 2 facts, files of 2 lines |
| `paper_stats` | `PaperTrading`, `PaperStats.cfg` | finding: does every sale have a cost to be compared with? | 2 coins, 3 trades, 3 starts |
| `llm_routing` | `MCLLMRouting`, `LLMRouting.cfg` | does every provider get its turn, do quotas hold, do the tables agree, is every message answered? | 2 cloud providers and the local one, limit 2, quotas 2, 1 and none, 1 key, 2 calls a message, 2 picked requests a start, 2 days, 2 starts |
| `llm_retry` | `MCLLMRouting`, `LLMRetry.cfg` | finding: is a provider that failed its limit tried again? | limit 3, 1 picked request, 1 start |
| `trading_pause` | `TradingBot`, `TradingPause.cfg` | finding: does the bot pause for losses only? | 2 coins, one constant price |

Why the bounds are enough. Delivery needs a batch with an update behind the one being
handled, an update left for the next batch, and a restart between handling and confirming:
two updates sent at any time, in batches of up to two, give each of them, and one line lets
the REPL thread interleave with them. Memory needs more interactions than `MaxInteractions`, a
save that fails and another that succeeds. In the learning engine three facts let the middle
one be forgotten while a later one keeps its id. In paper trading a coin can be bought, sold
out and bought again, and a restart comes after any of its saves. In
routing, two cloud providers let one fail while the other is usable, wherever the search
starts; a limit of two failures and two calls per message let a provider reach its limit in
the middle of a message; the quota of one, two requests and two days let a quota be used up,
be counted after midnight, and start again. A ring of three slots wraps around and is full
with two messages. Three devices let a version reach one directly and through another. Four
pages let a snapshot, a rollback and a write share and separate pages. Two slots for three
layers make every load evict, with pins making it fail. Three services let a circle, a chain
and a missing dependency be registered. Three claims let two contradict each other and one
close a circle. Two shards of one process meet the two files of the one before. Four vectors
are more than there are clusters, so that some share one. The intervals of the kernel are short and
of two lengths; the theorems of section 5 hold for all lengths.

`CHECK_DEADLOCK FALSE` is used throughout: the process may end for good once its starts are
used up, and a terminal may stay silent.

### Fairness

`FairSpec` has weak fairness for each thread's steps other than typing and locking, strong
fairness for taking the lock, and strong fairness for a poll that is delivered. The first is
what an operating system's scheduler gives. The second is justified by the code's structure:
the poller sleeps two seconds without the lock in every round and the REPL thread waits for
the terminal without it, so each thread finds it free again and again (`std::mutex` itself
promises nothing). The third says that the network does not fail for ever. Nothing obliges
the user to type.

In `LLMRouting`, `FairSpec` only says that a message being answered goes on being answered
(weak fairness of `Handle`): each network call has a timeout. `PatientSpec`, used by the
finding, assumes more, so that nothing but the code is left to blame: the user keeps asking,
calls keep being made, and a provider that is called again and again answers some day.

### Findings

* **End of input hangs the process** (`assistant_eof`): `mk_entry.cpp:1816` leaves the loop
  without clearing `g_running`; the join at 2226 waits for a thread that was not told to stop.
* **The save that limits loss can lose more** (`assistant_crash`): `persistent_memory.cpp:221`
  truncates the only copy first.
* **Ids are positions until something is forgotten** (`learning_engine_query`):
  `learning_engine.cpp:165-167` after `forgetFact`.
* **Closed positions count as losses** (`paper_stats`): `paper_trading.cpp:667` after the
  average cost was erased at 521.
* **The bot takes its own purchases for a loss** (`trading_pause`): `trading_bot.cpp:394` adds
  the paper cash to the value that holdings had at their last price update, and `recordBuy`
  does not update it; what was just bought counts as nothing, the drawdown limit is reached
  without a price having moved, and nothing ends the pause.
* **The synchronisation takes facts away** (`knowledge_sync_tool`): `autoSync` pulls before it
  merges (`tools/knowledge_sync.cpp:500`), and `pull` writes every downloaded file over the local
  one before what was learned here has been sent, although line 502 says "don't overwrite,
  just add new facts".
* **A provider that failed its limit is never retried** (`llm_retry`): `findNextProvider`
  (`cloud_llm.cpp:344`) passes over it, only a successful call or a new key or model resets
  its count, and `resetFailCounts` ("call periodically to retry failed providers",
  `cloud_llm.cpp:535`) is called by nothing, although `mk_entry.cpp:1290` tells the user "It
  will be retried automatically".

## 5. Proofs

Each theorem is about the specification of one component and holds for all constants that
satisfy the named assumption of its module (`ParametersAssumption`, `LearningAssumption`,
`PaperAssumption`, and so on, one ASSUME or a few in each module). They say that bounds are
numbers, and what the code fixes: an interval of the timer is not 0 (`KernelAssumption`), the
secret of a shard is not what a wrong key gives (`ShardsAssumption`), a service depends on
services (`ServiceAssumption`), a piece of a reply is a call or words (`ToolAssumption`). Sets
that the program holds in memory are finite (`GraphAssumption` for the concepts,
`ServiceAssumption` for the services). Every proof follows the same line: an inductive invariant,
one lemma per action or group of actions, then the property from the invariant.

`DataLemmas` has the facts about numbers, sets, sequences and sums that several proofs cite.
Induction over data is done there by the least counterexample: a set of numbers that is not
empty has a least member. `LoopStays` (what every round of a loop keeps holds after any number
of rounds) and `LoopExists` (a loop whose rounds have an outcome can be run) are proved so, and
with them recursive functions can be reasoned about: the queue of `start_all`, the prefetching
of the pager, the three loops of the graph.

* `AssistantProofs`. `TypeInv` adds to `TypeOK` what its preservation needs. `LockInv` ties the
  holder of `mutex` to the two program counters, and says that past the join the poller is
  gone: without the latter the unlocked final save could not be told apart from a race.
  `DeliveryInv` says where each update is: `Position` (everything below the parse position is
  done), `InHand` (the one being handled) and `InFlight` (the reply holds only updates at or
  above what is confirmed). From it follow `NoUpdateLost`, `OncePerBoot`, `HandledInOrder` and
  their conjunction `DeliveredOnceInOrder` (`DeliveryIsExact`), and, step by step, the
  refinement `ImplementsMailbox`.
  `WindowInv` ties the window to the lock: a thread that owes a reply holds it, and the last
  turn of the window is that thread's question; `CommitPaired` shows that dropping two turns
  in front parts no other pair, and `RepliesFollow` is `ReplyFollowsQuestion`. `SaveInv` gives
  the unsaved interactions an allowance: what the counter has gone up by since it was last a
  multiple of the interval, one for the line in hand, one interval per failed save. The
  allowance is what makes `UnsavedBounded` inductive (`LossIsBounded`): the bound alone would
  let a step start from a full interval just before the counter says that a save is due.
* `LearningEngineProofs`. `IdsInv` (ids ascend, in memory and on file), `IndexInv`, and
  `Aligned` (ids equal positions until something is forgotten), which needs to hold of the
  file as well as of memory, and of every prefix of it, because of torn writes.
* `PaperTradingProofs`. `DatabaseInv` says, per pending save, which tables trail memory and by
  how much; `DatabaseFollows` is its case with nothing pending, and `RestartKeepsTrades` its
  step at boot. `BooksAgree`: `BooksMatchHistory` speaks of memory, and a restart takes it from
  the file. So `Agreement` also says that the balance on file is near what the trades on file
  make it (`FileAgrees`, up to the trade whose balance is saved and which itself is not yet), and
  that memory before the trade being saved is near the same (`CashOnFile`). `Slack` is how near:
  a trade for each save that failed or was torn, half a grain for each start.
* `LLMRoutingProofs`. `QuotaInv` says that a picked provider still has a request left, which is
  why counting at the end of a message cannot exceed the quota; `TablesInv` that a picked
  provider has a key, so that a logged success never shows a provider without one as online.
  `SearchInv` describes a call as a lap around the table: unless all that was usable has been
  tried, after `attempts` passes the search stands `attempts` or more places from where it started, everything it went past was tried
  or was not usable, and what is left of the lap was not tried. The lemmas `AfterIs`,
  `AfterAfter`, `AfterInjective` and `AfterReaches` are the arithmetic of the circle.
* `RingBufferProofs`. `RingInv` counts: as many messages were accepted as were taken and still
  wait (`CountInv`); the slots from the reader's position on hold the numbers after what was
  taken, whole (`StoredInv`); a reader past its check has a message in front of it and the
  right payload in hand (`ReaderInv`). The lemmas `AheadIs`, `AheadInjective` and
  `WriterApart` are the arithmetic of the ring: the slot being filled is none of those that
  wait, which is what room for one message less than there are slots buys. From it follow
  `MessagesInOrder` and, step by step, the refinement `ImplementsChannel`.

* `PlatformProofs`.
  - `ElevationTrusted`: `PermInv` says that whoever is `ROOT` is trusted, that capabilities come
    from the level or a grant, that a grant of `CAN_ESCALATE` is remembered as trust, and that
    only trusted names have escalations, also those whose user has been deleted.
  - `TimerKeepsUp`: `KernelInv` counts against the timer. A zombie has been one for no more ticks
    than its event's countdown has gone down (`ZombiesCounted`), a dirty block likewise
    (`DirtyCounted`), whatever the intervals are; before the boot has filled the tables they are
    empty.
  - `TasksKept`: the two queues share no task and are finite, so that the counts of `TasksAccounted`
    move with every task that a burst puts aside or takes back.
  - `ConnectionsOwned`: numbers and connections are below the next one, no two sockets are of one
    connection, and no two idle entries of the pool are. The last is what keeps an entry from
    being given out twice, and is not implied by `NotShared`.
  - `SecretsReadBack`: a shard that got into its file has there what it was created with
    (`FilesHold`), and in memory that or nothing (`MemoryHolds`). Reading under the wrong key
    gives something that is no secret and that the checksum refuses.
  - `SearchCoversIndex`: an entry's id is its place in the index, in the saved index too; this is
    why clusters that hold places can be read as ids after a load.
  - `BestVersionKept`: `BetterMeans` writes the order of versions out; that a device keeps the
    better of two, whichever came first, rests on that order being transitive.
  - `SnapshotsNeverChange`, `PagesAddUp`: the reference count of a page is the number of
    regions, live or of a snapshot, that point to it (`CountedBy`), snapshots have numbers of their
    own, below the next (`IdsDistinct`), and the owners of tables and what they point to are
    finite (`Sound`). So a page counted once that a live region points to is in no snapshot, and
    may be written in place. Sharing a table adds an owner and releasing one takes it away:
    `CountedUp` and `CountedDown` say what this does to the heap, and every operation on
    snapshots is one or both of them. The owner that is taken away is the one it was, not one
    with an equal table, because `Owners` pairs each table with its number, and the live regions
    are number 0.
  - `LayersWhereMapped`: besides the property, a slot that is pinned or in use is the one its layer
    is mapped to, and no layer stands twice in the order of use (`SoundPagers`); then a slot that
    is freed or loaded changes what one layer is mapped to. Prefetching is a loop over the queue,
    in which each round keeps a sound pager sound.
  - `TurnsAddUp`: `Going` says, while the turn is under way, which of the runs is in hand, that its
    call stands in the reply, and that what every earlier tool said is accounted for. Taking the
    call out and putting the result in its place is what could lose an earlier result; the
    accounting survives because a result is only taken out as a call that is then run.
* `ServiceProofs`.
  - `RestartedThenMoved`: the types suffice; each step changes the status, misses and
    restarts of one service together, or appends one move.
  - `PlansAddUp`: `PlanCounted` is not inductive, because the counts of a plan under way say
    nothing of the steps ahead, which keep the statuses of an earlier execution. `Underway` adds
    that exactly a plan under way is `IN_PROGRESS` and that no step behind is `PENDING`; so a plan
    that ends with no failure counted has nothing but completed steps. `Bad` and `Good` are the
    two sets that the counts are of.
  - `GoalsAddUp`: `GoalsAccounted` is taken apart into what it says of a goal, of the lessons about
    it and of the totals, each of which is kept by itself; it is inductive with the types.
  - `PositionsAddUp`: every order moves the holding and the account (or the live trades) by the
    same quantity (`MoveKept`), and a restart makes what is on file the new start.
  - `HeldBackOnDisk`: the property is inductive with the types; a promotion writes to the file what is
    left of the list, and a restart reads it back in the same order.
  - `AnswersStayCurrent`: the index names edges of its own source and relation (`IndexOfEdges`),
    which is why a dump of the edges holds all that the graph holds; an answer in the cache has at
    least the targets that the index gives (`CacheCurrent`); and what is held is on disk. The walk
    of `pathQuery`, the edges of one node and the lines of a file are loops whose rounds keep a
    sound graph sound.
  - `FourWaysToLose`: an action property, from the types alone. A step changes one device
    (`StepOf`), and each is shown to keep what is present, to put a download in the place of the
    file, to stop a maintenance that has the file open, or to be a step of a pass after which
    every sound fact it had read is present: what is written over a file is in it (`LeftLines`),
    and a pass removes no sound fact.
  - `NoReminderTwice`: `ReminderInv` says of the list in memory and of the list on file that no two
    reminders share a number, and that an occurrence still to come on either was handed out at
    most once per check that could not be saved (`SoundList`). The list on file may be older,
    which is why it needs the bound for itself.
  - `LatestStay`: the times of turns are their identity; what contexts on the way hold was said by
    somebody (`MemoryInv`). Merging sorts and cuts: the latest of a union are among the latest of
    the parts.
  - `AllThatCanRun`: in the loop of `start_all` those waiting are exactly those not yet placed
    that depend only on placed ones (`Orders`). When nobody waits and somebody is left, each that
    is left depends on one that is left, and this is a circle.
  - `SpaceAddsUp`: what all nodes take is covered, also below what was a directory once and is counted
    as a file (`Covered`), and no node is without its parent (`Forest`). A rename moves a branch
    elsewhere without changing what it takes, since no two of its paths become one.

Checked by TLC only: the liveness properties `ShutdownCompletes`, `UpdatesHandled` and
`EveryMessageAnswered`, because fairness is outside the prover's reach.

The type invariants are proved only. `PaperTypeOK` is one of them: it says that no balance falls
below zero.

## 6. Not modelled

See `PROJECT.json` for the list with reasons. In short: text, scoring and numeric code
(reasoning engine, math solver, the distances of the vector search, indicators) has no control
to check; network clients, shell adapters, drivers and scripts are input and output; the rest of
the demonstration kernel is planned above.
In the instances of the runs no command is dangerous (`Dangerous` is empty), so the refusal of
`local_shell` is in the model and in the theorem `TurnsAddUp`, but in no run; it leaves the same
kind of answer as a missing argument, which the runs have.
