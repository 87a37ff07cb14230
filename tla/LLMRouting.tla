----------------------------- MODULE LLMRouting -----------------------------
(* The two tables of language-model providers and the messages that use them. *)
(*                                                                           *)
(* MKCloudLLM calls the cloud providers: it keeps their keys, how often each  *)
(* failed in a row and where the next search starts. MKProviderRouter keeps   *)
(* keys, status and daily quotas of the same providers and of the local one;  *)
(* it picks a provider for every Telegram message and is told the outcome.    *)
(* Commands and messages hold systemMutex, so one of them runs at a time; the *)
(* steps inside a message matter because the outcome of each network call is  *)
(* the provider's choice, and midnight or the end of the process may come     *)
(* between any two of them.                                                   *)
EXTENDS Integers

CONSTANTS
    N,              \* number of cloud providers, in their order of priority
    MaxFails,       \* maxFails of the cloud providers
    LocalMaxFails,  \* maxFails of the local provider
    Quota,          \* dailyQuota of each provider, 0 for no limit
    Keys, NoKey,    \* the API keys, and the empty key
    MaxCalls,       \* calls of generate() one message can lead to
    MaxRequests,    \* bound on totalRequests_ in one process
    MaxDays,        \* bound on the days that pass
    MaxBoots        \* bound on the starts of the process

Cloud     == 0 .. N - 1
Local     == N          \* ollama, which only the router knows
Providers == 0 .. N

ASSUME NAssumption == N \in Nat \ {0}
ASSUME FailsAssumption ==
    /\ MaxFails \in Nat /\ MaxFails >= 2
    /\ LocalMaxFails \in Nat /\ LocalMaxFails >= 2
ASSUME QuotaAssumption == Quota \in [Providers -> Nat]
ASSUME KeyAssumption   == NoKey \notin Keys
ASSUME BoundAssumption ==
    {MaxCalls, MaxRequests, MaxDays, MaxBoots} \subseteq Nat \ {0}

VARIABLES
    (* MKCloudLLM *)
    apiKey, failCount, activeProvider,
    (* MKProviderRouter *)
    routerKey, status, routerFails, usedQuota, currentDay, totalRequests,
    (* the message being answered *)
    pc,         \* "idle", "answering", "trying" (in generate) or "gaveup"
    picked,     \* the provider the router picked for it, if any
    calls,      \* calls of generate() so far
    attempts,   \* attempts of the current call
    due,        \* the providers that were usable when the call began
    tried,      \* the providers the call has been made to
    (* outside the process *)
    encrypted,  \* the keys in encrypted_keys.conf
    today, boots

cloudVars   == <<apiKey, failCount, activeProvider>>
routerVars  == <<routerKey, status, routerFails, usedQuota, currentDay, totalRequests>>
callVars    == <<attempts, due, tried>>
messageVars == <<pc, picked, calls>>
outside     == <<encrypted, today, boots>>
vars        == <<cloudVars, routerVars, messageVars, callVars, outside>>

Statuses == {"ONLINE", "DEGRADED", "OFFLINE"}
MaxFailsOf(p) == IF p = Local THEN LocalMaxFails ELSE MaxFails

-----------------------------------------------------------------------------
(* Starting: the keys of the environment or api_keys.conf come first, those   *)
(* of the encrypted file fill the gaps, and the router is given them all.     *)

Sources == [Cloud -> Keys \cup {NoKey}]

LoadedKeys(env) ==
    [p \in Cloud |-> IF env[p] # NoKey THEN env[p] ELSE encrypted[p]]

\* Variant: only the keys of the encrypted file reach the router.
SyncedEncrypted(env) == encrypted

SyncedKeys(env) ==
    [p \in Providers |-> IF p \in Cloud THEN LoadedKeys(env)[p] ELSE encrypted[p]]

(* findNextProvider in the constructor, before the encrypted keys are read. *)
IsFirst(env, p) ==
    \/ env[p] # NoKey /\ \A q \in 0 .. p - 1 : env[q] = NoKey
    \/ p = 0 /\ \A q \in Cloud : env[q] = NoKey

StatusAtBoot(keys) ==
    [p \in Providers |-> IF keys[p] # NoKey THEN "ONLINE" ELSE "OFFLINE"]

Init ==
    /\ encrypted = [p \in Providers |-> NoKey]
    /\ today = 0 /\ boots = 1
    /\ \E env \in Sources :
          /\ apiKey = LoadedKeys(env)
          /\ activeProvider \in {p \in Cloud : IsFirst(env, p)}
          /\ routerKey = SyncedKeys(env)
          /\ status = StatusAtBoot(SyncedKeys(env))
    /\ failCount = [p \in Cloud |-> 0]
    /\ routerFails = [p \in Providers |-> 0]
    /\ usedQuota = [p \in Providers |-> 0]
    /\ currentDay = 0 /\ totalRequests = 0
    /\ pc = "idle" /\ picked = {} /\ calls = 0
    /\ attempts = 0 /\ due = {} /\ tried = {}

(* The process ends, in the middle of a message or not, and is started again. *)
Restart ==
    /\ boots < MaxBoots
    /\ boots' = boots + 1
    /\ \E env \in Sources :
          /\ apiKey' = LoadedKeys(env)
          /\ activeProvider' \in {p \in Cloud : IsFirst(env, p)}
          /\ routerKey' = SyncedKeys(env)
          /\ status' = StatusAtBoot(SyncedKeys(env))
    /\ failCount' = [p \in Cloud |-> 0]
    /\ routerFails' = [p \in Providers |-> 0]
    /\ usedQuota' = [p \in Providers |-> 0]
    /\ currentDay' = today /\ totalRequests' = 0
    /\ pc' = "idle" /\ picked' = {} /\ calls' = 0
    /\ attempts' = 0 /\ due' = {} /\ tried' = {}
    /\ UNCHANGED <<encrypted, today>>

-----------------------------------------------------------------------------
(* The commands /setkey and /setmodel. *)

(* setApiKey *)
CloudKeySet(p, k) ==
    IF p \in Cloud
    THEN /\ apiKey' = [apiKey EXCEPT ![p] = k]
         /\ failCount' = [failCount EXCEPT ![p] = 0]
    ELSE UNCHANGED <<apiKey, failCount>>

(* setProviderKey clears the fail count; then testProvider calls the provider. *)
RouterKeySet(p, k, reached) ==
    LET fails == IF reached THEN 0 ELSE 1
    IN  /\ routerKey' = [routerKey EXCEPT ![p] = k]
        /\ routerFails' = [routerFails EXCEPT ![p] = fails]
        /\ status' = [status EXCEPT ![p] =
                         IF reached THEN "ONLINE"
                         ELSE IF fails >= MaxFailsOf(p) THEN "OFFLINE" ELSE "DEGRADED"]

SetKey(p, k) ==
    /\ pc = "idle"
    /\ encrypted' = [encrypted EXCEPT ![p] = k]
    /\ CloudKeySet(p, k)
    /\ \E reached \in BOOLEAN : RouterKeySet(p, k, reached)
    /\ UNCHANGED <<activeProvider, usedQuota, currentDay, totalRequests,
                   messageVars, callVars, today, boots>>

(* setModel and setProviderModel: the new slug gets "a fresh chance". *)
SetModel(p) ==
    /\ pc = "idle"
    /\ failCount' = [q \in Cloud |-> IF q = p THEN 0 ELSE failCount[q]]
    /\ routerFails' = [routerFails EXCEPT ![p] = 0]
    /\ status' = [status EXCEPT ![p] =
                     IF status[p] = "OFFLINE" /\ (routerKey[p] # NoKey \/ p = Local)
                     THEN "DEGRADED" ELSE status[p]]
    /\ UNCHANGED <<apiKey, activeProvider, routerKey, usedQuota, currentDay,
                   totalRequests, messageVars, callVars, outside>>

-----------------------------------------------------------------------------
(* A message: the router picks, the orchestrator asks, the outcome is logged. *)

(* checkDayRollover *)
UsedNow == IF today # currentDay THEN [p \in Providers |-> 0] ELSE usedQuota

\* Variant: a provider at its quota is still offered.
CandidateAtQuota(p) ==
    /\ status[p] # "OFFLINE"
    /\ routerFails[p] < MaxFailsOf(p)
    /\ Quota[p] > 0 => UsedNow[p] <= Quota[p]

Candidate(p) ==
    /\ status[p] # "OFFLINE"
    /\ routerFails[p] < MaxFailsOf(p)
    /\ Quota[p] > 0 => UsedNow[p] < Quota[p]

(* pickProvider: which candidate has the best score is left open. *)
Pick(choice) ==
    \/ \E p \in Providers : Candidate(p) /\ choice = {p}
    \/ (\A p \in Providers : ~ Candidate(p)) /\ choice = {}

TelegramMessage ==
    /\ pc = "idle"
    /\ totalRequests < MaxRequests
    /\ \E choice \in SUBSET Providers : Pick(choice) /\ picked' = choice
    /\ usedQuota' = UsedNow
    /\ currentDay' = today
    /\ pc' = "answering" /\ calls' = 0
    /\ UNCHANGED <<cloudVars, routerKey, status, routerFails, totalRequests,
                   callVars, outside>>

(* A line at the terminal is answered without a word to the router. *)
TerminalMessage ==
    /\ pc = "idle"
    /\ pc' = "answering" /\ calls' = 0 /\ picked' = {}
    /\ UNCHANGED <<cloudVars, routerVars, callVars, outside>>

Usable(p) == apiKey[p] # NoKey /\ failCount[p] < MaxFails

\* Variant: the count of tool calls starts again with every call.
StartCallAgain ==
    /\ pc = "answering" \/ (pc = "gaveup" /\ calls > 1)
    /\ calls < MaxCalls
    /\ \E p \in Cloud : apiKey[p] # NoKey
    /\ pc' = "trying" /\ calls' = 1
    /\ attempts' = 0
    /\ due' = {p \in Cloud : Usable(p)}
    /\ tried' = {}
    /\ UNCHANGED <<cloudVars, routerVars, picked, outside>>

(* generate() is entered. The first call of a message may be spared by the    *)
(* local model; a call that gave up is followed by another only while the     *)
(* results of tools are worked in, that is, after a first call that succeeded. *)
StartCall ==
    /\ pc = "answering" \/ (pc = "gaveup" /\ calls > 1)
    /\ calls < MaxCalls
    /\ \E p \in Cloud : apiKey[p] # NoKey          \* enabled_
    /\ pc' = "trying" /\ calls' = calls + 1
    /\ attempts' = 0
    /\ due' = {p \in Cloud : Usable(p)}
    /\ tried' = {}
    /\ UNCHANGED <<cloudVars, routerVars, picked, outside>>

After(p, i) == (p + i) % N

(* findNextProvider: the first usable provider from activeProvider_ on. *)
IsNext(p) ==
    \E i \in 0 .. N - 1 :
        /\ p = After(activeProvider, i)
        /\ Usable(p)
        /\ \A j \in 0 .. i - 1 : ~ Usable(After(activeProvider, j))

Succeeded(p) ==
    /\ failCount' = [failCount EXCEPT ![p] = 0]
    /\ activeProvider' = p
    /\ pc' = "answering"
    /\ attempts' = 0 /\ due' = {} /\ tried' = {}

\* Variant: the next search starts at the provider that just failed.
FailedAgain(p) ==
    /\ failCount' = [failCount EXCEPT ![p] = @ + 1]
    /\ activeProvider' = p
    /\ attempts' = attempts + 1
    /\ tried' = tried \cup {p}
    /\ UNCHANGED <<pc, due>>

\* Variant: the next search starts at the top of the table.
FailedFromTop(p) ==
    /\ failCount' = [failCount EXCEPT ![p] = @ + 1]
    /\ activeProvider' = 0
    /\ attempts' = attempts + 1
    /\ tried' = tried \cup {p}
    /\ UNCHANGED <<pc, due>>

Failed(p) ==
    /\ failCount' = [failCount EXCEPT ![p] = @ + 1]
    /\ activeProvider' = After(p, 1)
    /\ attempts' = attempts + 1
    /\ tried' = tried \cup {p}
    /\ UNCHANGED <<pc, due>>

(* One pass through the loop of generate(). *)
TryProvider(p) ==
    /\ pc = "trying" /\ attempts < N
    /\ IsNext(p)
    /\ Succeeded(p) \/ Failed(p)
    /\ UNCHANGED <<apiKey, routerVars, picked, calls, outside>>

GiveUp ==
    /\ pc = "trying"
    /\ attempts = N \/ \A p \in Cloud : ~ Usable(p)
    /\ pc' = "gaveup"
    /\ UNCHANGED <<cloudVars, routerVars, picked, calls, callVars, outside>>

(* respond() always returns a text, so what logRequest records is a success. *)
Reply ==
    /\ pc \in {"answering", "gaveup"}
    /\ pc' = "idle"
    /\ IF picked = {}
       THEN UNCHANGED routerVars
       ELSE /\ usedQuota' = [p \in Providers |->
                                IF p \in picked THEN UsedNow[p] + 1 ELSE UsedNow[p]]
            /\ currentDay' = today
            /\ routerFails' = [p \in Providers |->
                                  IF p \in picked THEN 0 ELSE routerFails[p]]
            /\ status' = [p \in Providers |->
                             IF p \in picked THEN "ONLINE" ELSE status[p]]
            /\ totalRequests' = totalRequests + 1
            /\ UNCHANGED routerKey
    /\ picked' = {} /\ calls' = 0
    /\ attempts' = 0 /\ due' = {} /\ tried' = {}
    /\ UNCHANGED <<cloudVars, outside>>

Midnight ==
    /\ today < MaxDays
    /\ today' = today + 1
    /\ UNCHANGED <<cloudVars, routerVars, messageVars, callVars, encrypted, boots>>

Command == \E p \in Providers : SetModel(p) \/ \E k \in Keys : SetKey(p, k)
Handle  == StartCall \/ (\E p \in Cloud : TryProvider(p)) \/ GiveUp \/ Reply

Next ==
    \/ Command
    \/ TelegramMessage \/ TerminalMessage
    \/ Handle
    \/ Midnight \/ Restart

Spec == Init /\ [][Next]_vars

(* A message that is being answered goes on being answered. *)
FairSpec == Spec /\ WF_vars(Handle)

(* The user goes on asking, the local model does not answer for the cloud for *)
(* ever, and a provider that is called over and over answers some day.        *)
PatientSpec ==
    FairSpec /\ WF_vars(TerminalMessage) /\ SF_vars(StartCall)
             /\ \A p \in Cloud : SF_vars(TryProvider(p) /\ Succeeded(p))

-----------------------------------------------------------------------------
(* Properties *)

TypeOK ==
    /\ apiKey \in Sources
    /\ failCount \in [Cloud -> 0 .. MaxFails]
    /\ activeProvider \in Cloud
    /\ routerKey \in [Providers -> Keys \cup {NoKey}]
    /\ status \in [Providers -> Statuses]
    /\ routerFails \in [Providers -> 0 .. 1]
    /\ usedQuota \in [Providers -> Nat]
    /\ currentDay \in Nat /\ today \in Nat /\ totalRequests \in Nat
    /\ pc \in {"idle", "answering", "trying", "gaveup"}
    /\ picked \in SUBSET Providers
    /\ calls \in Nat
    /\ attempts \in 0 .. N
    /\ due \in SUBSET Cloud /\ tried \in SUBSET Cloud
    /\ encrypted \in [Providers -> Keys \cup {NoKey}]
    /\ boots \in Nat

(* generate() gives up only after it has called every provider that had a key *)
(* and was below its limit of failures when the call began, wherever the      *)
(* search started and although it wraps around the table                      *)
(* (src/MK_OS/llm/cloud_llm.cpp:455-488).                                     *)
NoProviderSkipped == pc = "gaveup" => due \subseteq tried

(* No provider is called again in one call of generate() while another usable *)
(* one has not had its turn: the search moves on past a failure               *)
(* (src/MK_OS/llm/cloud_llm.cpp:341-349 with line 484).                       *)
OthersFirst ==
    pc = "trying" /\ attempts < N =>
        \A p \in tried : IsNext(p) => due \subseteq tried

(* However messages, midnights, keys and tests follow each other, no provider *)
(* is picked for more than its quota of requests in one day of one process:   *)
(* the check in pickProvider still holds when logRequest counts.              *)
QuotaRespected ==
    \A p \in Providers : Quota[p] > 0 => usedQuota[p] <= Quota[p]

(* The router's table and MKCloudLLM's stay in step through boot, /setkey,    *)
(* /setmodel and messages: the same keys, and a cloud provider is offered     *)
(* exactly if it has one (src/MK_OS/system/mk_entry.cpp:382-405, 1270-1280).  *)
TablesAgree ==
    \A p \in Cloud :
        /\ routerKey[p] = apiKey[p]
        /\ status[p] = "OFFLINE" <=> apiKey[p] = NoKey

(* Every message is answered in the end: neither failing providers nor tools  *)
(* that ask for more calls keep systemMutex for ever.                         *)
EveryMessageAnswered == []<>(pc = "idle")

(* "It will be retried automatically", says src/MK_OS/system/mk_entry.cpp:1290 *)
(* of a provider whose test failed, and src/MK_OS/llm/cloud_llm.cpp:535 has a *)
(* reset to "call periodically to retry failed providers": a provider with a  *)
(* key that reached its limit of failures gets another chance in the end.     *)
RetriedAutomatically ==
    \A p \in Cloud :
        (apiKey[p] # NoKey /\ failCount[p] = MaxFails) ~> failCount[p] < MaxFails
=============================================================================
