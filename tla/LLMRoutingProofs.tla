-------------------------- MODULE LLMRoutingProofs --------------------------
(* Theorems about LLMRouting, for every table of providers, every limit of    *)
(* failures of at least two, every set of keys and every quota.               *)
EXTENDS LLMRouting, TLAPS

-----------------------------------------------------------------------------
(* Going around the table of providers. *)

(* Up to once around, the remainder is the index itself or the index less N. *)
LEMMA AfterIs ==
    ASSUME NEW s \in Cloud, NEW a \in 0 .. N
    PROVE  After(s, a) = IF s + a < N THEN s + a ELSE s + a - N
<1>1. CASE s + a < N
  BY <1>1, NAssumption DEF After, Cloud
<1>2. CASE s + a >= N
  <2> DEFINE r == s + a - N
  <2>1. r \in 0 .. N - 1 /\ s + a = 1 * N + r
    BY <1>2, NAssumption DEF Cloud
  <2>2. (1 * N + r) % N = r
    BY <2>1, NAssumption
  <2>. QED  BY <2>1, <2>2, <1>2, NAssumption DEF After, Cloud
<1>. QED  BY <1>1, <1>2, NAssumption DEF Cloud

(* The index after any provider is a provider's. *)
LEMMA AfterInCloud ==
    ASSUME NEW s \in Cloud, NEW a \in 0 .. N
    PROVE  After(s, a) \in Cloud
BY AfterIs, NAssumption DEF Cloud

(* Going on from where one went is going the whole way at once. *)
LEMMA AfterAfter ==
    ASSUME NEW s \in Cloud, NEW a \in 0 .. N, NEW b \in 0 .. N, a + b <= N
    PROVE  After(After(s, a), b) = After(s, a + b)
<1>1. After(s, a) \in Cloud
  BY AfterInCloud
<1>2. After(After(s, a), b) =
        IF After(s, a) + b < N THEN After(s, a) + b ELSE After(s, a) + b - N
  BY <1>1, AfterIs
<1>3. a + b \in 0 .. N
  BY NAssumption
<1>4. After(s, a + b) = IF s + (a + b) < N THEN s + (a + b) ELSE s + (a + b) - N
  BY <1>3, AfterIs
<1>. QED  BY <1>2, <1>4, AfterIs, NAssumption DEF Cloud

(* Less than once around, different distances lead to different providers. *)
LEMMA AfterInjective ==
    ASSUME NEW s \in Cloud, NEW a \in 0 .. N - 1, NEW b \in 0 .. N - 1,
           After(s, a) = After(s, b)
    PROVE  a = b
<1>1. a \in 0 .. N /\ b \in 0 .. N
  BY NAssumption
<1>. QED  BY <1>1, AfterIs, NAssumption DEF Cloud

(* Every provider is reached by going less than once around. *)
LEMMA AfterReaches ==
    ASSUME NEW s \in Cloud, NEW p \in Cloud
    PROVE  \E j \in 0 .. N - 1 : p = After(s, j)
<1>1. CASE p >= s
  <2>1. p - s \in 0 .. N - 1 /\ p - s \in 0 .. N
    BY <1>1, NAssumption DEF Cloud
  <2>2. p = After(s, p - s)
    BY <2>1, AfterIs, NAssumption DEF Cloud
  <2>. QED  BY <2>1, <2>2
<1>2. CASE p < s
  <2>1. p + N - s \in 0 .. N - 1 /\ p + N - s \in 0 .. N
    BY <1>2, NAssumption DEF Cloud
  <2>2. p = After(s, p + N - s)
    BY <2>1, <1>2, AfterIs, NAssumption DEF Cloud
  <2>. QED  BY <2>1, <2>2
<1>. QED  BY <1>1, <1>2, NAssumption DEF Cloud

-----------------------------------------------------------------------------
(* Types. *)

(* What a start gives the two tables has its type, whatever the environment. *)
LEMMA BootTypes ==
    ASSUME TypeOK, NEW env \in Sources
    PROVE  /\ LoadedKeys(env) \in Sources
           /\ SyncedKeys(env) \in [Providers -> Keys \cup {NoKey}]
           /\ StatusAtBoot(SyncedKeys(env)) \in [Providers -> Statuses]
<1>1. Cloud \subseteq Providers
  BY NAssumption DEF Cloud, Providers
<1>2. encrypted \in [Providers -> Keys \cup {NoKey}]
  BY DEF TypeOK
<1>3. LoadedKeys(env) \in Sources
  BY <1>1, <1>2 DEF LoadedKeys, Sources
<1>4. SyncedKeys(env) \in [Providers -> Keys \cup {NoKey}]
  BY <1>2, <1>3 DEF SyncedKeys, Sources
<1>5. StatusAtBoot(SyncedKeys(env)) \in [Providers -> Statuses]
  BY DEF StatusAtBoot, Statuses
<1>. QED  BY <1>3, <1>4, <1>5

LEMMA TypeInit == Init => TypeOK
<1>. SUFFICES ASSUME Init PROVE TypeOK
  OBVIOUS
<1>. PICK env \in Sources :
       /\ apiKey = LoadedKeys(env)
       /\ activeProvider \in {p \in Cloud : IsFirst(env, p)}
       /\ routerKey = SyncedKeys(env)
       /\ status = StatusAtBoot(SyncedKeys(env))
  BY DEF Init
<1>1. encrypted \in [Providers -> Keys \cup {NoKey}]
  BY DEF Init
<1>2. LoadedKeys(env) \in Sources
  <2>1. Cloud \subseteq Providers
    BY NAssumption DEF Cloud, Providers
  <2>. QED  BY <1>1, <2>1 DEF LoadedKeys, Sources
<1>3. SyncedKeys(env) \in [Providers -> Keys \cup {NoKey}]
  BY <1>1, <1>2 DEF SyncedKeys, Sources
<1>4. StatusAtBoot(SyncedKeys(env)) \in [Providers -> Statuses]
  BY DEF StatusAtBoot, Statuses
<1>5. failCount \in [Cloud -> 0 .. MaxFails] /\ attempts \in 0 .. N
  BY FailsAssumption, NAssumption DEF Init
<1>. QED  BY <1>1, <1>2, <1>3, <1>4, <1>5 DEF Init, TypeOK

LEMMA UsedNowType ==
    ASSUME TypeOK
    PROVE  UsedNow \in [Providers -> Nat]
BY DEF TypeOK, UsedNow

LEMMA TypeStep == TypeOK /\ [Next]_vars => TypeOK'
<1>. SUFFICES ASSUME TypeOK, [Next]_vars PROVE TypeOK'
  OBVIOUS
<1>1. ASSUME NEW p \in Providers, NEW k \in Keys, SetKey(p, k) PROVE TypeOK'
  <2>1. apiKey' \in Sources /\ failCount' \in [Cloud -> 0 .. MaxFails]
    BY <1>1, FailsAssumption DEF TypeOK, SetKey, CloudKeySet, Sources
  <2>2. PICK reached \in BOOLEAN : RouterKeySet(p, k, reached)
    BY <1>1 DEF SetKey
  <2>3. /\ routerKey' \in [Providers -> Keys \cup {NoKey}]
        /\ routerFails' \in [Providers -> 0 .. 1]
        /\ status' \in [Providers -> Statuses]
    BY <2>2 DEF TypeOK, RouterKeySet, Statuses
  <2>4. encrypted' \in [Providers -> Keys \cup {NoKey}]
    BY <1>1 DEF TypeOK, SetKey
  <2>. QED  BY <1>1, <2>1, <2>3, <2>4 DEF TypeOK, SetKey, messageVars, callVars
<1>2. ASSUME NEW p \in Providers, SetModel(p) PROVE TypeOK'
  <2>1. failCount' \in [Cloud -> 0 .. MaxFails]
    BY <1>2, FailsAssumption DEF TypeOK, SetModel
  <2>2. routerFails' \in [Providers -> 0 .. 1] /\ status' \in [Providers -> Statuses]
    BY <1>2 DEF TypeOK, SetModel, Statuses
  <2>. QED  BY <1>2, <2>1, <2>2 DEF TypeOK, SetModel, messageVars, callVars, outside
<1>3. CASE TelegramMessage
  <2>1. usedQuota' \in [Providers -> Nat]
    BY <1>3, UsedNowType DEF TelegramMessage
  <2>. QED
    BY <1>3, <2>1 DEF TypeOK, TelegramMessage, cloudVars, callVars, outside
<1>4. CASE TerminalMessage
  BY <1>4 DEF TypeOK, TerminalMessage, cloudVars, routerVars, callVars, outside
<1>5. CASE StartCall
  BY <1>5, NAssumption DEF TypeOK, StartCall, cloudVars, routerVars, outside
<1>6. ASSUME NEW p \in Cloud, TryProvider(p) PROVE TypeOK'
  <2>1. CASE Succeeded(p)
    <3>1. failCount' \in [Cloud -> 0 .. MaxFails] /\ attempts' \in 0 .. N
      BY <2>1, FailsAssumption, NAssumption DEF TypeOK, Succeeded
    <3>. QED  BY <1>6, <2>1, <3>1 DEF TypeOK, TryProvider, Succeeded, routerVars, outside
  <2>2. CASE Failed(p)
    <3>1. failCount[p] < MaxFails
      BY <1>6 DEF TryProvider, IsNext, Usable
    <3>2. failCount' \in [Cloud -> 0 .. MaxFails]
      BY <2>2, <3>1, FailsAssumption DEF TypeOK, Failed
    <3>3. attempts' \in 0 .. N
      BY <1>6, <2>2, NAssumption DEF TypeOK, TryProvider, Failed
    <3>4. activeProvider' \in Cloud
      BY <2>2, AfterInCloud, NAssumption DEF Failed
    <3>. QED
      BY <1>6, <2>2, <3>2, <3>3, <3>4 DEF TypeOK, TryProvider, Failed, routerVars, outside
  <2>. QED  BY <1>6, <2>1, <2>2 DEF TryProvider
<1>7. CASE GiveUp
  BY <1>7 DEF TypeOK, GiveUp, cloudVars, routerVars, callVars, outside
<1>8. CASE Reply
  <2>1. attempts' \in 0 .. N /\ due' \in SUBSET Cloud /\ tried' \in SUBSET Cloud
    BY <1>8, NAssumption DEF Reply
  <2>2. CASE picked = {}
    BY <1>8, <2>1, <2>2 DEF TypeOK, Reply, cloudVars, routerVars, outside
  <2>3. CASE picked # {}
    <3>1. usedQuota' \in [Providers -> Nat]
      BY <1>8, <2>3, UsedNowType DEF Reply
    <3>2. /\ routerFails' \in [Providers -> 0 .. 1]
          /\ status' \in [Providers -> Statuses]
      BY <1>8, <2>3 DEF TypeOK, Reply, Statuses
    <3>. QED
      BY <1>8, <2>1, <2>3, <3>1, <3>2 DEF TypeOK, Reply, cloudVars, outside
  <2>. QED  BY <2>2, <2>3
<1>9. CASE Midnight
  BY <1>9 DEF TypeOK, Midnight, cloudVars, routerVars, messageVars, callVars
<1>10. CASE Restart
  <2>1. PICK env \in Sources :
          /\ apiKey' = LoadedKeys(env)
          /\ activeProvider' \in {p \in Cloud : IsFirst(env, p)}
          /\ routerKey' = SyncedKeys(env)
          /\ status' = StatusAtBoot(SyncedKeys(env))
    BY <1>10 DEF Restart
  <2>2. failCount' \in [Cloud -> 0 .. MaxFails] /\ attempts' \in 0 .. N
    BY <1>10, FailsAssumption, NAssumption DEF Restart
  <2>. QED  BY <1>10, <2>1, <2>2, BootTypes DEF TypeOK, Restart
<1>11. CASE UNCHANGED vars
  BY <1>11 DEF TypeOK, vars, cloudVars, routerVars, messageVars, callVars, outside
<1>. QED
  BY <1>1, <1>2, <1>3, <1>4, <1>5, <1>6, <1>7, <1>8, <1>9, <1>10, <1>11
     DEF Next, Command, Handle

(* Types hold throughout; in particular no cloud provider is charged with more *)
(* failures than its limit, and the router never counts more than one.        *)
THEOREM TypeCorrect == Spec => []TypeOK
BY TypeInit, TypeStep, PTL DEF Spec

-----------------------------------------------------------------------------
(* Quotas: what was picked had a request left, and still has when the outcome *)
(* is logged, on the same day or the next.                                    *)

PickedHasQuota == \A p \in picked : Quota[p] > 0 => usedQuota[p] < Quota[p]

QuotaInv == TypeOK /\ QuotaRespected /\ PickedHasQuota

LEMMA QuotaInit == Init => QuotaInv
<1>. SUFFICES ASSUME Init PROVE QuotaInv
  OBVIOUS
<1>1. QuotaRespected
  BY QuotaAssumption DEF Init, QuotaRespected
<1>. QED  BY <1>1, TypeInit DEF Init, QuotaInv, PickedHasQuota

LEMMA QuotaStep == QuotaInv /\ [Next]_vars => QuotaInv'
<1>. SUFFICES ASSUME QuotaInv, [Next]_vars
              PROVE  QuotaRespected' /\ PickedHasQuota'
  BY TypeStep DEF QuotaInv
<1>. USE DEF QuotaInv
<1>0. \A p \in Providers : Quota[p] \in Nat /\ usedQuota[p] \in Nat
  BY QuotaAssumption DEF TypeOK
<1>1. CASE UNCHANGED <<usedQuota, picked>>
  BY <1>1 DEF QuotaRespected, PickedHasQuota
<1>2. CASE TelegramMessage
  <2>1. QuotaRespected'
    BY <1>0, <1>2 DEF TelegramMessage, UsedNow, QuotaRespected
  <2>2. PickedHasQuota'
    BY <1>2 DEF TelegramMessage, Pick, Candidate, PickedHasQuota
  <2>. QED  BY <2>1, <2>2
<1>3. CASE TerminalMessage
  BY <1>3 DEF TerminalMessage, routerVars, QuotaRespected, PickedHasQuota
<1>4. CASE Reply
  <2>1. PickedHasQuota'
    BY <1>4 DEF Reply, PickedHasQuota
  <2>2. CASE picked = {}
    BY <1>4, <2>1, <2>2 DEF Reply, routerVars, QuotaRespected
  <2>3. CASE picked # {}
    <3>. SUFFICES ASSUME NEW p \in Providers, Quota[p] > 0
                  PROVE  usedQuota'[p] <= Quota[p]
      BY <2>1 DEF QuotaRespected
    <3>1. CASE p \in picked
      <4>1. UsedNow[p] < Quota[p] /\ UsedNow[p] \in Nat
        BY <1>0, <3>1, UsedNowType DEF UsedNow, PickedHasQuota
      <4>2. usedQuota'[p] = UsedNow[p] + 1
        BY <1>4, <2>3, <3>1 DEF Reply
      <4>. QED  BY <1>0, <4>1, <4>2
    <3>2. CASE p \notin picked
      <4>1. UsedNow[p] <= Quota[p]
        BY <1>0 DEF UsedNow, QuotaRespected
      <4>2. usedQuota'[p] = UsedNow[p]
        BY <1>4, <2>3, <3>2 DEF Reply
      <4>. QED  BY <4>1, <4>2
    <3>. QED  BY <3>1, <3>2
  <2>. QED  BY <2>2, <2>3
<1>5. CASE Restart
  BY <1>0, <1>5 DEF Restart, QuotaRespected, PickedHasQuota
<1>6. CASE Command \/ StartCall \/ GiveUp \/ Midnight \/ UNCHANGED vars
           \/ \E p \in Cloud : TryProvider(p)
  BY <1>1, <1>6 DEF Command, SetKey, SetModel, StartCall, GiveUp, Midnight,
                    TryProvider, vars, routerVars, messageVars
<1>. QED  BY <1>2, <1>3, <1>4, <1>5, <1>6 DEF Next, Handle

(* No provider is picked beyond its daily quota, however days and messages    *)
(* follow each other.                                                         *)
THEOREM QuotasHold == Spec => []QuotaRespected
<1>1. QuotaInv => QuotaRespected
  BY DEF QuotaInv
<1>. QED  BY <1>1, QuotaInit, QuotaStep, PTL DEF Spec

-----------------------------------------------------------------------------
(* The two tables: a provider that was picked keeps its key until the outcome *)
(* is logged, which makes it ONLINE.                                          *)

PickedHasKey == \A p \in picked \cap Cloud : apiKey[p] # NoKey

TablesInv == TypeOK /\ TablesAgree /\ PickedHasKey

(* A start leaves the tables in step. *)
LEMMA BootAgrees ==
    ASSUME NEW env \in Sources, NEW p \in Cloud
    PROVE  /\ SyncedKeys(env)[p] = LoadedKeys(env)[p]
           /\ StatusAtBoot(SyncedKeys(env))[p] = "OFFLINE"
                <=> LoadedKeys(env)[p] = NoKey
<1>1. p \in Providers
  BY NAssumption DEF Cloud, Providers
<1>2. SyncedKeys(env)[p] = LoadedKeys(env)[p]
  BY <1>1 DEF SyncedKeys
<1>. QED  BY <1>1, <1>2 DEF StatusAtBoot

LEMMA TablesInit == Init => TablesInv
<1>. SUFFICES ASSUME Init PROVE TablesInv
  OBVIOUS
<1>1. TablesAgree
  BY BootAgrees DEF Init, TablesAgree
<1>. QED  BY <1>1, TypeInit DEF Init, TablesInv, PickedHasKey

LEMMA TablesStep == TablesInv /\ [Next]_vars => TablesInv'
<1>. SUFFICES ASSUME TablesInv, [Next]_vars
              PROVE  TablesAgree' /\ PickedHasKey'
  BY TypeStep DEF TablesInv
<1>. USE DEF TablesInv
<1>0. Cloud \subseteq Providers /\ Local \notin Cloud
  BY NAssumption DEF Cloud, Providers, Local
<1>1. CASE UNCHANGED <<apiKey, routerKey, status, picked>>
  BY <1>1 DEF TablesAgree, PickedHasKey
<1>2. ASSUME NEW p \in Providers, NEW k \in Keys, SetKey(p, k)
      PROVE  TablesAgree' /\ PickedHasKey'
  <2>1. PICK reached \in BOOLEAN : RouterKeySet(p, k, reached)
    BY <1>2 DEF SetKey
  <2>2. k # NoKey /\ picked' = picked
    BY <1>2, KeyAssumption DEF SetKey, messageVars
  <2>3. \A q \in Cloud : apiKey'[q] = IF q = p THEN k ELSE apiKey[q]
    BY <1>2 DEF SetKey, CloudKeySet, TypeOK, Sources
  <2>4. \A q \in Cloud : routerKey'[q] = IF q = p THEN k ELSE routerKey[q]
    BY <1>0, <2>1 DEF RouterKeySet, TypeOK
  <2>5. \A q \in Cloud : q # p => status'[q] = status[q]
    BY <1>0, <2>1 DEF RouterKeySet, TypeOK
  <2>6. status'[p] # "OFFLINE"
    BY <2>1, FailsAssumption DEF RouterKeySet, TypeOK, MaxFailsOf
  <2>. QED  BY <2>2, <2>3, <2>4, <2>5, <2>6 DEF TablesAgree, PickedHasKey
<1>3. ASSUME NEW p \in Providers, SetModel(p)
      PROVE  TablesAgree' /\ PickedHasKey'
  <2>1. UNCHANGED <<apiKey, routerKey, picked>>
    BY <1>3 DEF SetModel, messageVars
  <2>2. \A q \in Cloud : status'[q] = "OFFLINE" <=> status[q] = "OFFLINE"
    BY <1>0, <1>3 DEF SetModel, TypeOK, TablesAgree
  <2>. QED  BY <2>1, <2>2 DEF TablesAgree, PickedHasKey
<1>4. CASE TelegramMessage
  <2>1. UNCHANGED <<apiKey, routerKey, status>>
    BY <1>4 DEF TelegramMessage, cloudVars
  <2>2. PickedHasKey'
    BY <1>4, <2>1 DEF TelegramMessage, Pick, Candidate, TablesAgree, PickedHasKey
  <2>. QED  BY <2>1, <2>2 DEF TablesAgree
<1>5. CASE TerminalMessage
  BY <1>5 DEF TerminalMessage, cloudVars, routerVars, TablesAgree, PickedHasKey
<1>6. CASE Reply
  <2>1. UNCHANGED apiKey /\ picked' = {}
    BY <1>6 DEF Reply, cloudVars
  <2>2. UNCHANGED routerKey
    BY <1>6 DEF Reply, routerVars
  <2>3. \A p \in Cloud :
           \/ status'[p] = status[p]
           \/ p \in picked /\ status'[p] = "ONLINE"
    BY <1>0, <1>6 DEF Reply, routerVars
  <2>. QED  BY <2>1, <2>2, <2>3 DEF TablesAgree, PickedHasKey
<1>7. CASE Restart
  <2>1. PICK env \in Sources :
          /\ apiKey' = LoadedKeys(env)
          /\ routerKey' = SyncedKeys(env)
          /\ status' = StatusAtBoot(SyncedKeys(env))
    BY <1>7 DEF Restart
  <2>2. picked' = {}
    BY <1>7 DEF Restart
  <2>. QED  BY <2>1, <2>2, BootAgrees DEF TablesAgree, PickedHasKey
<1>8. CASE StartCall \/ GiveUp \/ Midnight \/ UNCHANGED vars
           \/ \E p \in Cloud : TryProvider(p)
  BY <1>1, <1>8 DEF StartCall, GiveUp, Midnight, TryProvider, vars, cloudVars,
                    routerVars, messageVars
<1>. QED  BY <1>2, <1>3, <1>4, <1>5, <1>6, <1>7, <1>8 DEF Next, Command, Handle

(* The router offers exactly the cloud providers MKCloudLLM has a key of.     *)
THEOREM TablesStayInStep == Spec => []TablesAgree
<1>1. TablesInv => TablesAgree
  BY DEF TablesInv
<1>. QED  BY <1>1, TablesInit, TablesStep, PTL DEF Spec

-----------------------------------------------------------------------------
(* The search: seen from the provider s the call started at, the next search  *)
(* begins a distance off further on. What lies between was called or is not   *)
(* usable, and nothing else was called, until the search has gone all the way *)
(* around and nothing that was usable is left.                                *)

WentTo(s, off) ==
    /\ activeProvider = After(s, off)
    /\ \A j \in 0 .. off - 1 : After(s, j) \in due => After(s, j) \in tried
    /\ \A p \in tried : \E j \in 0 .. off - 1 : p = After(s, j)

LapInv ==
    pc = "trying" =>
        \/ due \subseteq tried
        \/ \E s \in Cloud : \E off \in attempts .. N - 1 : WentTo(s, off)

(* What was usable when the call began and has not been called is usable. *)
UntriedUsable == pc = "trying" => \A p \in due \ tried : Usable(p)

SearchInv == TypeOK /\ NoProviderSkipped /\ LapInv /\ UntriedUsable

LEMMA SearchInit == Init => SearchInv
BY TypeInit DEF Init, SearchInv, NoProviderSkipped, LapInv, UntriedUsable

(* A provider further on is as far from where the search goes on as it is     *)
(* from s, less what was gone already.                                        *)
LEMMA NextAhead ==
    ASSUME NEW s \in Cloud, NEW off \in 0 .. N - 1, WentTo(s, off),
           NEW j \in 0 .. N - 1, off <= j
    PROVE  After(s, j) = After(activeProvider, j - off)
<1>1. off \in 0 .. N /\ j - off \in 0 .. N /\ off + (j - off) = j
  BY NAssumption
<1>2. After(After(s, off), j - off) = After(s, off + (j - off))
  BY <1>1, AfterAfter, NAssumption
<1>. QED  BY <1>1, <1>2 DEF WentTo

(* A failure moves the search on past the provider that failed. *)
LEMMA FailureMovesOn ==
    ASSUME TypeOK, LapInv, UntriedUsable, pc = "trying", attempts < N,
           NEW p \in Cloud, IsNext(p), Failed(p)
    PROVE  LapInv'
<1>1. due' = due /\ tried' = tried \cup {p} /\ attempts' = attempts + 1
  BY DEF Failed
<1>2. CASE due \subseteq tried
  BY <1>1, <1>2 DEF LapInv
<1>3. CASE ~ (due \subseteq tried)
  <2>1. PICK s \in Cloud, off \in attempts .. N - 1 : WentTo(s, off)
    BY <1>3 DEF LapInv
  <2>2. off \in 0 .. N - 1 /\ attempts \in Nat
    BY <2>1, NAssumption DEF TypeOK
  <2>3. PICK i \in 0 .. N - 1 :
          /\ p = After(activeProvider, i)
          /\ \A j \in 0 .. i - 1 : ~ Usable(After(activeProvider, j))
    BY DEF IsNext
  <2>4. ASSUME NEW j \in 0 .. N - 1, j <= off + i, After(s, j) \in due
        PROVE  After(s, j) \in tried'
    <3>1. CASE j < off
      <4>1. j \in 0 .. off - 1
        BY <2>2, <3>1, NAssumption
      <4>. QED  BY <1>1, <2>1, <2>4, <4>1 DEF WentTo
    <3>2. CASE off <= j
      <4>1. After(s, j) = After(activeProvider, j - off)
        BY <2>1, <2>2, <2>4, <3>2, NextAhead
      <4>2. CASE j - off = i
        BY <1>1, <2>3, <4>1, <4>2
      <4>3. CASE j - off # i
        <5>1. j - off \in 0 .. i - 1
          BY <2>2, <2>4, <3>2, <4>3, NAssumption
        <5>2. ~ Usable(After(s, j))
          BY <2>3, <4>1, <5>1
        <5>. QED  BY <1>1, <2>4, <5>2 DEF UntriedUsable
      <4>. QED  BY <4>2, <4>3
    <3>. QED  BY <2>2, <3>1, <3>2, NAssumption
  <2>5. CASE off + i >= N - 1
    <3>1. ASSUME NEW q \in due PROVE q \in tried'
      <4>1. q \in Cloud
        BY DEF TypeOK
      <4>2. PICK j \in 0 .. N - 1 : q = After(s, j)
        BY <4>1, AfterReaches
      <4>3. j <= off + i
        BY <2>2, <2>5, NAssumption
      <4>. QED  BY <2>4, <4>2, <4>3
    <3>. QED  BY <1>1, <3>1 DEF LapInv
  <2>6. CASE off + i < N - 1
    <3> DEFINE new == off + i + 1
    <3>1. /\ new \in attempts' .. N - 1 /\ new \in 0 .. N
          /\ off + i \in 0 .. N - 1 /\ off + i \in 0 .. N /\ 1 \in 0 .. N
          /\ off + i \in 0 .. new - 1
      BY <1>1, <2>1, <2>2, <2>6, NAssumption
    <3>2. p = After(s, off + i)
      <4>1. After(s, off + i) = After(activeProvider, (off + i) - off)
        BY <2>1, <2>2, <3>1, NextAhead
      <4>. QED  BY <2>2, <2>3, <4>1
    <3>3. activeProvider' = After(s, new)
      <4>1. After(After(s, off + i), 1) = After(s, (off + i) + 1)
        BY <2>6, <3>1, AfterAfter, NAssumption
      <4>. QED  BY <3>2, <4>1 DEF Failed
    <3>4. \A j \in 0 .. new - 1 : After(s, j) \in due' => After(s, j) \in tried'
      <4>1. \A j \in 0 .. new - 1 : j \in 0 .. N - 1 /\ j <= off + i
        BY <2>2, <3>1, NAssumption
      <4>. QED  BY <1>1, <2>4, <4>1
    <3>5. \A q \in tried' : \E j \in 0 .. new - 1 : q = After(s, j)
      <4>1. 0 .. off - 1 \subseteq 0 .. new - 1
        BY <2>2, NAssumption
      <4>2. \A q \in tried : \E j \in 0 .. new - 1 : q = After(s, j)
        BY <2>1, <4>1 DEF WentTo
      <4>. QED  BY <1>1, <3>1, <3>2, <4>2
    <3>. HIDE DEF new
    <3>6. WentTo(s, new)'
      BY <3>3, <3>4, <3>5 DEF WentTo, After
    <3>. QED  BY <3>1, <3>6 DEF LapInv
  <2>. QED  BY <2>2, <2>5, <2>6, NAssumption
<1>. QED  BY <1>2, <1>3

LEMMA SearchStep == SearchInv /\ [Next]_vars => SearchInv'
<1>. SUFFICES ASSUME SearchInv, [Next]_vars
              PROVE  NoProviderSkipped' /\ LapInv' /\ UntriedUsable'
  BY TypeStep DEF SearchInv
<1>. USE DEF SearchInv
<1>1. CASE UNCHANGED <<apiKey, failCount, activeProvider, pc, attempts, due, tried>>
  BY <1>1 DEF NoProviderSkipped, LapInv, UntriedUsable, WentTo, Usable
<1>2. CASE pc' \in {"idle", "answering"}
  BY <1>2 DEF NoProviderSkipped, LapInv, UntriedUsable
<1>3. CASE StartCall
  <2>1. NoProviderSkipped' /\ UntriedUsable'
    BY <1>3 DEF StartCall, NoProviderSkipped, UntriedUsable, Usable, cloudVars
  <2>2. 0 \in 0 .. N /\ 0 \in 0 .. N - 1 /\ activeProvider \in Cloud
    BY NAssumption DEF TypeOK
  <2>3. After(activeProvider, 0) = activeProvider
    BY <2>2, AfterIs, NAssumption DEF Cloud
  <2>4. WentTo(activeProvider, 0)'
    BY <1>3, <2>3 DEF StartCall, WentTo, After, cloudVars
  <2>5. LapInv'
    <3>1. 0 \in attempts' .. N - 1 /\ activeProvider' = activeProvider
      BY <1>3, <2>2 DEF StartCall, cloudVars
    <3>. QED  BY <2>2, <2>4, <3>1 DEF LapInv
  <2>. QED  BY <2>1, <2>5
<1>4. ASSUME NEW p \in Cloud, TryProvider(p)
      PROVE  NoProviderSkipped' /\ LapInv' /\ UntriedUsable'
  <2>1. CASE Succeeded(p)
    BY <1>2, <2>1 DEF Succeeded
  <2>2. CASE Failed(p)
    <3>1. LapInv'
      BY <1>4, <2>2, FailureMovesOn DEF TryProvider
    <3>2. UntriedUsable'
      BY <1>4, <2>2 DEF TryProvider, Failed, UntriedUsable, Usable, TypeOK
    <3>3. NoProviderSkipped'
      BY <1>4, <2>2 DEF TryProvider, Failed, NoProviderSkipped
    <3>. QED  BY <3>1, <3>2, <3>3
  <2>. QED  BY <1>4, <2>1, <2>2 DEF TryProvider
<1>5. CASE GiveUp
  <2>1. due \subseteq tried
    <3>1. CASE attempts = N
      <4>1. attempts .. N - 1 = {}
        BY <3>1, NAssumption
      <4>. QED  BY <1>5, <4>1 DEF GiveUp, LapInv
    <3>2. CASE \A p \in Cloud : ~ Usable(p)
      BY <1>5, <3>2 DEF GiveUp, UntriedUsable, TypeOK
    <3>. QED  BY <1>5, <3>1, <3>2 DEF GiveUp
  <2>. QED
    BY <1>5, <2>1 DEF GiveUp, callVars, NoProviderSkipped, LapInv, UntriedUsable
<1>6. CASE Command
  BY <1>2, <1>6 DEF Command, SetKey, SetModel, messageVars
<1>7. CASE TelegramMessage \/ TerminalMessage \/ Reply \/ Restart
  BY <1>2, <1>7 DEF TelegramMessage, TerminalMessage, Reply, Restart
<1>8. CASE Midnight \/ UNCHANGED vars
  BY <1>1, <1>8 DEF Midnight, vars, cloudVars, messageVars, callVars
<1>. QED  BY <1>3, <1>4, <1>5, <1>6, <1>7, <1>8 DEF Next, Handle

(* A call of generate() gives up only after every provider that was usable    *)
(* when it began was called.                                                  *)
THEOREM NobodySkipped == Spec => []NoProviderSkipped
<1>1. SearchInv => NoProviderSkipped
  BY DEF SearchInv
<1>. QED  BY <1>1, SearchInit, SearchStep, PTL DEF Spec

(* As long as a usable provider has not been called, the next one called is   *)
(* one that has not been called either.                                       *)
LEMMA NextIsNew == SearchInv => OthersFirst
<1>. SUFFICES ASSUME SearchInv, pc = "trying", attempts < N,
                     NEW p \in tried, IsNext(p), NEW q \in due, q \notin tried
              PROVE  FALSE
  BY DEF OthersFirst
<1>1. PICK s \in Cloud, off \in attempts .. N - 1 : WentTo(s, off)
  BY DEF SearchInv, LapInv
<1>2. off \in 0 .. N - 1
  BY <1>1, NAssumption DEF SearchInv, TypeOK
<1>3. PICK i \in 0 .. N - 1 :
        /\ p = After(activeProvider, i)
        /\ \A j \in 0 .. i - 1 : ~ Usable(After(activeProvider, j))
  BY DEF IsNext
<1>4. q \in Cloud /\ Usable(q)
  BY DEF SearchInv, TypeOK, UntriedUsable
<1>5. PICK j \in 0 .. N - 1 : q = After(s, j)
  BY <1>4, AfterReaches
<1>6. off <= j
  <2>1. CASE j < off
    <3>1. j \in 0 .. off - 1
      BY <1>2, <2>1, NAssumption
    <3>. QED  BY <1>1, <1>5, <3>1 DEF WentTo
  <2>. QED  BY <1>2, <2>1, NAssumption
<1>7. i <= j - off
  <2>1. q = After(activeProvider, j - off)
    BY <1>1, <1>2, <1>5, <1>6, NextAhead
  <2>2. CASE j - off < i
    <3>1. j - off \in 0 .. i - 1
      BY <1>2, <1>6, <2>2, NAssumption
    <3>. QED  BY <1>3, <1>4, <2>1, <3>1
  <2>. QED  BY <1>2, <2>2, NAssumption
<1>8. off + i \in 0 .. N - 1 /\ off <= off + i /\ (off + i) - off = i
  BY <1>2, <1>7, NAssumption
<1>9. p = After(s, off + i)
  BY <1>1, <1>2, <1>3, <1>8, NextAhead
<1>10. PICK k \in 0 .. off - 1 : p = After(s, k)
  BY <1>1 DEF WentTo
<1>11. k \in 0 .. N - 1 /\ k # off + i
  BY <1>2, NAssumption
<1>. QED  BY <1>8, <1>9, <1>10, <1>11, AfterInjective

(* No provider is called twice in one call while another usable one waits. *)
THEOREM OthersComeFirst == Spec => []OthersFirst
BY NextIsNew, SearchInit, SearchStep, PTL DEF Spec
=============================================================================
