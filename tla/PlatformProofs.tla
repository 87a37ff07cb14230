--------------------------- MODULE PlatformProofs ---------------------------
(***************************************************************************)
(* What the kernel of the demo, the network stack, the permission manager, *)
(* the encrypted shards, the vector search, the synchronisation of         *)
(* knowledge, the memory snapshots, the weight pager and the tool loop     *)
(* promise, for every value of their constants.  Each part gives the       *)
(* inductive invariant first, then a lemma for each step, then the theorem.*)
(***************************************************************************)
EXTENDS Permissions, DemoKernel, TokenScheduler, NetworkStack, KnowledgeSync,
        EncryptedShards, VectorSearch, CowSnapshots, WeightPager, ToolLoop, DataLemmas

-----------------------------------------------------------------------------
(* Permissions                                                             *)

UserRecord == [level : Levels, caps : SUBSET Ruling, locked : BOOLEAN]

UsersOK ==
    /\ DOMAIN users \subseteq Names
    /\ users \in [DOMAIN users -> UserRecord]

(* What makes the invariant inductive: a name that holds ROOT is trusted,   *)
(* capabilities come from the level or from a grant, a grant of             *)
(* CAN_ESCALATE is remembered as trust, and only trusted names escalate.    *)
RootsTrusted      == \A n \in DOMAIN users : users[n].level = "ROOT" => n \in trusted
CapabilitiesKnown == \A n \in DOMAIN users : \A cap \in users[n].caps :
                         cap \in DefaultCapabilities[users[n].level] \/ <<n, cap>> \in given
GrantsRemembered  == \A n \in Names : <<n, "CAN_ESCALATE">> \in given => n \in trusted
TokensTrusted     == \A t \in tokens : t.name \in trusted

PermInv == UsersOK /\ RootsTrusted /\ CapabilitiesKnown /\ GrantsRemembered /\ TokensTrusted

(* No level but ROOT comes with CAN_ESCALATE (permissions.cpp:193-221).     *)
LEMMA LevelsLend ==
    /\ \A level \in Levels : DefaultCapabilities[level] \subseteq Ruling
    /\ \A level \in Levels : "CAN_ESCALATE" \in DefaultCapabilities[level] => level = "ROOT"
BY DEF Levels, DefaultCapabilities, Reading, Running, Working, Serving, Ruling

LEMMA NewUserType ==
    ASSUME NEW level \in Levels
    PROVE  /\ NewUser(level) \in UserRecord
           /\ NewUser(level).level = level
           /\ NewUser(level).caps = DefaultCapabilities[level]
BY LevelsLend DEF NewUser, UserRecord

LEMMA PermInitial == PermInit => PermInv
<1> SUFFICES ASSUME PermInit PROVE PermInv
  OBVIOUS
<1>1. "ROOT" \in Levels /\ "SYSTEM" \in Levels
  BY DEF Levels
<1>2. /\ DOMAIN users = {"root", "system"}
      /\ users["root"] = NewUser("ROOT")
      /\ users["system"] = NewUser("SYSTEM")
      /\ users \in [DOMAIN users -> UserRecord]
  BY <1>1, NewUserType DEF PermInit
<1>3. UsersOK
  BY <1>2, PermissionsAssumption DEF UsersOK, PermissionsAssumption
<1>4. RootsTrusted
  BY <1>1, <1>2, NewUserType DEF RootsTrusted, PermInit
<1>5. CapabilitiesKnown
  BY <1>1, <1>2, NewUserType DEF CapabilitiesKnown
<1>6. GrantsRemembered /\ TokensTrusted
  BY DEF GrantsRemembered, TokensTrusted, PermInit
<1> QED
  BY <1>3, <1>4, <1>5, <1>6 DEF PermInv

LEMMA PermKept == PermInv /\ [PermNext]_permVars => PermInv'
<1> SUFFICES ASSUME PermInv, [PermNext]_permVars PROVE PermInv'
  OBVIOUS
<1> USE DEF PermInv
<1>1. ASSUME NEW n \in Names, NEW level \in Levels, CreateUser(n, level)
      PROVE  PermInv'
  <2> USE <1>1
  <2>1. /\ DOMAIN users' = DOMAIN users \cup {n}
        /\ users'[n] = NewUser(level)
        /\ \A m \in DOMAIN users : m # n /\ users'[m] = users[m]
        /\ \A m \in DOMAIN users' : m = n \/ m \in DOMAIN users
        /\ users' = [m \in DOMAIN users' |-> users'[m]]
    BY DEF CreateUser
  <2>2. \A m \in DOMAIN users' : users'[m] \in UserRecord
    BY <2>1, NewUserType DEF UsersOK
  <2>3. UsersOK'
    BY <2>1, <2>2 DEF UsersOK
  <2>4. RootsTrusted'
    <3> SUFFICES ASSUME NEW m \in DOMAIN users', users'[m].level = "ROOT"
                 PROVE  m \in trusted'
      BY DEF RootsTrusted
    <3>1. CASE m = n
      BY <3>1, <2>1, NewUserType DEF CreateUser
    <3>2. CASE m # n
      BY <3>2, <2>1 DEF CreateUser, RootsTrusted
    <3> QED
      BY <3>1, <3>2
  <2>5. CapabilitiesKnown'
    <3> SUFFICES ASSUME NEW m \in DOMAIN users', NEW cap \in users'[m].caps
                 PROVE  cap \in DefaultCapabilities[users'[m].level] \/ <<m, cap>> \in given'
      BY DEF CapabilitiesKnown
    <3>1. CASE m = n
      BY <3>1, <2>1, NewUserType
    <3>2. CASE m # n
      BY <3>2, <2>1 DEF CreateUser, CapabilitiesKnown
    <3> QED
      BY <3>1, <3>2
  <2>6. GrantsRemembered' /\ TokensTrusted'
    BY DEF GrantsRemembered, TokensTrusted, CreateUser
  <2> QED
    BY <2>3, <2>4, <2>5, <2>6
<1>2. ASSUME NEW n \in Names, DeleteUser(n)
      PROVE  PermInv'
  BY <1>2 DEF DeleteUser, UsersOK, RootsTrusted, CapabilitiesKnown, GrantsRemembered, TokensTrusted
<1>3. ASSUME NEW g \in Grants, GrantCapability(g[1], g[2])
      PROVE  PermInv'
  <2> DEFINE n == g[1]
             cap == g[2]
  <2>1. n \in Names /\ cap \in Ruling
    BY PermissionsAssumption DEF PermissionsAssumption
  <2>2. /\ n \in DOMAIN users
        /\ users' = [users EXCEPT ![n].caps = users[n].caps \cup {cap}]
        /\ given' = given \cup {<<n, cap>>}
        /\ trusted' = IF cap = "CAN_ESCALATE" THEN trusted \cup {n} ELSE trusted
        /\ tokens' = tokens
    BY <1>3 DEF GrantCapability
  <2> HIDE DEF n, cap
  <2>3. /\ DOMAIN users' = DOMAIN users
        /\ \A m \in DOMAIN users : m # n => users'[m] = users[m]
        /\ users'[n] = [users[n] EXCEPT !.caps = users[n].caps \cup {cap}]
        /\ users' \in [DOMAIN users -> UserRecord]
    BY <2>1, <2>2 DEF UsersOK, UserRecord
  <2>4. /\ users'[n].level = users[n].level
        /\ users'[n].caps = users[n].caps \cup {cap}
    BY <2>2, <2>3 DEF UsersOK, UserRecord
  <2>5. UsersOK'
    BY <2>3 DEF UsersOK
  <2>6. RootsTrusted'
    BY <2>2, <2>3, <2>4 DEF RootsTrusted
  <2>7. CapabilitiesKnown'
    BY <2>2, <2>3, <2>4 DEF CapabilitiesKnown
  <2>8. GrantsRemembered' /\ TokensTrusted'
    BY <2>2 DEF GrantsRemembered, TokensTrusted
  <2> QED
    BY <2>5, <2>6, <2>7, <2>8
<1>4. ASSUME NEW g \in Grants, RevokeCapability(g[1], g[2])
      PROVE  PermInv'
  <2> DEFINE n == g[1]
             cap == g[2]
  <2>1. /\ n \in DOMAIN users
        /\ users' = [users EXCEPT ![n].caps = users[n].caps \ {cap}]
        /\ UNCHANGED <<tokens, trusted, given>>
    BY <1>4 DEF RevokeCapability
  <2> HIDE DEF n, cap
  <2>2. /\ DOMAIN users' = DOMAIN users
        /\ \A m \in DOMAIN users : m # n => users'[m] = users[m]
        /\ users'[n] = [users[n] EXCEPT !.caps = users[n].caps \ {cap}]
        /\ users' \in [DOMAIN users -> UserRecord]
    BY <2>1 DEF UsersOK, UserRecord
  <2>3. /\ users'[n].level = users[n].level
        /\ users'[n].caps = users[n].caps \ {cap}
    BY <2>1, <2>2 DEF UsersOK, UserRecord
  <2> QED
    BY <2>1, <2>2, <2>3
       DEF UsersOK, RootsTrusted, CapabilitiesKnown, GrantsRemembered, TokensTrusted
<1>5. ASSUME NEW n \in Names, NEW level \in Levels, Escalate(n, level)
      PROVE  PermInv'
  <2> USE <1>5
  <2>1. n \in trusted
    <3>1. CASE users[n].level = "ROOT"
      BY <3>1 DEF RootsTrusted, Escalate
    <3>2. CASE HasCapability(n, "CAN_ESCALATE")
      <4>1. CASE "CAN_ESCALATE" \in Lent(n)
        <5>1. PICK t \in tokens : t.name = n
          BY <4>1 DEF Lent
        <5> QED
          BY <5>1 DEF TokensTrusted
      <4>2. CASE "CAN_ESCALATE" \in users[n].caps
        BY <4>2, LevelsLend
           DEF Escalate, CapabilitiesKnown, RootsTrusted, GrantsRemembered, UsersOK, UserRecord
      <4> QED
        BY <3>2, <4>1, <4>2 DEF HasCapability
    <3> QED
      BY <3>1, <3>2 DEF Escalate
  <2> QED
    BY <2>1 DEF Escalate, UsersOK, RootsTrusted, CapabilitiesKnown, GrantsRemembered, TokensTrusted
<1>6. ASSUME NEW n \in Names, LockUser(n) \/ UnlockUser(n)
      PROVE  PermInv'
  <2>1. PICK b \in BOOLEAN :
           /\ n \in DOMAIN users
           /\ users' = [users EXCEPT ![n].locked = b]
           /\ UNCHANGED <<tokens, trusted, given>>
    BY <1>6 DEF LockUser, UnlockUser
  <2>2. /\ DOMAIN users' = DOMAIN users
        /\ users' \in [DOMAIN users -> UserRecord]
        /\ \A m \in DOMAIN users : /\ users'[m].level = users[m].level
                                   /\ users'[m].caps = users[m].caps
    BY <2>1 DEF UsersOK, UserRecord
  <2> QED
    BY <2>1, <2>2
       DEF UsersOK, RootsTrusted, CapabilitiesKnown, GrantsRemembered, TokensTrusted
<1>7. ASSUME ExpireEscalations \/ \E t \in tokens : DropEscalation(t)
      PROVE  PermInv'
  BY <1>7 DEF ExpireEscalations, DropEscalation,
              UsersOK, RootsTrusted, CapabilitiesKnown, GrantsRemembered, TokensTrusted
<1>8. ASSUME Second
      PROVE  PermInv'
  <2>1. TokensTrusted'
    <3> SUFFICES ASSUME NEW t \in tokens
                 PROVE  [t EXCEPT !.left = IF @ = 0 THEN 0 ELSE @ - 1].name \in trusted
      BY <1>8 DEF TokensTrusted, Second
    <3> QED
      BY DEF TokensTrusted
  <2> QED
    BY <1>8, <2>1 DEF Second, UsersOK, RootsTrusted, CapabilitiesKnown, GrantsRemembered
<1>9. ASSUME \E p \in Paths, flags \in FlagSets : SetFilePermissions(p, flags)
      PROVE  PermInv'
  BY <1>9 DEF SetFilePermissions,
              UsersOK, RootsTrusted, CapabilitiesKnown, GrantsRemembered, TokensTrusted
<1>10. CASE UNCHANGED permVars
  BY <1>10 DEF permVars, UsersOK, RootsTrusted, CapabilitiesKnown, GrantsRemembered, TokensTrusted
<1> QED
  BY <1>1, <1>2, <1>3, <1>4, <1>5, <1>6, <1>7, <1>8, <1>9, <1>10 DEF PermNext

LEMMA PermInvImplies == PermInv => OnlyTrustedElevated
<1> SUFFICES ASSUME PermInv, NEW n \in DOMAIN users \ trusted
             PROVE  /\ Lent(n) \cup users[n].caps \subseteq
                          DefaultCapabilities[users[n].level] \cup {cap \in Ruling : <<n, cap>> \in given}
                    /\ \A p \in Paths : \A flags \in otherFlags[p] :
                          \A m \in Modes \ flags : ~CheckFileAccess(n, p, {m})
  BY DEF OnlyTrustedElevated
<1>1. Lent(n) = {}
  BY DEF Lent, PermInv, TokensTrusted
<1>2. users[n].caps \subseteq Ruling
  BY DEF PermInv, UsersOK, UserRecord
<1>3. users[n].level # "ROOT"
  BY DEF PermInv, RootsTrusted
<1>4. ASSUME NEW p \in Paths, NEW flags \in otherFlags[p], NEW m \in Modes \ flags
      PROVE  ~CheckFileAccess(n, p, {m})
  BY <1>3 DEF CheckFileAccess
<1>5. \A cap \in users[n].caps :
         cap \in DefaultCapabilities[users[n].level] \/ <<n, cap>> \in given
  BY DEF PermInv, CapabilitiesKnown
<1> QED
  BY <1>1, <1>2, <1>4, <1>5

(* Whatever is created, deleted, granted, escalated, locked or waited for,  *)
(* what a name holds beyond its level it was trusted with                  *)
(* (permissions.cpp:236-456).                                              *)
THEOREM ElevationTrusted == PermSpec => []OnlyTrustedElevated
<1>1. PermSpec => []PermInv
  BY PermInitial, PermKept, PTL DEF PermSpec
<1> QED
  BY <1>1, PermInvImplies, PTL

-----------------------------------------------------------------------------
(* The kernel of the demo                                                  *)

(* What makes KernelKeepsUp inductive: a zombie, or a dirty block, has been  *)
(* so for no more ticks than its event's countdown has gone down, and the    *)
(* history of all others is empty; nothing is in the tables before the boot  *)
(* has put it there, and numbers of processes are new.                       *)
ZombieOf(p) == p \in DOMAIN procs /\ procs[p] = "ZOMBIE"
Unwritten(b) == b \in DOMAIN cache /\ cache[b]

KernelTypes ==
    /\ \A e \in Events : countdown[e] \in 1 .. Interval[e]
    /\ countdown = [e \in Events |-> countdown[e]]
    /\ deadFor \in [1 .. MaxPids -> Nat] /\ dirtyFor \in [Blocks -> Nat]
    /\ DOMAIN cache \subseteq Blocks
    /\ nextPid \in Nat /\ \A p \in DOMAIN procs : p \in Nat /\ p < nextPid

TablesFollowBoot ==
    /\ kernelPhase = "drivers" => DOMAIN procs = {}
    /\ kernelPhase \in {"drivers", "boot queue"} => DOMAIN cache = {}

ZombiesCounted ==
    /\ \A p \in DOMAIN procs : procs[p] = "ZOMBIE" => p \in 1 .. MaxPids
    /\ \A p \in 1 .. MaxPids :
          IF ZombieOf(p) THEN deadFor[p] + countdown["reap_zombies"] <= Interval["reap_zombies"]
                       ELSE deadFor[p] = 0

DirtyCounted ==
    \A b \in Blocks :
       IF Unwritten(b) THEN dirtyFor[b] + countdown["disk_flush"] <= Interval["disk_flush"]
                   ELSE dirtyFor[b] = 0

HaltedClean == kernelPhase = "halted" => \A b \in DOMAIN cache : ~cache[b]

KernelInv ==
    KernelTypes /\ TablesFollowBoot /\ ZombiesCounted /\ DirtyCounted /\ HaltedClean

LEMMA KernelInitial == KernelInit => KernelInv
<1> SUFFICES ASSUME KernelInit PROVE KernelInv
  OBVIOUS
<1> USE KernelAssumption DEF KernelInit
<1>1. KernelTypes
  BY DEF KernelTypes, KernelAssumption
<1>2. TablesFollowBoot /\ ZombiesCounted /\ DirtyCounted /\ HaltedClean
  BY DEF TablesFollowBoot, ZombiesCounted, DirtyCounted, HaltedClean, ZombieOf, Unwritten
<1> QED
  BY <1>1, <1>2 DEF KernelInv

LEMMA KernelBootKept == KernelInv /\ KernelBoot => KernelInv'
<1> SUFFICES ASSUME KernelInv, KernelBoot PROVE KernelInv'
  OBVIOUS
<1>1. DOMAIN procs = {} /\ DOMAIN cache = {}
  BY DEF KernelInv, TablesFollowBoot, KernelBoot
<1>2. /\ procs' = [p \in 1 .. BootProcesses |-> "RUNNING"] /\ nextPid' = BootProcesses + 1
      /\ kernelPhase' = "boot queue"
      /\ UNCHANGED <<cache, dirtyFor, countdown, deadFor>>
  BY DEF KernelBoot, diskVars
<1>3. nextPid' \in Nat /\ \A p \in DOMAIN procs' : p \in Nat /\ p < nextPid'
  <2>1. BootProcesses \in Nat
    BY KernelAssumption
  <2>2. nextPid' = BootProcesses + 1 /\ DOMAIN procs' = 1 .. BootProcesses
    BY <1>2
  <2> QED
    BY <2>1, <2>2
<1>4. KernelTypes'
  BY <1>2, <1>3 DEF KernelInv, KernelTypes
<1>5. ZombiesCounted'
  BY <1>1, <1>2 DEF KernelInv, ZombiesCounted, ZombieOf
<1>6. TablesFollowBoot' /\ DirtyCounted' /\ HaltedClean'
  BY <1>1, <1>2 DEF KernelInv, TablesFollowBoot, DirtyCounted, HaltedClean, Unwritten
<1> QED
  BY <1>4, <1>5, <1>6 DEF KernelInv

LEMMA WriteBootBlocksKept == KernelInv /\ WriteBootBlocks => KernelInv'
<1> SUFFICES ASSUME KernelInv, WriteBootBlocks PROVE KernelInv'
  OBVIOUS
<1> USE KernelAssumption DEF KernelInv, KernelAssumption, WriteBootBlocks, tableVars
<1>1. KernelTypes'
  BY DEF KernelTypes
<1>2. ZombiesCounted'
  BY DEF ZombiesCounted, ZombieOf
<1>3. TablesFollowBoot' /\ DirtyCounted' /\ HaltedClean'
  BY DEF TablesFollowBoot, DirtyCounted, HaltedClean, Unwritten
<1> QED
  BY <1>1, <1>2, <1>3

(* The one step in which time passes: what is not due has its countdown go   *)
(* down by the tick that its zombies and blocks grow older by, and what is   *)
(* due leaves none behind.                                                   *)
LEMMA KernelTickKept == KernelInv /\ KernelTick => KernelInv'
<1> SUFFICES ASSUME KernelInv, KernelTick PROVE KernelInv'
  OBVIOUS
<1> USE KernelAssumption DEF KernelInv, KernelAssumption, KernelTick, Elapse, Due
<1>1. /\ procs' = IF countdown["reap_zombies"] = 1 THEN Reaped ELSE procs
      /\ cache' = IF countdown["disk_flush"] = 1 THEN Flushed ELSE cache
      /\ \A e \in Events : countdown'[e] = IF countdown[e] = 1 THEN Interval[e]
                                           ELSE countdown[e] - 1
  BY DEF Events
<1>2. /\ \A e \in Events : countdown'[e] \in 1 .. Interval'[e]
      /\ countdown' = [e \in Events |-> countdown'[e]]
  BY <1>1 DEF KernelTypes
<1>3. /\ deadFor' \in [1 .. MaxPids -> Nat] /\ dirtyFor' \in [Blocks -> Nat]
      /\ DOMAIN cache' \subseteq Blocks
      /\ \A p \in DOMAIN procs' : p \in Nat /\ p < nextPid
  BY <1>1 DEF KernelTypes, Reaped, Flushed
<1>4. ZombiesCounted'
  <2>1. \A p : ZombieOf(p)' => ZombieOf(p) /\ countdown["reap_zombies"] # 1
    BY <1>1 DEF ZombieOf, Reaped
  <2>2. ASSUME NEW p \in 1 .. MaxPids
        PROVE  deadFor'[p] = IF ZombieOf(p)' THEN deadFor[p] + 1 ELSE 0
    BY <2>2 DEF ZombieOf
  <2>3. "reap_zombies" \in Events
    BY DEF Events
  <2>4. ASSUME NEW p \in 1 .. MaxPids, ZombieOf(p)'
        PROVE  deadFor'[p] + countdown'["reap_zombies"] <= Interval["reap_zombies"]
    BY <2>1, <2>2, <2>3, <2>4, <1>1 DEF ZombiesCounted, KernelTypes
  <2> QED
    BY <2>1, <2>2, <2>4 DEF ZombiesCounted, ZombieOf
<1>5. DirtyCounted'
  <2>1. \A b : Unwritten(b)' => Unwritten(b) /\ countdown["disk_flush"] # 1
    BY <1>1 DEF Unwritten, Flushed
  <2>2. ASSUME NEW b \in Blocks
        PROVE  dirtyFor'[b] = IF Unwritten(b)' THEN dirtyFor[b] + 1 ELSE 0
    BY <2>2 DEF Unwritten
  <2>3. "disk_flush" \in Events
    BY DEF Events
  <2>4. ASSUME NEW b \in Blocks, Unwritten(b)'
        PROVE  dirtyFor'[b] + countdown'["disk_flush"] <= Interval["disk_flush"]
    BY <2>1, <2>2, <2>3, <2>4, <1>1 DEF DirtyCounted, KernelTypes
  <2> QED
    BY <2>2, <2>4 DEF DirtyCounted
<1>6. TablesFollowBoot' /\ HaltedClean'
  BY DEF TablesFollowBoot, HaltedClean
<1>7. KernelTypes'
  BY <1>2, <1>3 DEF KernelTypes
<1> QED
  BY <1>4, <1>5, <1>6, <1>7

LEMMA FlushKept == KernelInv /\ (Flush \/ Halt) => KernelInv'
<1> SUFFICES ASSUME KernelInv, Flush \/ Halt PROVE KernelInv'
  OBVIOUS
<1> USE DEF KernelInv
<1>1. /\ cache' = Flushed /\ dirtyFor' = [b \in Blocks |-> 0]
      /\ UNCHANGED <<procs, nextPid, deadFor, countdown>>
      /\ kernelPhase = "shell" /\ kernelPhase' \in {"shell", "halted"}
  BY DEF Flush, Halt, tableVars
<1>2. KernelTypes'
  BY <1>1 DEF KernelTypes, Flushed
<1>3. ZombiesCounted'
  BY <1>1 DEF ZombiesCounted, ZombieOf
<1>4. TablesFollowBoot' /\ DirtyCounted' /\ HaltedClean'
  BY <1>1 DEF TablesFollowBoot, DirtyCounted, HaltedClean, Unwritten, Flushed
<1> QED
  BY <1>2, <1>3, <1>4

LEMMA KernelCallKept == KernelInv /\ KernelCall => KernelInv'
<1> SUFFICES ASSUME KernelInv, KernelCall PROVE KernelInv'
  OBVIOUS
<1> USE DEF KernelInv
<1>0. kernelPhase = "shell" /\ kernelPhase' = "shell" /\ countdown' = countdown
  BY DEF KernelCall
<1>a. TablesFollowBoot' /\ HaltedClean'
  BY <1>0 DEF TablesFollowBoot, HaltedClean
<1>1. CASE Create
  <2> USE <1>1 DEF Create, diskVars
  <2>1. KernelTypes'
    BY <1>0 DEF KernelTypes
  <2>2. \A p : ZombieOf(p)' <=> ZombieOf(p)
    BY DEF ZombieOf, KernelTypes
  <2>3. ZombiesCounted'
    BY <1>0, <2>2 DEF ZombiesCounted, ZombieOf
  <2>4. DirtyCounted'
    BY <1>0 DEF DirtyCounted, Unwritten
  <2> QED
    BY <1>a, <2>1, <2>3, <2>4
<1>2. CASE SignalKernelBurst \/ ClearKernelBurst \/ \E t \in BootTasks : Add(t)
  <2>1. UNCHANGED <<procs, nextPid, deadFor, cache, dirtyFor>>
    BY <1>2 DEF SignalKernelBurst, ClearKernelBurst, Add, tableVars, diskVars
  <2> QED
    BY <1>0, <1>a, <2>1 DEF KernelTypes, ZombiesCounted, DirtyCounted, ZombieOf, Unwritten
<1>3. ASSUME NEW p \in 1 .. MaxPids, NEW from, NEW to \in {"ZOMBIE", "SLEEPING", "RUNNING"},
             "ZOMBIE" \notin from, Becomes(p, from, to)
      PROVE  KernelInv'
  <2> USE <1>3 DEF Becomes, diskVars
  <2>1. KernelTypes'
    BY <1>0 DEF KernelTypes
  <2>2. \A q : q # p => (ZombieOf(q)' <=> ZombieOf(q))
    BY DEF ZombieOf
  <2>3. ~ZombieOf(p)
    BY DEF ZombieOf
  <2>4. \A e \in Events : countdown[e] <= Interval[e]
    BY KernelAssumption DEF KernelTypes, KernelAssumption
  <2>5. ZombiesCounted'
    <3>1. deadFor[p] = 0 /\ countdown["reap_zombies"] <= Interval["reap_zombies"]
      BY <2>3, <2>4 DEF ZombiesCounted, Events
    <3>2. \A q \in DOMAIN procs' : procs'[q] = "ZOMBIE" => q \in 1 .. MaxPids
      BY DEF ZombiesCounted
    <3>3. deadFor[p] + countdown["reap_zombies"] <= Interval["reap_zombies"]
      BY <3>1, KernelAssumption DEF KernelTypes, KernelAssumption, Events
    <3> QED
      BY <1>0, <2>2, <3>1, <3>2, <3>3 DEF ZombiesCounted
  <2>6. DirtyCounted'
    BY <1>0 DEF DirtyCounted, Unwritten
  <2> QED
    BY <1>a, <2>1, <2>5, <2>6
<1>4. ASSUME NEW b \in Blocks, WriteBlock(b)
      PROVE  KernelInv'
  <2> USE <1>4 DEF WriteBlock, tableVars
  <2>1. KernelTypes'
    BY <1>0 DEF KernelTypes
  <2>2. \A c : c # b => (Unwritten(c)' <=> Unwritten(c))
    BY DEF Unwritten
  <2>3. Unwritten(b)'
    BY DEF Unwritten
  <2>4. dirtyFor[b] + countdown["disk_flush"] <= Interval["disk_flush"]
    BY KernelAssumption DEF DirtyCounted, KernelTypes, KernelAssumption, Events
  <2>5. DirtyCounted'
    BY <1>0, <2>2, <2>3, <2>4 DEF DirtyCounted
  <2>6. ZombiesCounted'
    BY <1>0 DEF ZombiesCounted, ZombieOf
  <2> QED
    BY <1>a, <2>1, <2>5, <2>6
<1>5. ASSUME NEW b \in Blocks, ClearBlock(b)
      PROVE  KernelInv'
  <2> USE <1>5 DEF ClearBlock, tableVars
  <2>1. KernelTypes'
    BY <1>0 DEF KernelTypes
  <2>2. \A c : Unwritten(c)' <=> c # b /\ Unwritten(c)
    BY DEF Unwritten
  <2>3. DirtyCounted'
    BY <1>0, <2>2 DEF DirtyCounted, KernelTypes
  <2>4. ZombiesCounted'
    BY <1>0 DEF ZombiesCounted, ZombieOf
  <2> QED
    BY <1>a, <2>1, <2>3, <2>4
<1>6. CASE \E p \in 1 .. MaxPids : \/ Becomes(p, {"RUNNING", "SLEEPING"}, "ZOMBIE")
                                   \/ Becomes(p, {"RUNNING"}, "SLEEPING")
                                   \/ Becomes(p, {"SLEEPING"}, "RUNNING")
  <2> PICK p \in 1 .. MaxPids : \/ Becomes(p, {"RUNNING", "SLEEPING"}, "ZOMBIE")
                                \/ Becomes(p, {"RUNNING"}, "SLEEPING")
                                \/ Becomes(p, {"SLEEPING"}, "RUNNING")
    BY <1>6
  <2>1. CASE Becomes(p, {"RUNNING", "SLEEPING"}, "ZOMBIE")
    BY <1>3, <2>1
  <2>2. CASE Becomes(p, {"RUNNING"}, "SLEEPING")
    BY <1>3, <2>2
  <2>3. CASE Becomes(p, {"SLEEPING"}, "RUNNING")
    BY <1>3, <2>3
  <2> QED
    BY <2>1, <2>2, <2>3
<1> QED
  BY <1>1, <1>2, <1>4, <1>5, <1>6 DEF KernelCall

LEMMA KernelKept == KernelInv /\ [KernelNext]_kernelVars => KernelInv'
<1> SUFFICES ASSUME KernelInv, [KernelNext]_kernelVars PROVE KernelInv'
  OBVIOUS
<1>1. CASE Drain \/ Panic \/ UNCHANGED kernelVars
  <2>1. UNCHANGED <<procs, nextPid, deadFor, cache, dirtyFor, countdown>>
    BY <1>1 DEF Drain, Panic, kernelVars, tableVars, diskVars
  <2>2. kernelPhase' = kernelPhase \/ kernelPhase' = "panic"
    BY <1>1 DEF Drain, Panic, kernelVars
  <2> QED
    BY <2>1, <2>2 DEF KernelInv, KernelTypes, TablesFollowBoot, ZombiesCounted, DirtyCounted,
                      HaltedClean, ZombieOf, Unwritten
<1> QED
  BY <1>1, KernelBootKept, WriteBootBlocksKept, KernelTickKept, FlushKept, KernelCallKept
  DEF KernelNext

LEMMA KernelInvImplies == KernelInv => KernelKeepsUp
<1> SUFFICES ASSUME KernelInv PROVE KernelKeepsUp
  OBVIOUS
<1> USE KernelAssumption DEF KernelInv, KernelAssumption
<1>1. /\ \A p \in DOMAIN procs : procs[p] = "ZOMBIE" => deadFor[p] < Interval["reap_zombies"]
  BY DEF ZombiesCounted, KernelTypes, ZombieOf, Events
<1>2. \A b \in DOMAIN cache : cache[b] => dirtyFor[b] < Interval["disk_flush"]
  BY DEF DirtyCounted, KernelTypes, Unwritten, Events
<1> QED
  BY <1>1, <1>2 DEF KernelKeepsUp, HaltedClean

(* Whatever the intervals, the tasks and the processes of the boot: zombies  *)
(* are reaped and blocks flushed before their interval has passed once, and  *)
(* nothing is dirty after a halt (timer_driver.cpp:34,                       *)
(* kernel_main.cpp:70-82, 122-125).                                         *)
THEOREM TimerKeepsUp == KernelSpec => []KernelKeepsUp
<1>1. KernelSpec => []KernelInv
  BY KernelInitial, KernelKept, PTL DEF KernelSpec
<1> QED
  BY <1>1, KernelInvImplies, PTL

-----------------------------------------------------------------------------
(* The token scheduler                                                     *)

(* What makes TasksAccounted inductive: the queues share no task, and every  *)
(* number is one that a submission has given.                                *)
TokTypes ==
    /\ submitted \in Nat /\ totalTasksRun \in Nat
    /\ IsFiniteSet(taskQueue) /\ IsFiniteSet(deferredTasks) /\ IsFiniteSet(refused)

TokInv == TokTypes /\ TasksAccounted /\ taskQueue \cap deferredTasks = {}

LEMMA TokInitial == TokInit => TokInv
BY FS_EmptySet DEF TokInit, TokInv, TokTypes, TasksAccounted, Numbers

LEMMA SignalKept == TokInv /\ SignalAIBurst => TokInv'
<1> SUFFICES ASSUME TokInv, SignalAIBurst PROVE TokInv'
  OBVIOUS
<1> DEFINE yielded == {t \in taskQueue : Yields(t.priority)}
<1>1. /\ deferredTasks' = deferredTasks \cup yielded /\ taskQueue' = taskQueue \ yielded
      /\ aiBurstActive' = TRUE
      /\ UNCHANGED <<submitted, totalTasksRun, refused, ran>>
  BY DEF SignalAIBurst
<1>2. /\ IsFiniteSet(yielded) /\ Cardinality(yielded) \in Nat
      /\ IsFiniteSet(taskQueue') /\ IsFiniteSet(deferredTasks')
      /\ Cardinality(taskQueue') = Cardinality(taskQueue) - Cardinality(yielded)
      /\ Cardinality(deferredTasks') = Cardinality(deferredTasks) + Cardinality(yielded)
  <2>1. IsFiniteSet(yielded) /\ taskQueue \cap yielded = yielded /\ deferredTasks \cap yielded = {}
    BY FS_Subset, yielded \in SUBSET taskQueue DEF TokInv, TokTypes
  <2>2. IsFiniteSet(taskQueue) /\ IsFiniteSet(deferredTasks)
    BY DEF TokInv, TokTypes
  <2> HIDE DEF yielded
  <2>3. Cardinality(yielded) \in Nat
    BY <2>1, FS_CardinalityType
  <2>4. /\ IsFiniteSet(taskQueue')
        /\ Cardinality(taskQueue') = Cardinality(taskQueue) - Cardinality(yielded)
    <3>1. /\ IsFiniteSet(taskQueue \ yielded)
          /\ Cardinality(taskQueue \ yielded)
                = Cardinality(taskQueue) - Cardinality(taskQueue \cap yielded)
      BY <2>2, FS_Difference
    <3> QED
      BY <1>1, <2>1, <3>1
  <2>5. /\ IsFiniteSet(deferredTasks')
        /\ Cardinality(deferredTasks') = Cardinality(deferredTasks) + Cardinality(yielded)
    BY <1>1, <2>1, <2>2, DisjointUnion
  <2> QED
    BY <2>1, <2>3, <2>4, <2>5
<1>3. TokTypes'
  BY <1>1, <1>2 DEF TokInv, TokTypes
<1>4. Numbers(taskQueue)' \cup Numbers(deferredTasks)' = Numbers(taskQueue) \cup Numbers(deferredTasks)
  BY <1>1 DEF Numbers
<1>5. submitted' = Cardinality(taskQueue') + Cardinality(deferredTasks')
                     + totalTasksRun' + Cardinality(refused')
  <2>1. /\ Cardinality(taskQueue) \in Nat /\ Cardinality(deferredTasks) \in Nat
        /\ Cardinality(refused) \in Nat /\ totalTasksRun \in Nat
    BY FS_CardinalityType DEF TokInv, TokTypes
  <2>2. submitted = Cardinality(taskQueue) + Cardinality(deferredTasks)
                      + totalTasksRun + Cardinality(refused)
    BY DEF TokInv, TasksAccounted
  <2> HIDE DEF yielded
  <2> QED
    BY <1>1, <1>2, <2>1, <2>2
<1>6. TasksAccounted'
  <2>1. 1 .. submitted' = Numbers(taskQueue)' \cup Numbers(deferredTasks)' \cup ran' \cup refused'
    BY <1>1, <1>4 DEF TokInv, TasksAccounted
  <2>2. \A t \in taskQueue' : ~ Yields(t.priority)
    BY <1>1
  <2> QED
    BY <1>1, <1>5, <2>1, <2>2 DEF TasksAccounted
<1>7. taskQueue' \cap deferredTasks' = {}
  BY <1>1 DEF TokInv
<1> QED
  BY <1>3, <1>6, <1>7 DEF TokInv

LEMMA ClearKept == TokInv /\ ClearAIBurst => TokInv'
<1> SUFFICES ASSUME TokInv, ClearAIBurst PROVE TokInv'
  OBVIOUS
<1>1. /\ taskQueue' = taskQueue \cup deferredTasks /\ deferredTasks' = {}
      /\ aiBurstActive' = FALSE
      /\ UNCHANGED <<submitted, totalTasksRun, refused, ran>>
  BY DEF ClearAIBurst
<1>2. /\ IsFiniteSet(taskQueue') /\ IsFiniteSet(deferredTasks') /\ Cardinality(deferredTasks') = 0
      /\ Cardinality(taskQueue') = Cardinality(taskQueue) + Cardinality(deferredTasks)
  <2>1. IsFiniteSet(taskQueue) /\ IsFiniteSet(deferredTasks) /\ taskQueue \cap deferredTasks = {}
    BY DEF TokInv, TokTypes
  <2> QED
    BY <1>1, <2>1, DisjointUnion, FS_EmptySet
<1>3. TokTypes' /\ taskQueue' \cap deferredTasks' = {}
  BY <1>1, <1>2 DEF TokInv, TokTypes
<1>4. Numbers(taskQueue)' \cup Numbers(deferredTasks)' = Numbers(taskQueue) \cup Numbers(deferredTasks)
  BY <1>1 DEF Numbers
<1>5. submitted' = Cardinality(taskQueue') + Cardinality(deferredTasks')
                     + totalTasksRun' + Cardinality(refused')
  <2>1. /\ Cardinality(taskQueue) \in Nat /\ Cardinality(deferredTasks) \in Nat
        /\ Cardinality(refused) \in Nat /\ totalTasksRun \in Nat
    BY FS_CardinalityType DEF TokInv, TokTypes
  <2>2. submitted = Cardinality(taskQueue) + Cardinality(deferredTasks)
                      + totalTasksRun + Cardinality(refused)
    BY DEF TokInv, TasksAccounted
  <2> QED
    BY <1>1, <1>2, <2>1, <2>2
<1>6. 1 .. submitted' = Numbers(taskQueue)' \cup Numbers(deferredTasks)' \cup ran' \cup refused'
  BY <1>1, <1>4 DEF TokInv, TasksAccounted
<1> QED
  BY <1>1, <1>3, <1>5, <1>6 DEF TokInv, TasksAccounted

(* The number of a submission is new, and so is its task.                    *)
LEMMA SubmitKept == ASSUME NEW p \in TokenPriorities PROVE TokInv /\ SubmitTask(p) => TokInv'
<1> SUFFICES ASSUME TokInv, SubmitTask(p) PROVE TokInv'
  OBVIOUS
<1> DEFINE task == [n |-> submitted', priority |-> p]
<1>1. /\ submitted' = submitted + 1 /\ UNCHANGED <<aiBurstActive, totalTasksRun, ran>>
      /\ task.n = submitted' /\ task.priority = p
  BY DEF SubmitTask
<1>2. /\ submitted \in Nat /\ totalTasksRun \in Nat
      /\ IsFiniteSet(taskQueue) /\ IsFiniteSet(deferredTasks) /\ IsFiniteSet(refused)
      /\ Cardinality(taskQueue) \in Nat /\ Cardinality(deferredTasks) \in Nat
      /\ Cardinality(refused) \in Nat
  BY FS_CardinalityType DEF TokInv, TokTypes
<1>3. /\ submitted = Cardinality(taskQueue) + Cardinality(deferredTasks)
                       + totalTasksRun + Cardinality(refused)
      /\ 1 .. submitted = Numbers(taskQueue) \cup Numbers(deferredTasks) \cup ran \cup refused
      /\ aiBurstActive => \A t \in taskQueue : ~ Yields(t.priority)
      /\ ~ aiBurstActive => deferredTasks = {}
      /\ taskQueue \cap deferredTasks = {}
  BY DEF TokInv, TasksAccounted
<1>4. /\ submitted' \notin Numbers(taskQueue) \cup Numbers(deferredTasks) \cup refused
      /\ 1 .. submitted' = (1 .. submitted) \cup {submitted'}
  <2>1. submitted' \notin 1 .. submitted /\ 1 .. submitted' = (1 .. submitted) \cup {submitted'}
    BY <1>1, <1>2
  <2> QED
    BY <1>3, <2>1
<1>5. task \notin taskQueue /\ task \notin deferredTasks
  BY <1>1, <1>4 DEF Numbers
<1> HIDE DEF task
<1>6. CASE Deferred(p) /\ deferredTasks' = deferredTasks \cup {task}
           /\ UNCHANGED <<taskQueue, refused>>
  <2>1. /\ IsFiniteSet(deferredTasks')
        /\ Cardinality(deferredTasks') = Cardinality(deferredTasks) + 1
    BY <1>2, <1>5, <1>6, FS_AddElement
  <2>2. submitted' = Cardinality(taskQueue') + Cardinality(deferredTasks')
                       + totalTasksRun' + Cardinality(refused')
    BY <1>1, <1>2, <1>3, <1>6, <2>1
  <2>3. Numbers(deferredTasks)' = Numbers(deferredTasks) \cup {submitted'}
    BY <1>1, <1>6 DEF Numbers
  <2>4. 1 .. submitted' = Numbers(taskQueue)' \cup Numbers(deferredTasks)' \cup ran' \cup refused'
    BY <1>1, <1>3, <1>4, <1>6, <2>3 DEF Numbers
  <2>5. TokTypes' /\ taskQueue' \cap deferredTasks' = {}
    BY <1>1, <1>2, <1>3, <1>5, <1>6, <2>1 DEF TokTypes
  <2> QED
    BY <1>1, <1>3, <1>6, <2>2, <2>4, <2>5 DEF TokInv, TasksAccounted, Deferred
<1>7. CASE refused' = refused \cup {submitted'} /\ UNCHANGED <<taskQueue, deferredTasks>>
  <2>1. IsFiniteSet(refused') /\ Cardinality(refused') = Cardinality(refused) + 1
    BY <1>2, <1>4, <1>7, FS_AddElement
  <2>2. submitted' = Cardinality(taskQueue') + Cardinality(deferredTasks')
                       + totalTasksRun' + Cardinality(refused')
    BY <1>1, <1>2, <1>3, <1>7, <2>1
  <2>3. 1 .. submitted' = Numbers(taskQueue)' \cup Numbers(deferredTasks)' \cup ran' \cup refused'
    BY <1>1, <1>3, <1>4, <1>7 DEF Numbers
  <2>4. TokTypes' /\ taskQueue' \cap deferredTasks' = {}
    BY <1>1, <1>2, <1>3, <1>7, <2>1 DEF TokTypes
  <2> QED
    BY <1>1, <1>3, <1>7, <2>2, <2>3, <2>4 DEF TokInv, TasksAccounted
<1>8. CASE ~Deferred(p) /\ taskQueue' = taskQueue \cup {task}
           /\ UNCHANGED <<deferredTasks, refused>>
  <2>1. IsFiniteSet(taskQueue') /\ Cardinality(taskQueue') = Cardinality(taskQueue) + 1
    BY <1>2, <1>5, <1>8, FS_AddElement
  <2>2. submitted' = Cardinality(taskQueue') + Cardinality(deferredTasks')
                       + totalTasksRun' + Cardinality(refused')
    BY <1>1, <1>2, <1>3, <1>8, <2>1
  <2>3. Numbers(taskQueue)' = Numbers(taskQueue) \cup {submitted'}
    BY <1>1, <1>8 DEF Numbers
  <2>4. 1 .. submitted' = Numbers(taskQueue)' \cup Numbers(deferredTasks)' \cup ran' \cup refused'
    BY <1>1, <1>3, <1>4, <1>8, <2>3 DEF Numbers
  <2>5. TokTypes' /\ taskQueue' \cap deferredTasks' = {}
    BY <1>1, <1>2, <1>3, <1>5, <1>8, <2>1 DEF TokTypes
  <2>6. aiBurstActive' => \A t \in taskQueue' : ~ Yields(t.priority)
    BY <1>1, <1>3, <1>8 DEF Deferred
  <2> QED
    BY <1>1, <1>3, <1>8, <2>2, <2>4, <2>5, <2>6 DEF TokInv, TasksAccounted
<1> QED
  BY <1>6, <1>7, <1>8 DEF SubmitTask, task

LEMMA RunNextKept == ASSUME NEW t \in taskQueue PROVE TokInv /\ RunNext(t) => TokInv'
<1> SUFFICES ASSUME TokInv, RunNext(t) PROVE TokInv'
  OBVIOUS
<1>1. /\ taskQueue' = taskQueue \ {t} /\ totalTasksRun' = totalTasksRun + 1
      /\ ran' = ran \cup {t.n}
      /\ UNCHANGED <<deferredTasks, aiBurstActive, submitted, refused>>
  BY DEF RunNext
<1>2. /\ submitted \in Nat /\ totalTasksRun \in Nat
      /\ IsFiniteSet(taskQueue) /\ IsFiniteSet(deferredTasks) /\ IsFiniteSet(refused)
      /\ Cardinality(taskQueue) \in Nat /\ Cardinality(deferredTasks) \in Nat
      /\ Cardinality(refused) \in Nat
  BY FS_CardinalityType DEF TokInv, TokTypes
<1>3. IsFiniteSet(taskQueue') /\ Cardinality(taskQueue') = Cardinality(taskQueue) - 1
  BY <1>1, <1>2, FS_RemoveElement
<1>4. submitted' = Cardinality(taskQueue') + Cardinality(deferredTasks')
                     + totalTasksRun' + Cardinality(refused')
  <2>1. submitted = Cardinality(taskQueue) + Cardinality(deferredTasks)
                      + totalTasksRun + Cardinality(refused)
    BY DEF TokInv, TasksAccounted
  <2> QED
    BY <1>1, <1>2, <1>3, <2>1
<1>5. Numbers(taskQueue)' \cup ran' = Numbers(taskQueue) \cup ran
  BY <1>1 DEF Numbers
<1>6. 1 .. submitted' = Numbers(taskQueue)' \cup Numbers(deferredTasks)' \cup ran' \cup refused'
  BY <1>1, <1>5 DEF TokInv, TasksAccounted, Numbers
<1>7. TokTypes' /\ taskQueue' \cap deferredTasks' = {}
  BY <1>1, <1>2, <1>3 DEF TokInv, TokTypes
<1> QED
  BY <1>1, <1>4, <1>6, <1>7 DEF TokInv, TasksAccounted

LEMMA TokKept == TokInv /\ [TokNext]_tokVars => TokInv'
<1> SUFFICES ASSUME TokInv, [TokNext]_tokVars PROVE TokInv'
  OBVIOUS
<1>1. CASE (\E b \in BOOLEAN : SetThermalState(b) \/ SetPowerState(b)) \/ UNCHANGED tokVars
  <2>1. UNCHANGED <<taskQueue, deferredTasks, aiBurstActive, totalTasksRun, submitted,
                    refused, ran>>
    BY <1>1 DEF SetThermalState, SetPowerState, tokVars
  <2> QED
    BY <2>1 DEF TokInv, TokTypes, TasksAccounted, Numbers
<1> QED
  BY <1>1, SignalKept, ClearKept, SubmitKept, RunNextKept DEF TokNext

(* For any number of tasks and bursts: a task that was not refused waits in  *)
(* one of the two queues or has run once, nothing that yields is in reach in *)
(* a burst, and nothing is left aside after one (token_scheduler.cpp).       *)
THEOREM TasksKept == TokSpec => []TasksAccounted
<1>1. TokSpec => []TokInv
  BY TokInitial, TokKept, PTL DEF TokSpec
<1>2. TokInv => TasksAccounted
  BY DEF TokInv
<1> QED
  BY <1>1, <1>2, PTL

-----------------------------------------------------------------------------
(* The network stack                                                       *)

(* What makes NotShared inductive: every number and every object is below    *)
(* the next one, and no two idle entries of the pool are of one object.      *)
PoolEntry == [object : Nat, host : Hosts, inUse : BOOLEAN]

NetTypes ==
    /\ nextSocketId \in Nat /\ nextSocketId > 0
    /\ \A n \in DOMAIN sockets : n \in Nat /\ n < nextSocketId
    /\ \A n \in DOMAIN sockets : sockets[n] \in Nat /\ sockets[n] < nextSocketId
    /\ pool \in Seq(PoolEntry)
    /\ \A i \in DOMAIN pool : pool[i].object < nextSocketId

IdleOnce == \A i, j \in DOMAIN pool :
    ~pool[i].inUse /\ ~pool[j].inUse /\ pool[i].object = pool[j].object => i = j

OwnConnection == \A m, n \in DOMAIN sockets : sockets[m] = sockets[n] => m = n
IdleUnowned   == \A i \in DOMAIN pool : ~pool[i].inUse =>
                    \A n \in DOMAIN sockets : sockets[n] # pool[i].object

NetInv == NetTypes /\ IdleOnce /\ OwnConnection /\ IdleUnowned

LEMMA NetInitial == NetInit => NetInv
BY EmptySeq DEF NetInit, NetInv, NetTypes, IdleOnce, OwnConnection, IdleUnowned

LEMMA CreateSocketKept == NetInv /\ CreateSocket => NetInv'
<1> SUFFICES ASSUME NetInv, CreateSocket PROVE NetInv'
  OBVIOUS
<1>1. /\ nextSocketId' = nextSocketId + 1 /\ pool' = pool
      /\ DOMAIN sockets' = DOMAIN sockets \cup {nextSocketId}
      /\ sockets'[nextSocketId] = nextSocketId
      /\ \A n \in DOMAIN sockets : n # nextSocketId => sockets'[n] = sockets[n]
  BY DEF CreateSocket
<1>2. /\ nextSocketId \in Nat /\ nextSocketId \notin DOMAIN sockets
      /\ \A n \in DOMAIN sockets : sockets[n] \in Nat /\ sockets[n] # nextSocketId
  BY DEF NetInv, NetTypes
<1>3. NetTypes'
  <2>1. /\ nextSocketId' \in Nat /\ nextSocketId' > 0
        /\ \A n \in DOMAIN sockets' : n \in Nat /\ n < nextSocketId'
        /\ \A n \in DOMAIN sockets' : sockets'[n] \in Nat /\ sockets'[n] < nextSocketId'
    BY <1>1, <1>2 DEF NetInv, NetTypes
  <2>2. ASSUME NEW i \in DOMAIN pool PROVE pool[i].object < nextSocketId + 1
    <3>1. pool[i] \in PoolEntry
      BY LenProperties, ElementOfSeq DEF NetInv, NetTypes
    <3>2. pool[i].object \in Nat
      BY <3>1 DEF PoolEntry
    <3> QED
      BY <1>2, <3>2 DEF NetInv, NetTypes
  <2> QED
    BY <1>1, <2>1, <2>2 DEF NetInv, NetTypes
<1>4. IdleOnce'
  BY <1>1 DEF NetInv, IdleOnce
<1>5. OwnConnection'
  BY <1>1, <1>2 DEF NetInv, OwnConnection
<1>6. IdleUnowned'
  <2>1. \A i \in DOMAIN pool : pool[i].object # nextSocketId
    <3> SUFFICES ASSUME NEW i \in DOMAIN pool, pool[i].object = nextSocketId PROVE FALSE
      OBVIOUS
    <3>1. pool[i].object < nextSocketId
      BY DEF NetInv, NetTypes
    <3> QED
      BY <1>2, <3>1
  <2> QED
    BY <1>1, <1>2, <2>1 DEF NetInv, IdleUnowned
<1> QED
  BY <1>3, <1>4, <1>5, <1>6 DEF NetInv

(* The entry that is handed on was idle, so that no number stands for its    *)
(* object yet; taken, it is idle no longer.                                  *)
LEMMA ConnectPooledKept ==
    ASSUME NEW n, NEW h \in Hosts PROVE NetInv /\ ConnectPooled(n, h) => NetInv'
<1> SUFFICES ASSUME NetInv, ConnectPooled(n, h) PROVE NetInv'
  OBVIOUS
<1>1. PICK i \in Idle(h) : /\ sockets' = [sockets EXCEPT ![n] = pool[i].object]
                           /\ pool' = [pool EXCEPT ![i].inUse = TRUE]
  <2>1. Idle(h) \in SUBSET Nat /\ Idle(h) # {}
    <3>1. DOMAIN pool = 1 .. Len(pool)
      BY LenProperties DEF NetInv, NetTypes
    <3> QED
      BY <3>1 DEF ConnectPooled, Idle
  <2>2. \E j \in Idle(h) : \A k \in Idle(h) : j <= k
    BY <2>1, LeastOf
  <2> QED
    BY <2>2 DEF ConnectPooled, Taken
<1>2. /\ n \in DOMAIN sockets /\ nextSocketId' = nextSocketId
      /\ i \in DOMAIN pool /\ ~pool[i].inUse
  BY <1>1 DEF ConnectPooled, Idle
<1>3. /\ DOMAIN pool' = DOMAIN pool /\ pool'[i].inUse = TRUE
      /\ \A j \in DOMAIN pool : pool'[j].object = pool[j].object
      /\ \A j \in DOMAIN pool : j # i => pool'[j] = pool[j]
  <2>1. pool[i] \in PoolEntry
    BY <1>2, LenProperties, ElementOfSeq DEF NetInv, NetTypes
  <2> QED
    BY <1>1, <1>2, <2>1 DEF PoolEntry
<1>4. /\ DOMAIN sockets' = DOMAIN sockets /\ sockets'[n] = pool[i].object
      /\ \A m \in DOMAIN sockets : m # n => sockets'[m] = sockets[m]
  BY <1>1, <1>2
<1>5. NetTypes'
  <2>1. pool[i] \in PoolEntry
    BY <1>2, LenProperties, ElementOfSeq DEF NetInv, NetTypes
  <2>2. [pool[i] EXCEPT !.inUse = TRUE] \in PoolEntry
    BY <2>1 DEF PoolEntry
  <2>3. pool' \in Seq(PoolEntry)
    BY <1>1, <1>2, <2>2, LenProperties, ExceptSeq DEF NetInv, NetTypes
  <2>4. pool[i].object \in Nat /\ pool[i].object < nextSocketId
    BY <1>2, <2>1 DEF PoolEntry, NetInv, NetTypes
  <2> QED
    BY <1>2, <1>3, <1>4, <2>3, <2>4 DEF NetInv, NetTypes
<1>6. IdleOnce'
  BY <1>3 DEF NetInv, IdleOnce
<1>7. OwnConnection'
  BY <1>2, <1>4 DEF NetInv, OwnConnection, IdleUnowned
<1>8. IdleUnowned'
  BY <1>2, <1>3, <1>4 DEF NetInv, IdleUnowned, IdleOnce
<1> QED
  BY <1>5, <1>6, <1>7, <1>8 DEF NetInv

LEMMA ConnectNewKept ==
    ASSUME NEW n, NEW h \in Hosts PROVE NetInv /\ ConnectNew(n, h) => NetInv'
<1> SUFFICES ASSUME NetInv, ConnectNew(n, h) PROVE NetInv'
  OBVIOUS
<1>1. n \in DOMAIN sockets /\ UNCHANGED <<sockets, nextSocketId>> /\ pool' = Pooled(sockets[n], h)
  BY DEF ConnectNew
<1>2. CASE pool' = pool
  BY <1>1, <1>2 DEF NetInv, NetTypes, IdleOnce, OwnConnection, IdleUnowned
<1>3. CASE pool' = Append(pool, [object |-> sockets[n], host |-> h, inUse |-> TRUE])
  <2> DEFINE e == [object |-> sockets[n], host |-> h, inUse |-> TRUE]
  <2>1. e \in PoolEntry /\ e.object < nextSocketId
    BY <1>1 DEF NetInv, NetTypes, PoolEntry
  <2>2. e.inUse = TRUE
    OBVIOUS
  <2> HIDE DEF e
  <2>3. /\ pool \in Seq(PoolEntry) /\ pool' \in Seq(PoolEntry) /\ Len(pool') = Len(pool) + 1
        /\ \A i \in 1 .. Len(pool) : pool'[i] = pool[i]
        /\ pool'[Len(pool) + 1] = e
    BY <1>3, <2>1, AppendProperties DEF NetInv, NetTypes, e
  <2>4. /\ Len(pool) \in Nat /\ DOMAIN pool = 1 .. Len(pool)
        /\ DOMAIN pool' = (1 .. Len(pool)) \cup {Len(pool) + 1}
    BY <2>3, LenProperties
  <2>5. NetTypes'
    BY <1>1, <2>1, <2>3, <2>4 DEF NetInv, NetTypes
  <2>6. \A i \in DOMAIN pool' : ~pool'[i].inUse => i \in DOMAIN pool /\ pool'[i] = pool[i]
    BY <2>2, <2>3, <2>4
  <2> QED
    BY <1>1, <2>5, <2>6 DEF NetInv, IdleOnce, OwnConnection, IdleUnowned
<1> QED
  BY <1>1, <1>2, <1>3 DEF Pooled

(* Whatever the number of entries a socket has, closing frees one of them,   *)
(* and none was free while a number stood for it.                            *)
LEMMA CloseSocketKept == ASSUME NEW n PROVE NetInv /\ CloseSocket(n) => NetInv'
<1> SUFFICES ASSUME NetInv, CloseSocket(n) PROVE NetInv'
  OBVIOUS
<1>1. /\ n \in DOMAIN sockets /\ nextSocketId' = nextSocketId
      /\ pool' = Released(sockets[n])
      /\ DOMAIN sockets' = DOMAIN sockets \ {n}
      /\ \A m \in DOMAIN sockets' : sockets'[m] = sockets[m]
  BY DEF CloseSocket
<1>2. \A m \in DOMAIN sockets' : sockets'[m] # sockets[n]
  BY <1>1 DEF NetInv, OwnConnection
<1>3. OwnConnection'
  BY <1>1 DEF NetInv, OwnConnection
<1>4. CASE pool' = pool
  BY <1>1, <1>3, <1>4 DEF NetInv, NetTypes, IdleOnce, IdleUnowned
<1>5. CASE \E i \in DOMAIN pool : /\ pool[i].object = sockets[n]
                                  /\ pool' = [pool EXCEPT ![i].inUse = FALSE]
  <2> PICK i \in DOMAIN pool : /\ pool[i].object = sockets[n]
                               /\ pool' = [pool EXCEPT ![i].inUse = FALSE]
    BY <1>5
  <2>1. pool[i] \in PoolEntry /\ i \in 1 .. Len(pool)
    BY LenProperties, ElementOfSeq DEF NetInv, NetTypes
  <2>2. [pool[i] EXCEPT !.inUse = FALSE] \in PoolEntry
    BY <2>1 DEF PoolEntry
  <2>3. pool' \in Seq(PoolEntry)
    BY <2>1, <2>2, ExceptSeq DEF NetInv, NetTypes
  <2>4. /\ DOMAIN pool' = DOMAIN pool
        /\ \A j \in DOMAIN pool : pool'[j].object = pool[j].object
        /\ \A j \in DOMAIN pool : j # i => pool'[j] = pool[j]
    BY <2>1 DEF PoolEntry
  <2>5. NetTypes'
    BY <1>1, <2>3, <2>4 DEF NetInv, NetTypes
  <2>6. \A j \in DOMAIN pool : ~pool[j].inUse => pool[j].object # sockets[n]
    BY <1>1 DEF NetInv, IdleUnowned
  <2>7. IdleOnce'
    BY <2>4, <2>6 DEF NetInv, IdleOnce
  <2>8. IdleUnowned'
    BY <1>1, <1>2, <2>4 DEF NetInv, IdleUnowned
  <2> QED
    BY <1>3, <2>5, <2>7, <2>8 DEF NetInv
<1>6. pool' = pool \/ \E i \in DOMAIN pool : /\ pool[i].object = sockets[n]
                                             /\ pool' = [pool EXCEPT ![i].inUse = FALSE]
  <2> DEFINE of == {i \in DOMAIN pool : pool[i].object = sockets[n]}
  <2>1. of \in SUBSET Nat
    BY LenProperties DEF NetInv, NetTypes
  <2>2. of # {} => \E i \in of : \A j \in of : i <= j
    BY <2>1, LeastOf
  <2> QED
    BY <1>1, <2>2 DEF Released
<1> QED
  BY <1>4, <1>5, <1>6

LEMMA EvictIdleKept == ASSUME NEW i PROVE NetInv /\ EvictIdle(i) => NetInv'
<1> SUFFICES ASSUME NetInv, EvictIdle(i) PROVE NetInv'
  OBVIOUS
<1>1. /\ i \in DOMAIN pool /\ pool' = RemoveAt(pool, i) /\ UNCHANGED <<sockets, nextSocketId>>
      /\ pool \in Seq(PoolEntry)
  BY DEF EvictIdle, NetInv, NetTypes
<1>2. Len(pool) \in Nat /\ DOMAIN pool = 1 .. Len(pool)
  BY <1>1, LenProperties
<1> DEFINE was(j) == IF j < i THEN j ELSE j + 1
<1>3. /\ pool' \in Seq(PoolEntry) /\ Len(pool') = Len(pool) - 1
      /\ \A j \in 1 .. Len(pool) - 1 : pool'[j] = pool[was(j)]
  BY <1>1, <1>2, RemoveAtProperties
<1>4. DOMAIN pool' = 1 .. Len(pool) - 1
  BY <1>3, LenProperties
<1>5. /\ \A j \in DOMAIN pool' : was(j) \in DOMAIN pool /\ pool'[j] = pool[was(j)]
      /\ \A j, k \in DOMAIN pool' : was(j) = was(k) => j = k
  BY <1>1, <1>2, <1>3, <1>4
<1> HIDE DEF was
<1> QED
  BY <1>1, <1>3, <1>5 DEF NetInv, NetTypes, IdleOnce, OwnConnection, IdleUnowned

LEMMA NetKept == NetInv /\ [NetNext]_netVars => NetInv'
<1> SUFFICES ASSUME NetInv, [NetNext]_netVars PROVE NetInv'
  OBVIOUS
<1>1. ASSUME UNCHANGED <<sockets, pool, nextSocketId>> PROVE NetInv'
  BY <1>1 DEF NetInv, NetTypes, IdleOnce, OwnConnection, IdleUnowned
<1>2. CASE UNCHANGED netVars
  BY <1>1, <1>2 DEF netVars
<1>3. ASSUME NEW n \in 1 .. MaxSockets, NEW h \in Hosts,
             Listen(n) \/ Reconnect(n) \/ ConnectBlocked(n, h)
      PROVE  NetInv'
  BY <1>1, <1>3 DEF Listen, Reconnect, ConnectBlocked
<1>4. ASSUME NEW n \in 1 .. MaxSockets, Listen(n) \/ Reconnect(n)
      PROVE  NetInv'
  BY <1>1, <1>4 DEF Listen, Reconnect
<1>5. CASE \/ \E i \in 1 .. MaxNames : NameExpires(i)
           \/ \E i \in 1 .. MaxRules : RemoveRule(i)
  BY <1>1, <1>5 DEF NameExpires, RemoveRule
<1>6. CASE \E r \in [domain : Hosts \cup {AnyHost}, block : BOOLEAN, priority : {0, 1}] : AddRule(r)
  BY <1>1, <1>6 DEF AddRule
<1>7. CASE \E n \in 1 .. MaxSockets :
             \/ Listen(n) \/ CloseSocket(n) \/ Reconnect(n)
             \/ \E h \in Hosts : ConnectBlocked(n, h) \/ ConnectPooled(n, h) \/ ConnectNew(n, h)
  BY <1>3, <1>4, <1>7, CloseSocketKept, ConnectPooledKept, ConnectNewKept
<1>8. CASE \E i \in 1 .. MaxTotal : EvictIdle(i)
  BY <1>8, EvictIdleKept
<1> QED
  BY <1>2, <1>5, <1>6, <1>7, <1>8, CreateSocketKept DEF NetNext

LEMMA NetInvImplies == NetInv => NotShared
BY DEF NetInv, NotShared, OwnConnection, IdleUnowned, Range

(* For any hosts, limits and bounds: two numbers never stand for one         *)
(* connection, and the pool offers none that a number still stands for.      *)
THEOREM ConnectionsOwned == NetSpec => []NotShared
<1>1. NetSpec => []NetInv
  BY NetInitial, NetKept, PTL DEF NetSpec
<1> QED
  BY <1>1, NetInvImplies, PTL

-----------------------------------------------------------------------------
(* The encrypted shards                                                    *)

(* What makes ShardsReadBack inductive: the numbers are below the next one,  *)
(* the record of what they were created with is of the same shards, and a    *)
(* shard that got into its file holds one of the secrets there.              *)
ShardTypes ==
    /\ nextShardId \in Nat /\ nextShardId <= MaxShards
    /\ DOMAIN shardFile = ShardNumbers
    /\ DOMAIN created = DOMAIN shards
    /\ \A id \in DOMAIN shards : id \in Nat /\ id < nextShardId

FilesHold ==
    \A id \in DOMAIN shards \ unwritten :
        created[id] \in Secrets /\ shardFile[id].data = created[id]

MemoryHolds ==
    \A id \in DOMAIN shards \ unwritten : shards[id].data \in {created[id], Nothing}

ShardsInv == ShardTypes /\ FilesHold /\ MemoryHolds

LEMMA ShardsFresh ==
    ASSUME Fresh, DOMAIN shardFile' = ShardNumbers PROVE ShardsInv'
<1>1. /\ DOMAIN shards' = {} /\ DOMAIN created' = {} /\ nextShardId' = 0
  BY DEF Fresh
<1>2. 0 <= MaxShards
  BY ShardsAssumption
<1> QED
  BY <1>1, <1>2 DEF ShardsInv, ShardTypes, FilesHold, MemoryHolds, ShardNumbers

LEMMA ShardsInitial == ShardsInit => ShardsInv
<1> SUFFICES ASSUME ShardsInit PROVE ShardsInv
  OBVIOUS
<1>1. /\ DOMAIN shards = {} /\ DOMAIN created = {} /\ nextShardId = 0
      /\ DOMAIN shardFile = ShardNumbers
  BY DEF ShardsInit
<1>2. 0 <= MaxShards
  BY ShardsAssumption
<1> QED
  BY <1>1, <1>2 DEF ShardsInv, ShardTypes, FilesHold, MemoryHolds

LEMMA CreateShardKept ==
    ASSUME NEW data \in Secrets \cup {Nothing} PROVE ShardsInv /\ CreateShard(data) => ShardsInv'
<1> SUFFICES ASSUME ShardsInv, CreateShard(data) PROVE ShardsInv'
  OBVIOUS
<1> DEFINE new == nextShardId
<1>1. /\ DOMAIN shards' = DOMAIN shards \cup {new} /\ DOMAIN created' = DOMAIN shards \cup {new}
      /\ shards'[new].data = data /\ created'[new] = data
      /\ \A id \in DOMAIN shards \ {new} : shards'[id] = shards[id] /\ created'[id] = created[id]
      /\ new < MaxShards /\ nextShardId' = new + 1
  BY DEF CreateShard, WithShard, ShardsInv, ShardTypes
<1>2. /\ new \in Nat /\ new \notin DOMAIN shards /\ MaxShards \in Nat /\ new \in ShardNumbers
  BY <1>1, ShardsAssumption DEF ShardsInv, ShardTypes, ShardNumbers
<1>3. \/ /\ shardFile' = shardFile /\ unwritten' = unwritten \cup {new}
      \/ /\ data # Nothing /\ unwritten' = unwritten
         /\ shardFile' = [shardFile EXCEPT ![new] = [key |-> masterKey, data |-> data]]
  BY DEF CreateShard, Persist
<1>4. /\ DOMAIN shardFile' = ShardNumbers
      /\ \A id \in ShardNumbers \ {new} : shardFile'[id] = shardFile[id]
      /\ new \in unwritten' \/ (data \in Secrets /\ shardFile'[new].data = data)
      /\ \A id \in DOMAIN shards : id \in ShardNumbers
      /\ unwritten \subseteq unwritten'
  <2>1. \A id \in DOMAIN shards : id \in ShardNumbers
    BY <1>2, ShardsAssumption DEF ShardsInv, ShardTypes, ShardNumbers
  <2> QED
    BY <1>2, <1>3, <2>1 DEF ShardsInv, ShardTypes
<1>5. ShardTypes'
  BY <1>1, <1>2, <1>4 DEF ShardsInv, ShardTypes
<1>6. FilesHold'
  BY <1>1, <1>2, <1>4 DEF ShardsInv, FilesHold
<1>7. MemoryHolds'
  BY <1>1, <1>2, <1>4 DEF ShardsInv, MemoryHolds
<1> QED
  BY <1>5, <1>6, <1>7 DEF ShardsInv

(* With another key something else than a secret comes out, which does not   *)
(* get past the checksum.                                                   *)
LEMMA ReadShardKept ==
    ASSUME NEW n \in DOMAIN shards PROVE ShardsInv /\ ReadShard(n) => ShardsInv'
<1> SUFFICES ASSUME ShardsInv, ReadShard(n) PROVE ShardsInv'
  OBVIOUS
<1>1. /\ UNCHANGED <<shardFile, nextShardId, created, unwritten>>
      /\ DOMAIN shards' = DOMAIN shards
      /\ \A id \in DOMAIN shards : \/ shards'[id] = shards[id]
                                   \/ id = n /\ shards'[n].data \in {shardFile[n].data, Nothing}
  BY DEF ReadShard, LoadShard
<1>2. ShardTypes' /\ FilesHold'
  BY <1>1 DEF ShardsInv, ShardTypes, FilesHold
<1>3. MemoryHolds'
  BY <1>1 DEF ShardsInv, FilesHold, MemoryHolds
<1> QED
  BY <1>2, <1>3 DEF ShardsInv

LEMMA DeleteShardKept ==
    ASSUME NEW n \in DOMAIN shards PROVE ShardsInv /\ DeleteShard(n) => ShardsInv'
<1> SUFFICES ASSUME ShardsInv, DeleteShard(n) PROVE ShardsInv'
  OBVIOUS
<1>1. /\ nextShardId' = nextShardId /\ unwritten' = unwritten \ {n}
      /\ DOMAIN shards' = DOMAIN shards \ {n} /\ DOMAIN created' = DOMAIN shards \ {n}
      /\ \A id \in DOMAIN shards' : shards'[id] = shards[id] /\ created'[id] = created[id]
  BY DEF DeleteShard, ShardsInv, ShardTypes
<1>2. /\ DOMAIN shardFile' = DOMAIN shardFile
      /\ \A id \in DOMAIN shardFile \ {n} : shardFile'[id] = shardFile[id]
  BY DEF DeleteShard
<1>3. \A id \in DOMAIN shards : id \in DOMAIN shardFile
  BY ShardsAssumption DEF ShardsInv, ShardTypes, ShardNumbers
<1> QED
  BY <1>1, <1>2, <1>3 DEF ShardsInv, ShardTypes, FilesHold, MemoryHolds

LEMMA LockKept == ShardsInv /\ Lock => ShardsInv'
<1> SUFFICES ASSUME ShardsInv, Lock PROVE ShardsInv'
  OBVIOUS
<1>1. /\ UNCHANGED <<shardFile, nextShardId, created, unwritten>>
      /\ DOMAIN shards' = DOMAIN shards
      /\ \A id \in DOMAIN shards : shards'[id] = shards[id] \/ shards'[id].data = Nothing
  BY DEF Lock
<1> QED
  BY <1>1 DEF ShardsInv, ShardTypes, FilesHold, MemoryHolds

LEMMA ShardsKept == ShardsInv /\ [ShardsNext]_shardVars => ShardsInv'
<1> SUFFICES ASSUME ShardsInv, [ShardsNext]_shardVars PROVE ShardsInv'
  OBVIOUS
<1>1. CASE (\E p \in Passwords \cup {EmptyPassword} : Unlock(p)) \/ UNCHANGED shardVars
  <2>1. UNCHANGED <<shards, shardFile, nextShardId, created, unwritten>>
    BY <1>1 DEF Unlock, shardVars
  <2> QED
    BY <2>1 DEF ShardsInv, ShardTypes, FilesHold, MemoryHolds
<1>2. CASE Killed \/ DeriveFromNothing
  <2>1. Fresh /\ DOMAIN shardFile' = DOMAIN shardFile
    BY <1>2 DEF Killed, DeriveFromNothing
  <2> QED
    BY <2>1, ShardsFresh DEF ShardsInv, ShardTypes
<1> QED
  BY <1>1, <1>2, CreateShardKept, ReadShardKept, DeleteShardKept, LockKept DEF ShardsNext

(* For any secrets, passwords and number of shards, whatever files earlier   *)
(* processes left: what went into a file reads as what it was created with,  *)
(* or as nothing (encrypted_shards.cpp:122-269).                            *)
THEOREM SecretsReadBack == ShardsSpec => []ShardsReadBack
<1>1. ShardsSpec => []ShardsInv
  BY ShardsInitial, ShardsKept, PTL DEF ShardsSpec
<1>2. ShardsInv => ShardsReadBack
  BY DEF ShardsInv, FilesHold, MemoryHolds, ShardsReadBack
<1> QED
  BY <1>1, <1>2, PTL

-----------------------------------------------------------------------------
(* The vector search                                                       *)

(* What makes IndexCovers inductive: in the index, and in one that was       *)
(* saved, an entry's id is its place, counted from 0.                        *)
IndexEntry  == [id : Nat, embedding : Embeddings]
Numbered(s) == s \in Seq(IndexEntry) /\ \A i \in 1 .. Len(s) : s[i].id = i - 1

VectorTypes ==
    /\ Numbered(index) /\ nextId = Len(index)
    /\ savedIndex = <<>> \/ Numbered(savedIndex[1])
    /\ numClusters \in Nat \ {0}

ClustersCover ==
    ivfBuilt =>
       /\ DOMAIN clusterMembers = 1 .. numClusters
       /\ Probed(1 .. numClusters) = DOMAIN index
       /\ \A c, d \in 1 .. numClusters : c # d => clusterMembers[c] \cap clusterMembers[d] = {}

VectorInv == VectorTypes /\ ClustersCover

LEMMA VectorInitial == VectorInit => VectorInv
<1> SUFFICES ASSUME VectorInit PROVE VectorInv
  OBVIOUS
<1>1. /\ index = <<>> /\ nextId = 0 /\ savedIndex = <<>> /\ ivfBuilt = FALSE
      /\ numClusters = MostClusters
  BY DEF VectorInit
<1>2. <<>> \in Seq(IndexEntry) /\ Len(<<>>) = 0
  BY EmptySeq
<1> QED
  BY <1>1, <1>2, VectorAssumption DEF VectorInv, VectorTypes, ClustersCover, Numbered

LEMMA AddVectorKept ==
    ASSUME NEW e \in Embeddings PROVE VectorInv /\ AddVector(e) => VectorInv'
<1> SUFFICES ASSUME VectorInv, AddVector(e) PROVE VectorInv'
  OBVIOUS
<1> DEFINE new == [id |-> nextId, embedding |-> e]
<1>1. /\ index' = Append(index, new) /\ nextId' = nextId + 1 /\ ivfBuilt' = FALSE
      /\ UNCHANGED <<numClusters, savedIndex>>
      /\ index \in Seq(IndexEntry) /\ nextId = Len(index)
      /\ \A i \in 1 .. Len(index) : index[i].id = i - 1
  BY DEF AddVector, VectorInv, VectorTypes, Numbered
<1>2. Len(index) \in Nat
  BY <1>1, LenProperties
<1>3. new \in IndexEntry /\ new.id = Len(index)
  BY <1>1, <1>2 DEF IndexEntry
<1> HIDE DEF new
<1>4. /\ index' \in Seq(IndexEntry) /\ Len(index') = Len(index) + 1
      /\ \A i \in 1 .. Len(index) : index'[i] = index[i]
      /\ index'[Len(index) + 1] = new
  BY <1>1, <1>3, AppendProperties
<1>5. \A i \in 1 .. Len(index') : index'[i].id = i - 1
  BY <1>1, <1>2, <1>3, <1>4
<1> QED
  BY <1>1, <1>4, <1>5 DEF VectorInv, VectorTypes, ClustersCover, Numbered

(* Every entry is nearest to one cluster and only to it.                     *)
LEMMA BuildIndexKept == VectorInv /\ BuildIndex => VectorInv'
<1> SUFFICES ASSUME VectorInv, BuildIndex PROVE VectorInv'
  OBVIOUS
<1>1. /\ index # <<>> /\ UNCHANGED <<index, nextId, savedIndex>>
      /\ index \in Seq(IndexEntry) /\ DOMAIN index = 1 .. Len(index)
  BY LenProperties DEF BuildIndex, VectorInv, VectorTypes, Numbered
<1>2. numClusters' \in Nat \ {0}
  <2>1. Len(index) \in Nat \ {0} /\ numClusters \in Nat \ {0}
    BY <1>1, EmptySeq DEF VectorInv, VectorTypes
  <2> QED
    BY <2>1 DEF BuildIndex, Fewer
<1>3. PICK nearest \in [Embeddings -> 1 .. numClusters'] :
         clusterMembers' = [c \in 1 .. numClusters' |->
                              {i \in DOMAIN index : nearest[index[i].embedding] = c}]
  BY DEF BuildIndex
<1>4. \A i \in DOMAIN index : nearest[index[i].embedding] \in 1 .. numClusters'
  <2> SUFFICES ASSUME NEW i \in DOMAIN index PROVE index[i].embedding \in Embeddings
    OBVIOUS
  <2>1. index[i] \in IndexEntry
    BY <1>1, ElementOfSeq
  <2> QED
    BY <2>1 DEF IndexEntry
<1>5. Probed(1 .. numClusters)' = DOMAIN index
  <2>1. Probed(1 .. numClusters)' = UNION {clusterMembers'[c] : c \in 1 .. numClusters'}
    BY DEF Probed
  <2>2. \A i : (\E c \in 1 .. numClusters' : i \in clusterMembers'[c]) <=> i \in DOMAIN index
    BY <1>3, <1>4
  <2> QED
    BY <2>1, <2>2
<1>6. \A c, d \in 1 .. numClusters' : c # d => clusterMembers'[c] \cap clusterMembers'[d] = {}
  BY <1>3
<1> QED
  BY <1>1, <1>2, <1>3, <1>5, <1>6 DEF VectorInv, VectorTypes, ClustersCover

LEMMA VectorKept == VectorInv /\ [VectorNext]_vectorVars => VectorInv'
<1> SUFFICES ASSUME VectorInv, [VectorNext]_vectorVars PROVE VectorInv'
  OBVIOUS
<1>1. CASE SaveIndex
  BY <1>1 DEF SaveIndex, VectorInv, VectorTypes, ClustersCover, Probed
<1>2. CASE LoadIndex
  BY <1>2 DEF LoadIndex, VectorInv, VectorTypes, ClustersCover
<1>3. CASE VectorRestart
  <2>1. /\ index' = <<>> /\ nextId' = 0 /\ ivfBuilt' = FALSE /\ numClusters' = MostClusters
        /\ savedIndex' = savedIndex
    BY <1>3 DEF VectorRestart
  <2>2. <<>> \in Seq(IndexEntry) /\ Len(<<>>) = 0
    BY EmptySeq
  <2>3. Numbered(<<>>)
    BY <2>2 DEF Numbered
  <2> QED
    BY <2>1, <2>2, <2>3, VectorAssumption DEF VectorInv, VectorTypes, ClustersCover
<1>4. CASE UNCHANGED vectorVars
  BY <1>4 DEF vectorVars, VectorInv, VectorTypes, ClustersCover, Probed
<1> QED
  BY <1>1, <1>2, <1>3, <1>4, AddVectorKept, BuildIndexKept DEF VectorNext, SearchApproximate

LEMMA VectorInvImplies == VectorInv => IndexCovers
<1> SUFFICES ASSUME VectorInv PROVE IndexCovers
  OBVIOUS
<1>1. /\ DOMAIN index = 1 .. Len(index) /\ \A i \in 1 .. Len(index) : index[i].id = i - 1
  BY LenProperties DEF VectorInv, VectorTypes, Numbered
<1>2. \A i, j \in DOMAIN index : i # j => index[i].id # index[j].id
  BY <1>1
<1> QED
  BY <1>2 DEF VectorInv, ClustersCover, IndexCovers

(* For any embeddings, clusters and length of the index, wherever the        *)
(* centroids lie: a search that trusts the clusters reads inside the index   *)
(* and, probing all, misses and repeats nothing (ann_search.cpp:106-321).   *)
THEOREM SearchCoversIndex == VectorSpec => []IndexCovers
<1>1. VectorSpec => []VectorInv
  BY VectorInitial, VectorKept, PTL DEF VectorSpec
<1> QED
  BY <1>1, VectorInvImplies, PTL

-----------------------------------------------------------------------------
(* The synchronisation of knowledge                                        *)

Version == [id : FactIds, origin : Devices, priority : Nat, corrected : BOOLEAN, learned : Nat]
Queued  == [synced : BOOLEAN, version : Version]

(* BestVersionHeld needs no more than the types of what is on its way.       *)
SyncTypes ==
    /\ clock \in Nat
    /\ DOMAIN queue = Devices
    /\ \A d \in Devices : queue[d] \in Seq(Queued)
    /\ \A m \in inFlight : m.version \in Version
    /\ syncedFacts \in [Devices -> SUBSET Version] /\ heard \in [Devices -> SUBSET Version]

SyncInv == SyncTypes /\ BestVersionHeld

(* The order in which versions stand, written out.                           *)
LEMMA BetterMeans ==
    ASSUME NEW v \in Version, NEW u \in Version
    PROVE  Better(v, u) <=>
             \/ v.corrected /\ ~u.corrected
             \/ /\ v.corrected = u.corrected
                /\ \/ ~v.corrected /\ v.priority > u.priority
                   \/ (v.corrected \/ v.priority = u.priority) /\ v.learned > u.learned
<1> DEFINE s == Standing(v)
           t == Standing(u)
<1>1. /\ s[1] = (IF v.corrected THEN 1 ELSE 0) /\ t[1] = (IF u.corrected THEN 1 ELSE 0)
      /\ s[2] = (IF v.corrected THEN 0 ELSE v.priority)
      /\ t[2] = (IF u.corrected THEN 0 ELSE u.priority)
      /\ s[3] = v.learned /\ t[3] = u.learned
  BY DEF Standing
<1>2. Better(v, u) <=> \E i \in 1 .. 3 : s[i] > t[i] /\ \A j \in 1 .. i - 1 : s[j] = t[j]
  BY DEF Better
<1> HIDE DEF s, t
<1>3. 1 .. 3 = {1, 2, 3} /\ 1 .. 0 = {} /\ 1 .. 1 = {1} /\ 1 .. 2 = {1, 2}
  OBVIOUS
<1>4. Better(v, u) <=> \/ s[1] > t[1]
                       \/ s[2] > t[2] /\ s[1] = t[1]
                       \/ s[3] > t[3] /\ s[1] = t[1] /\ s[2] = t[2]
  BY <1>2, <1>3
<1>5. /\ v.corrected \in BOOLEAN /\ u.corrected \in BOOLEAN
      /\ {v.priority, u.priority, v.learned, u.learned} \subseteq Nat
  BY DEF Version
<1> QED
  BY <1>1, <1>4, <1>5

(* What decides on receipt is that order, and no version is better than two  *)
(* of which the one is better than the other, or stand the same.             *)
LEMMA WinsMeans ==
    ASSUME NEW v \in Version, NEW u \in Version PROVE RemoteWins(u, v) <=> Better(v, u)
<1>1. /\ v.corrected \in BOOLEAN /\ u.corrected \in BOOLEAN
      /\ {v.priority, u.priority, v.learned, u.learned} \subseteq Nat
  BY DEF Version
<1> QED
  BY <1>1, BetterMeans DEF RemoteWins

LEMMA BetterOrders ==
    ASSUME NEW v \in Version, NEW u \in Version, NEW w \in Version
    PROVE  /\ ~Better(v, v)
           /\ ~Better(w, u) /\ Better(v, u) => ~Better(w, v)
<1>1. /\ {v.corrected, u.corrected, w.corrected} \subseteq BOOLEAN
      /\ {v.priority, u.priority, w.priority, v.learned, u.learned, w.learned} \subseteq Nat
  BY DEF Version
<1> QED
  BY <1>1, BetterMeans

LEMMA SyncInitial == SyncInit => SyncInv
<1> SUFFICES ASSUME SyncInit PROVE SyncInv
  OBVIOUS
<1>1. SyncTypes
  BY EmptySeq DEF SyncInit, SyncTypes
<1>2. BestVersionHeld
  BY DEF SyncInit, BestVersionHeld
<1> QED
  BY <1>1, <1>2 DEF SyncInv

LEMMA QueueFactKept ==
    ASSUME NEW d \in Devices, NEW id \in FactIds, NEW n \in Priorities, NEW b \in BOOLEAN
    PROVE  SyncInv /\ QueueFact(d, id, n, b) => SyncInv'
<1> SUFFICES ASSUME SyncInv, QueueFact(d, id, n, b) PROVE SyncInv'
  OBVIOUS
<1> DEFINE v == [id |-> id, origin |-> d, priority |-> n, corrected |-> b, learned |-> clock]
           q == [synced |-> FALSE, version |-> v]
<1>1. /\ queue' = [queue EXCEPT ![d] = Append(@, q)]
      /\ UNCHANGED <<clock, syncedFacts, inFlight, heard>>
  BY DEF QueueFact
<1>2. v \in Version
  BY SyncAssumption DEF Version, SyncInv, SyncTypes
<1>3. q \in Queued
  BY <1>2 DEF Queued
<1> HIDE DEF v, q
<1>4. DOMAIN queue' = Devices /\ \A e \in Devices : queue'[e] \in Seq(Queued)
  BY <1>1, <1>3, AppendProperties DEF SyncInv, SyncTypes
<1> QED
  BY <1>1, <1>4 DEF SyncInv, SyncTypes, BestVersionHeld

LEMMA SendFactsKept ==
    ASSUME NEW d \in Devices, NEW p \in Devices PROVE SyncInv /\ SendFacts(d, p) => SyncInv'
<1> SUFFICES ASSUME SyncInv, SendFacts(d, p) PROVE SyncInv'
  OBVIOUS
<1>1. /\ UNCHANGED <<clock, queue, syncedFacts, heard>>
      /\ \A m \in inFlight' : m \in inFlight \/ m.version \in FactsForPeer(d, p)
  BY DEF SendFacts
<1>2. FactsForPeer(d, p) \subseteq Version
  <2>1. queue[d] \in Seq(Queued) /\ DOMAIN queue[d] = 1 .. Len(queue[d])
    BY LenProperties DEF SyncInv, SyncTypes
  <2>2. \A i \in DOMAIN queue[d] : queue[d][i] \in Queued
    BY <2>1, ElementOfSeq
  <2> QED
    BY <2>2 DEF FactsForPeer, Queued
<1> QED
  BY <1>1, <1>2 DEF SyncInv, SyncTypes, BestVersionHeld

LEMMA MarkSyncedKept ==
    ASSUME NEW d \in Devices PROVE SyncInv /\ MarkSynced(d) => SyncInv'
<1> SUFFICES ASSUME SyncInv, MarkSynced(d) PROVE SyncInv'
  OBVIOUS
<1> DEFINE marked == [i \in DOMAIN queue[d] |->
                        IF queue[d][i].version.id \in awaiting[d][2]
                        THEN [queue[d][i] EXCEPT !.synced = TRUE] ELSE queue[d][i]]
<1>1. /\ queue' = [queue EXCEPT ![d] = marked]
      /\ UNCHANGED <<clock, syncedFacts, inFlight, heard>>
  BY DEF MarkSynced
<1>2. /\ queue[d] \in Seq(Queued) /\ Len(queue[d]) \in Nat
      /\ DOMAIN queue[d] = 1 .. Len(queue[d])
  BY LenProperties DEF SyncInv, SyncTypes
<1>3. \A i \in 1 .. Len(queue[d]) : marked[i] \in Queued
  <2> SUFFICES ASSUME NEW i \in 1 .. Len(queue[d]) PROVE marked[i] \in Queued
    OBVIOUS
  <2>1. queue[d][i] \in Queued
    BY <1>2, ElementOfSeq
  <2>2. [queue[d][i] EXCEPT !.synced = TRUE] \in Queued
    BY <2>1 DEF Queued
  <2> QED
    BY <1>2, <2>1, <2>2
<1>4. marked \in Seq(Queued)
  <2>1. marked \in [1 .. Len(queue[d]) -> Queued]
    BY <1>2, <1>3
  <2> HIDE DEF marked
  <2> QED
    BY <1>2, <2>1, SeqDef
<1> HIDE DEF marked
<1>5. DOMAIN queue' = Devices /\ \A e \in Devices : queue'[e] \in Seq(Queued)
  BY <1>1, <1>4 DEF SyncInv, SyncTypes
<1> QED
  BY <1>1, <1>5 DEF SyncInv, SyncTypes, BestVersionHeld

(* What is held for another fact stays; what is held for this one stays or   *)
(* gives way to a version that is better than it.                            *)
LEMMA ReceiveFactKept ==
    ASSUME NEW d \in Devices, NEW v, SyncInv, ReceiveFact(d, v) PROVE SyncInv'
<1> DEFINE same == {u \in syncedFacts[d] : u.id = v.id}
           kept == IF same = {} THEN {v} ELSE {Resolve(u, v) : u \in same}
<1>1. /\ v \in Version /\ UNCHANGED <<clock, queue, inFlight>>
      /\ syncedFacts' = [syncedFacts EXCEPT ![d] = (@ \ same) \cup kept]
      /\ heard' = [heard EXCEPT ![d] = @ \cup {v}]
  <2>1. [to |-> d, version |-> v].version = v
    OBVIOUS
  <2> QED
    BY <2>1 DEF ReceiveFact, SyncInv, SyncTypes
<1>2. syncedFacts[d] \subseteq Version /\ heard[d] \subseteq Version
  BY DEF SyncInv, SyncTypes
<1>3. kept \subseteq Version /\ \A u \in kept : u.id = v.id
  BY <1>1, <1>2 DEF Resolve
<1>4. /\ syncedFacts'[d] = (syncedFacts[d] \ same) \cup kept
      /\ heard'[d] = heard[d] \cup {v}
      /\ \A e \in Devices \ {d} : syncedFacts'[e] = syncedFacts[e] /\ heard'[e] = heard[e]
  BY <1>1 DEF SyncInv, SyncTypes
<1>5. SyncTypes'
  <2> HIDE DEF same, kept
  <2>1. /\ syncedFacts' \in [Devices -> SUBSET Version]
        /\ heard' \in [Devices -> SUBSET Version]
    BY <1>1, <1>2, <1>3 DEF SyncInv, SyncTypes
  <2> QED
    BY <1>1, <2>1 DEF SyncInv, SyncTypes
<1>6. \A u \in same : \E k \in kept : ~Better(v, k) /\ (k = u \/ (k = v /\ Better(v, u)))
  <2> SUFFICES ASSUME NEW u \in same
               PROVE  ~Better(v, Resolve(u, v)) /\ (Resolve(u, v) = u \/ (Resolve(u, v) = v /\ Better(v, u)))
    OBVIOUS
  <2>1. u \in Version
    BY <1>2
  <2>2. CASE RemoteWins(u, v)
    <3>1. Resolve(u, v) = v
      BY <2>2 DEF Resolve
    <3>2. Better(v, u) /\ ~Better(v, v)
      BY <1>1, <2>1, <2>2, WinsMeans, BetterOrders
    <3> QED
      BY <3>1, <3>2
  <2>3. CASE ~RemoteWins(u, v)
    <3>1. Resolve(u, v) = u
      BY <2>3 DEF Resolve
    <3>2. ~Better(v, u)
      BY <1>1, <2>1, <2>3, WinsMeans
    <3> QED
      BY <3>1, <3>2
  <2> QED
    BY <2>2, <2>3
<1>7. ASSUME NEW w \in heard'[d]
      PROVE  \E k \in syncedFacts'[d] : k.id = w.id /\ ~Better(w, k)
  <2>0. w \in Version /\ (w = v \/ w \in heard[d])
    BY <1>1, <1>2, <1>4
  <2>1. CASE w = v
    <3>1. CASE same = {}
      <4>1. v \in syncedFacts'[d]
        BY <1>4, <3>1
      <4> QED
        BY <1>1, <2>1, <4>1, BetterOrders
    <3>2. CASE same # {}
      <4>1. PICK k \in kept : ~Better(v, k)
        BY <1>6, <3>2
      <4> HIDE DEF same, kept
      <4> QED
        BY <1>3, <1>4, <2>1, <4>1
    <3> QED
      BY <3>1, <3>2
  <2>2. CASE w \in heard[d]
    <3>1. PICK u \in syncedFacts[d] : u.id = w.id /\ ~Better(w, u)
      BY <2>2 DEF SyncInv, BestVersionHeld
    <3>2. CASE u \notin same
      <4> HIDE DEF same, kept
      <4> QED
        BY <1>4, <3>1, <3>2
    <3>3. CASE u \in same
      <4>1. u.id = v.id
        BY <3>3
      <4>2. PICK k \in kept : k = u \/ (k = v /\ Better(v, u))
        BY <1>6, <3>3
      <4> HIDE DEF same, kept
      <4>3. ~Better(w, k)
        BY <1>1, <1>2, <2>0, <3>1, <4>2, BetterOrders
      <4> QED
        BY <1>3, <1>4, <3>1, <4>1, <4>2, <4>3
    <3> QED
      BY <3>2, <3>3
  <2> QED
    BY <2>0, <2>1, <2>2
<1>8. BestVersionHeld'
  <2> HIDE DEF same, kept
  <2>1. ASSUME NEW e \in Devices, NEW w \in heard'[e]
        PROVE  \E k \in syncedFacts'[e] : k.id = w.id /\ ~Better(w, k)
    <3>1. CASE e = d
      BY <1>7, <3>1
    <3>2. CASE e # d
      BY <1>4, <3>2 DEF SyncInv, BestVersionHeld
    <3> QED
      BY <3>1, <3>2
  <2> QED
    BY <2>1 DEF BestVersionHeld
<1> QED
  BY <1>5, <1>8 DEF SyncInv

LEMMA SyncKept == SyncInv /\ [SyncNext]_syncVars => SyncInv'
<1> SUFFICES ASSUME SyncInv, [SyncNext]_syncVars PROVE SyncInv'
  OBVIOUS
<1>1. CASE Tick
  <2>1. clock' \in Nat
    BY <1>1 DEF Tick, SyncInv, SyncTypes
  <2> QED
    BY <1>1, <2>1 DEF Tick, SyncInv, SyncTypes, BestVersionHeld
<1>2. CASE (\E d \in Devices : NoAnswer(d)) \/ UNCHANGED syncVars
  <2>1. UNCHANGED <<clock, queue, syncedFacts, inFlight, heard>>
    BY <1>2 DEF NoAnswer, syncVars
  <2> QED
    BY <2>1 DEF SyncInv, SyncTypes, BestVersionHeld
<1> QED
  BY <1>1, <1>2, QueueFactKept, SendFactsKept, MarkSyncedKept, ReceiveFactKept DEF SyncNext

(* For any devices, facts and priorities, whatever is lost, late, repeated   *)
(* or out of order: a device holds, of every fact it ever heard of, a        *)
(* version that none it heard should replace.                                *)
THEOREM BestVersionKept == SyncSpec => []BestVersionHeld
<1>1. SyncSpec => []SyncInv
  BY SyncInitial, SyncKept, PTL DEF SyncSpec
<1>2. SyncInv => BestVersionHeld
  BY DEF SyncInv
<1> QED
  BY <1>1, <1>2, PTL

-----------------------------------------------------------------------------
(* Copy-on-write snapshots                                                 *)

Page   == [data : Contents, size : Nat, refs : Int]
Tables == UNION {[D -> Nat] : D \in SUBSET Nat}
Snap   == [id : Nat, name : SnapNames, table : Tables]

CowTypes ==
    /\ nextPageId \in Nat \ {0} /\ nextSnapId \in Nat \ {0}
    /\ heap \in [DOMAIN heap -> Page]
    /\ \A p \in DOMAIN heap : p \in Nat /\ p < nextPageId
    /\ livePages \in Tables /\ snapshots \in Seq(Snap)
    /\ \A o \in Owners : DOMAIN o[2] \subseteq 1 .. nextPageId - 1

(* No snapshot has the id of the live regions (0), of another one, or of one *)
(* that is still to be taken.                                                *)
IdsDistinct ==
    /\ \A i \in DOMAIN snapshots : snapshots[i].id > 0 /\ snapshots[i].id < nextSnapId
    /\ \A i, j \in DOMAIN snapshots : snapshots[i].id = snapshots[j].id => i = j

(* What counting relies on: an owner has one table, which is finite, and so  *)
(* is what points to a page.                                                 *)
Sound(owners) ==
    /\ \A o \in owners : o = <<o[1], o[2]>> /\ IsFiniteSet(DOMAIN o[2])
    /\ \A o, u \in owners : o[1] = u[1] => o = u
    /\ \A p : IsFiniteSet(Pointing(owners, p))

(* PagesCounted of any heap and owners. *)
CountedBy(h, owners) ==
    /\ \A p \in DOMAIN h : h[p].refs = Cardinality(Pointing(owners, p)) /\ h[p].refs > 0
    /\ \A o \in owners : \A r \in DOMAIN o[2] : o[2][r] \in DOMAIN h

CowInv == CowTypes /\ IdsDistinct /\ Sound(Owners) /\ CountedBy(heap, Owners)

(* The step that SnapshotsKept allows. *)
SnapshotsStay ==
    \A i \in DOMAIN snapshots, j \in DOMAIN snapshots' :
        snapshots[i].id = snapshots'[j].id =>
            Frozen(heap, snapshots[i]) = Frozen(heap', snapshots'[j])

Cells(k, t, p) == {<<k, r>> : r \in {x \in DOMAIN t : t[x] = p}}

LEMMA CellsCount ==
    ASSUME NEW k, NEW t, NEW p, IsFiniteSet(DOMAIN t)
    PROVE  /\ IsFiniteSet(Cells(k, t, p)) /\ Cardinality(Cells(k, t, p)) = Pointers(t, p)
           /\ Pointers(t, p) \in Nat
<1> DEFINE S == {x \in DOMAIN t : t[x] = p}
           T == Cells(k, t, p)
           f == [x \in S |-> <<k, x>>]
<1>1. S \in SUBSET DOMAIN t
  OBVIOUS
<1>2. IsFiniteSet(S) /\ Cardinality(S) \in Nat
  BY <1>1, FS_Subset, FS_CardinalityType
<1>3. f \in Bijection(S, T)
  <2>1. f \in [S -> T]
    BY DEF Cells
  <2>2. \A x, y \in S : f[x] = f[y] => x = y
    OBVIOUS
  <2>3. \A c \in T : \E x \in S : f[x] = c
    BY DEF Cells
  <2> HIDE DEF f, S, T
  <2>4. f \in Injection(S, T)
    BY <2>1, <2>2 DEF Injection, IsInjective
  <2>5. f \in Surjection(S, T)
    BY <2>1, <2>3 DEF Surjection
  <2> QED
    BY <2>4, <2>5 DEF Bijection
<1>4. ExistsBijection(S, T)
  BY <1>3 DEF ExistsBijection
<1>5. IsFiniteSet(T) /\ Cardinality(T) = Cardinality(S)
  BY <1>2, <1>4, FS_Bijection
<1> QED
  BY <1>2, <1>5 DEF Pointers

LEMMA PointingWith ==
    ASSUME NEW owners, NEW k, NEW t, NEW p
    PROVE  Pointing(owners \cup {<<k, t>>}, p) = Pointing(owners, p) \cup Cells(k, t, p)
<1> DEFINE all == owners \cup {<<k, t>>}
<1>1. ASSUME NEW e \in Pointing(all, p) PROVE e \in Pointing(owners, p) \cup Cells(k, t, p)
  <2>1. PICK o \in all : e \in {<<o[1], r>> : r \in {x \in DOMAIN o[2] : o[2][x] = p}}
    BY DEF Pointing
  <2>2. CASE o \in owners
    BY <2>1, <2>2 DEF Pointing
  <2>3. CASE o = <<k, t>>
    BY <2>1, <2>3 DEF Cells
  <2> QED
    BY <2>2, <2>3
<1>2. ASSUME NEW e \in Pointing(owners, p) PROVE e \in Pointing(all, p)
  BY DEF Pointing
<1>3. ASSUME NEW e \in Cells(k, t, p) PROVE e \in Pointing(all, p)
  <2> DEFINE o == <<k, t>>
  <2>1. o \in all /\ o[1] = k /\ o[2] = t
    OBVIOUS
  <2>2. e \in {<<o[1], r>> : r \in {x \in DOMAIN o[2] : o[2][x] = p}}
    BY <2>1 DEF Cells
  <2> HIDE DEF o, all
  <2> QED
    BY <2>1, <2>2 DEF Pointing
<1> QED
  BY <1>1, <1>2, <1>3

(* One owner more has its pointers counted once more. *)
LEMMA OwnerAdded ==
    ASSUME NEW owners, NEW k, NEW t, NEW p, \A o \in owners : o[1] # k,
           IsFiniteSet(DOMAIN t), IsFiniteSet(Pointing(owners, p))
    PROVE  /\ IsFiniteSet(Pointing(owners \cup {<<k, t>>}, p))
           /\ Cardinality(Pointing(owners \cup {<<k, t>>}, p))
                 = Cardinality(Pointing(owners, p)) + Pointers(t, p)
           /\ Cardinality(Pointing(owners, p)) \in Nat /\ Pointers(t, p) \in Nat
<1>1. Pointing(owners, p) \cap Cells(k, t, p) = {}
  BY DEF Pointing, Cells
<1>2. /\ IsFiniteSet(Cells(k, t, p)) /\ Cardinality(Cells(k, t, p)) = Pointers(t, p)
      /\ Pointers(t, p) \in Nat
  BY CellsCount
<1> DEFINE A == Pointing(owners, p)
           C == Cells(k, t, p)
<1>3. Pointing(owners \cup {<<k, t>>}, p) = A \cup C
  BY PointingWith
<1>4. IsFiniteSet(A) /\ IsFiniteSet(C) /\ A \cap C = {}
  BY <1>1, <1>2
<1> HIDE DEF A, C
<1>5. /\ IsFiniteSet(A \cup C) /\ Cardinality(A \cup C) = Cardinality(A) + Cardinality(C)
      /\ Cardinality(A) \in Nat
  BY <1>4, DisjointUnion, FS_CardinalityType
<1> QED
  BY <1>2, <1>3, <1>5 DEF A, C

LEMMA OwnerRemoved ==
    ASSUME NEW owners, NEW k, NEW t, NEW p, Sound(owners), <<k, t>> \in owners
    PROVE  LET rest == owners \ {<<k, t>>}
           IN  /\ IsFiniteSet(Pointing(rest, p))
               /\ Cardinality(Pointing(owners, p))
                     = Cardinality(Pointing(rest, p)) + Pointers(t, p)
               /\ Cardinality(Pointing(rest, p)) \in Nat /\ Pointers(t, p) \in Nat
<1> DEFINE rest == owners \ {<<k, t>>}
<1>1. /\ owners = rest \cup {<<k, t>>} /\ \A o \in rest : o[1] # k
      /\ IsFiniteSet(DOMAIN t) /\ IsFiniteSet(Pointing(owners, p))
  BY DEF Sound
<1> HIDE DEF rest
<1>2. Pointing(rest, p) \in SUBSET Pointing(owners, p)
  BY <1>1 DEF Pointing
<1>3. IsFiniteSet(Pointing(rest, p))
  BY <1>1, <1>2, FS_Subset
<1> DEFINE A == Pointing(rest, p)
           C == Cells(k, t, p)
<1>4. A \cap C = {}
  BY <1>1 DEF Pointing, Cells
<1>5. /\ IsFiniteSet(C) /\ Cardinality(C) = Pointers(t, p) /\ Pointers(t, p) \in Nat
  BY <1>1, CellsCount
<1>6. Pointing(rest \cup {<<k, t>>}, p) = A \cup C
  BY PointingWith
<1>7. Pointing(owners, p) = A \cup C /\ IsFiniteSet(A)
  BY <1>1, <1>3, <1>6
<1> HIDE DEF A, C
<1>8. /\ Cardinality(A \cup C) = Cardinality(A) + Cardinality(C)
      /\ Cardinality(A) \in Nat
  BY <1>4, <1>5, <1>7, DisjointUnion, FS_CardinalityType
<1> QED
  BY <1>5, <1>7, <1>8 DEF rest, A

(* Counting every pointer of a table once more shares its pages with it.     *)
LEMMA CountedUp ==
    ASSUME NEW h, h \in [DOMAIN h -> Page], NEW owners, Sound(owners), CountedBy(h, owners),
           NEW k, NEW t, \A o \in owners : o[1] # k,
           IsFiniteSet(DOMAIN t), \A r \in DOMAIN t : t[r] \in DOMAIN h
    PROVE  LET g == Counted(h, t, 1)
               all == owners \cup {<<k, t>>}
           IN  /\ DOMAIN g = DOMAIN h /\ g \in [DOMAIN g -> Page]
               /\ \A p \in DOMAIN g : g[p].data = h[p].data
               /\ Sound(all) /\ CountedBy(g, all)
<1> DEFINE g == Counted(h, t, 1)
           all == owners \cup {<<k, t>>}
           f == [p \in DOMAIN h |-> [h[p] EXCEPT !.refs = @ + 1 * Pointers(t, p)]]
<1>1. ASSUME NEW p
      PROVE  /\ IsFiniteSet(Pointing(all, p))
             /\ Cardinality(Pointing(all, p)) = Cardinality(Pointing(owners, p)) + Pointers(t, p)
             /\ Cardinality(Pointing(owners, p)) \in Nat /\ Pointers(t, p) \in Nat
  <2>1. IsFiniteSet(Pointing(owners, p))
    BY DEF Sound
  <2> QED
    BY <2>1, OwnerAdded
<1>2. ASSUME NEW p \in DOMAIN h
      PROVE  /\ f[p] \in Page /\ f[p].data = h[p].data
             /\ f[p].refs = Cardinality(Pointing(all, p)) /\ f[p].refs > 0
  <2>1. /\ h[p] \in Page /\ h[p].refs \in Int /\ h[p].refs > 0
        /\ h[p].refs = Cardinality(Pointing(owners, p))
    BY DEF Page, CountedBy
  <2>2. Pointers(t, p) \in Nat /\ h[p].refs + 1 * Pointers(t, p) = h[p].refs + Pointers(t, p)
        /\ h[p].refs + Pointers(t, p) \in Int /\ h[p].refs + Pointers(t, p) > 0
    BY <1>1, <2>1
  <2>3. f[p] = [h[p] EXCEPT !.refs = h[p].refs + Pointers(t, p)]
    BY <2>2
  <2>4. f[p] \in Page /\ f[p].data = h[p].data /\ f[p].refs = h[p].refs + Pointers(t, p)
    BY <2>1, <2>2, <2>3 DEF Page
  <2> QED
    BY <1>1, <2>1, <2>2, <2>4
<1>3. DOMAIN g = DOMAIN h /\ \A p \in DOMAIN h : g[p] = f[p]
  <2>1. g = Keep(f, {p \in DOMAIN f : f[p].refs > 0})
    BY DEF Counted
  <2>2. {p \in DOMAIN f : f[p].refs > 0} = DOMAIN h
    BY <1>2
  <2> QED
    BY <2>1, <2>2 DEF Keep
<1>4. g \in [DOMAIN g -> Page]
  <2>1. g = [p \in DOMAIN g |-> g[p]]
    BY DEF Counted, Keep
  <2> HIDE DEF g, f
  <2> QED
    BY <1>2, <1>3, <2>1
<1> HIDE DEF g, f
<1>5. Sound(all)
  <2>1. /\ \A o \in all : o = <<o[1], o[2]>> /\ IsFiniteSet(DOMAIN o[2])
        /\ \A o, u \in all : o[1] = u[1] => o = u
    BY DEF Sound
  <2> HIDE DEF all
  <2> QED
    BY <1>1, <2>1 DEF Sound
<1>6. CountedBy(g, all)
  <2>1. \A o \in all : \A r \in DOMAIN o[2] : o[2][r] \in DOMAIN g
    BY <1>3 DEF CountedBy
  <2> HIDE DEF all
  <2> QED
    BY <1>2, <1>3, <2>1 DEF CountedBy
<1> QED
  BY <1>2, <1>3, <1>4, <1>5, <1>6 DEF g

(* Counting them once less leaves the pages that others point to, as they were. *)
LEMMA CountedDown ==
    ASSUME NEW h, h \in [DOMAIN h -> Page], NEW owners, Sound(owners), CountedBy(h, owners),
           NEW k, NEW t, <<k, t>> \in owners
    PROVE  LET g == Counted(h, t, -1)
               rest == owners \ {<<k, t>>}
           IN  /\ DOMAIN g \subseteq DOMAIN h /\ g \in [DOMAIN g -> Page]
               /\ \A p \in DOMAIN g : g[p].data = h[p].data
               /\ Sound(rest) /\ CountedBy(g, rest)
<1> DEFINE g == Counted(h, t, -1)
           rest == owners \ {<<k, t>>}
           f == [p \in DOMAIN h |-> [h[p] EXCEPT !.refs = @ + (-1) * Pointers(t, p)]]
<1>1. ASSUME NEW p
      PROVE  /\ IsFiniteSet(Pointing(rest, p))
             /\ Cardinality(Pointing(owners, p)) = Cardinality(Pointing(rest, p)) + Pointers(t, p)
             /\ Cardinality(Pointing(rest, p)) \in Nat /\ Pointers(t, p) \in Nat
  BY OwnerRemoved
<1>2. ASSUME NEW p \in DOMAIN h
      PROVE  /\ f[p] \in Page /\ f[p].data = h[p].data
             /\ f[p].refs = Cardinality(Pointing(rest, p))
  <2>1. /\ h[p] \in Page /\ h[p].refs \in Int
        /\ h[p].refs = Cardinality(Pointing(owners, p))
    BY DEF Page, CountedBy
  <2> DEFINE a == Cardinality(Pointing(owners, p))
             b == Cardinality(Pointing(rest, p))
             c == Pointers(t, p)
             x == h[p].refs
  <2>a. a = b + c /\ b \in Nat /\ c \in Nat /\ x = a
    BY <1>1, <2>1
  <2>2. /\ h[p].refs + (-1) * Pointers(t, p) = Cardinality(Pointing(rest, p))
        /\ Cardinality(Pointing(rest, p)) \in Int
    <3> HIDE DEF a, b, c, x
    <3>1. x + (-1) * c = b /\ b \in Int
      BY <2>a
    <3> QED
      BY <3>1 DEF b, c, x
  <2>3. f[p] = [h[p] EXCEPT !.refs = Cardinality(Pointing(rest, p))]
    BY <2>2
  <2> QED
    BY <2>1, <2>2, <2>3 DEF Page
<1>3. /\ DOMAIN g = {p \in DOMAIN h : f[p].refs > 0} /\ \A p \in DOMAIN g : g[p] = f[p]
      /\ g = [p \in DOMAIN g |-> g[p]]
  <2>1. g = Keep(f, {p \in DOMAIN f : f[p].refs > 0})
    BY DEF Counted
  <2>2. {p \in DOMAIN f : f[p].refs > 0} = {p \in DOMAIN h : f[p].refs > 0}
    OBVIOUS
  <2> QED
    BY <2>1, <2>2 DEF Keep
<1> HIDE DEF g, f
<1>4. g \in [DOMAIN g -> Page] /\ DOMAIN g \subseteq DOMAIN h
  BY <1>2, <1>3
<1>5. Sound(rest)
  <2>1. /\ \A o \in rest : o = <<o[1], o[2]>> /\ IsFiniteSet(DOMAIN o[2])
        /\ \A o, u \in rest : o[1] = u[1] => o = u
    BY DEF Sound
  <2> HIDE DEF rest
  <2> QED
    BY <1>1, <2>1 DEF Sound
<1>6. ASSUME NEW o \in rest, NEW r \in DOMAIN o[2] PROVE o[2][r] \in DOMAIN g
  <2> DEFINE p == o[2][r]
  <2>1. p \in DOMAIN h
    BY DEF CountedBy
  <2>2. <<o[1], r>> \in Pointing(rest, p)
    BY DEF Pointing
  <2> HIDE DEF p, rest
  <2>3. Cardinality(Pointing(rest, p)) > 0
    BY <1>1, <2>2, FS_EmptySet
  <2> QED
    BY <1>2, <1>3, <2>1, <2>3 DEF p
<1>7. CountedBy(g, rest)
  <2> HIDE DEF rest
  <2> QED
    BY <1>2, <1>3, <1>6 DEF CountedBy
<1> QED
  BY <1>2, <1>3, <1>4, <1>5, <1>7 DEF g

(* Who owns pages: the snapshots, and the live regions.                      *)
Kept(snaps)        == {<<s.id, s.table>> : s \in ToSet(snaps)}
Owned(live, snaps) == Kept(snaps) \cup {<<0, live>>}

LEMMA OwnersAre == Owners = Owned(livePages, snapshots) /\ Owners' = Owned(livePages', snapshots')
BY DEF Owners, Owned, Kept

LEMMA CowFacts ==
    ASSUME CowInv
    PROVE  /\ Len(snapshots) \in Nat /\ DOMAIN snapshots = 1 .. Len(snapshots)
           /\ <<0, livePages>> \in Owners
           /\ IsFiniteSet(DOMAIN livePages) /\ DOMAIN livePages \subseteq 1 .. nextPageId - 1
           /\ \A r \in DOMAIN livePages : livePages[r] \in DOMAIN heap
           /\ \A i \in DOMAIN snapshots :
                 /\ snapshots[i] \in Snap /\ snapshots[i].id \in Nat /\ snapshots[i].id > 0
                 /\ snapshots[i].id < nextSnapId
                 /\ <<snapshots[i].id, snapshots[i].table>> \in Kept(snapshots)
                 /\ <<snapshots[i].id, snapshots[i].table>> \in Owners
                 /\ snapshots[i].table \in Tables
                 /\ IsFiniteSet(DOMAIN snapshots[i].table)
                 /\ DOMAIN snapshots[i].table \subseteq 1 .. nextPageId - 1
                 /\ \A r \in DOMAIN snapshots[i].table : snapshots[i].table[r] \in DOMAIN heap
           /\ \A o \in Kept(snapshots) :
                 \E i \in DOMAIN snapshots : o = <<snapshots[i].id, snapshots[i].table>>
           /\ \A o \in Kept(snapshots) : o[1] # 0 /\ o[1] # nextSnapId
           /\ Kept(snapshots) = Owners \ {<<0, livePages>>}
           /\ nextPageId \notin DOMAIN heap
<1>1. Len(snapshots) \in Nat /\ DOMAIN snapshots = 1 .. Len(snapshots)
  BY LenProperties DEF CowInv, CowTypes
<1>2. <<0, livePages>> \in Owners
  BY DEF Owners
<1>3. ASSUME NEW k, NEW t, <<k, t>> \in Owners
      PROVE  /\ IsFiniteSet(DOMAIN t) /\ DOMAIN t \subseteq 1 .. nextPageId - 1
             /\ \A r \in DOMAIN t : t[r] \in DOMAIN heap
  <2> DEFINE o == <<k, t>>
  <2>1. o \in Owners /\ o[2] = t
    BY <1>3
  <2> HIDE DEF o
  <2>2. /\ IsFiniteSet(DOMAIN o[2]) /\ DOMAIN o[2] \subseteq 1 .. nextPageId - 1
        /\ \A r \in DOMAIN o[2] : o[2][r] \in DOMAIN heap
    BY <2>1 DEF CowInv, CowTypes, Sound, CountedBy
  <2> QED
    BY <2>1, <2>2
<1>4. /\ IsFiniteSet(DOMAIN livePages) /\ DOMAIN livePages \subseteq 1 .. nextPageId - 1
      /\ \A r \in DOMAIN livePages : livePages[r] \in DOMAIN heap
  BY <1>2, <1>3
<1>5. ASSUME NEW i \in DOMAIN snapshots
      PROVE  /\ snapshots[i] \in Snap /\ snapshots[i].id \in Nat /\ snapshots[i].id > 0
             /\ snapshots[i].id < nextSnapId
             /\ <<snapshots[i].id, snapshots[i].table>> \in Kept(snapshots)
             /\ <<snapshots[i].id, snapshots[i].table>> \in Owners
             /\ snapshots[i].table \in Tables
             /\ IsFiniteSet(DOMAIN snapshots[i].table)
             /\ DOMAIN snapshots[i].table \subseteq 1 .. nextPageId - 1
             /\ \A r \in DOMAIN snapshots[i].table : snapshots[i].table[r] \in DOMAIN heap
  <2>1. snapshots[i] \in Snap
    BY <1>1, ElementOfSeq DEF CowInv, CowTypes
  <2>2. /\ snapshots[i].id \in Nat /\ snapshots[i].id > 0 /\ snapshots[i].id < nextSnapId
        /\ snapshots[i].table \in Tables
    BY <2>1 DEF CowInv, IdsDistinct, Snap
  <2>3. /\ <<snapshots[i].id, snapshots[i].table>> \in Kept(snapshots)
        /\ <<snapshots[i].id, snapshots[i].table>> \in Owners
    BY DEF Kept, Owners, ToSet
  <2>4. /\ IsFiniteSet(DOMAIN snapshots[i].table)
        /\ DOMAIN snapshots[i].table \subseteq 1 .. nextPageId - 1
        /\ \A r \in DOMAIN snapshots[i].table : snapshots[i].table[r] \in DOMAIN heap
    BY <1>3, <2>3
  <2> QED
    BY <2>1, <2>2, <2>3, <2>4
<1>6. \A o \in Kept(snapshots) :
         \E i \in DOMAIN snapshots : o = <<snapshots[i].id, snapshots[i].table>>
  BY DEF Kept, ToSet
<1>7. ASSUME NEW o \in Kept(snapshots) PROVE o[1] # 0 /\ o[1] # nextSnapId
  <2>1. PICK i \in DOMAIN snapshots : o = <<snapshots[i].id, snapshots[i].table>>
    BY <1>6
  <2>2. o[1] = snapshots[i].id /\ nextSnapId \in Nat
    BY <2>1 DEF CowInv, CowTypes
  <2>3. snapshots[i].id \in Nat /\ snapshots[i].id > 0 /\ snapshots[i].id < nextSnapId
    BY <1>5
  <2> HIDE DEF CowInv
  <2> QED
    BY <2>2, <2>3
<1>8. Kept(snapshots) = Owners \ {<<0, livePages>>}
  <2>1. <<0, livePages>> \notin Kept(snapshots)
    BY <1>7
  <2> QED
    BY <2>1, OwnersAre DEF Owned
<1>9. nextPageId \notin DOMAIN heap
  BY DEF CowInv, CowTypes
<1> QED
  BY <1>1, <1>2, <1>4, <1>5, <1>6, <1>7, <1>8, <1>9

(* As long as the pages of a snapshot hold the same, so does the snapshot.   *)
LEMMA SameSnapshots ==
    ASSUME CowInv, snapshots' = snapshots,
           \A i \in DOMAIN snapshots : \A r \in DOMAIN snapshots[i].table :
               heap'[snapshots[i].table[r]].data = heap[snapshots[i].table[r]].data
    PROVE  SnapshotsStay
<1> SUFFICES ASSUME NEW i \in DOMAIN snapshots, NEW j \in DOMAIN snapshots',
                    snapshots[i].id = snapshots'[j].id
             PROVE  Frozen(heap, snapshots[i]) = Frozen(heap', snapshots'[j])
  BY DEF SnapshotsStay
<1>1. i = j
  BY DEF CowInv, IdsDistinct
<1> QED
  BY <1>1 DEF Frozen

(* Pages and owners apart, nothing changes when no snapshot does.            *)
LEMMA LiveSound ==
    ASSUME CowInv, snapshots' = snapshots, IsFiniteSet(DOMAIN livePages')
    PROVE  /\ Sound(Owners')
           /\ \A p : Pointing(Owners, p) = Pointing(Kept(snapshots), p) \cup Cells(0, livePages, p)
           /\ \A p : Pointing(Owners', p) = Pointing(Kept(snapshots), p) \cup Cells(0, livePages', p)
<1>1. /\ Owners = Kept(snapshots) \cup {<<0, livePages>>}
      /\ Owners' = Kept(snapshots) \cup {<<0, livePages'>>}
  BY OwnersAre DEF Owned
<1>2. \A p : Pointing(Owners, p) = Pointing(Kept(snapshots), p) \cup Cells(0, livePages, p)
  BY <1>1, PointingWith
<1>3. \A p : Pointing(Owners', p) = Pointing(Kept(snapshots), p) \cup Cells(0, livePages', p)
  BY <1>1, PointingWith
<1>4. ASSUME NEW p PROVE IsFiniteSet(Pointing(Owners', p))
  <2> DEFINE A == Pointing(Kept(snapshots), p)
             C == Cells(0, livePages', p)
  <2>1. A \in SUBSET Pointing(Owners, p) /\ IsFiniteSet(Pointing(Owners, p))
    BY <1>2 DEF CowInv, Sound
  <2>2. IsFiniteSet(A) /\ IsFiniteSet(C)
    BY <2>1, FS_Subset, CellsCount
  <2>3. A \cap C = {}
    BY CowFacts DEF Pointing, Cells
  <2>4. Pointing(Owners', p) = A \cup C
    BY <1>3
  <2> HIDE DEF A, C
  <2> QED
    BY <2>2, <2>3, <2>4, DisjointUnion
<1>5. \A o \in Kept(snapshots) : o = <<o[1], o[2]>> /\ IsFiniteSet(DOMAIN o[2]) /\ o[1] # 0
  BY <1>1, CowFacts DEF CowInv, Sound
<1>6. \A o, u \in Kept(snapshots) : o[1] = u[1] => o = u
  BY <1>1 DEF CowInv, Sound
<1>7. /\ \A o \in Owners' : o = <<o[1], o[2]>> /\ IsFiniteSet(DOMAIN o[2])
      /\ \A o, u \in Owners' : o[1] = u[1] => o = u
  BY <1>1, <1>5, <1>6
<1> QED
  BY <1>2, <1>3, <1>4, <1>7 DEF Sound

LEMMA CowInitial == ASSUME CowInit PROVE CowInv
<1>1. Owners = {<<0, <<>>>>} /\ DOMAIN heap = {} /\ DOMAIN snapshots = {} /\ DOMAIN livePages = {}
  BY OwnersAre DEF CowInit, Owned, Kept, ToSet
<1>2. CowTypes
  <2>1. livePages \in [{} -> Nat] /\ {} \in SUBSET Nat
    BY DEF CowInit
  <2>2. livePages \in Tables
    BY <2>1 DEF Tables
  <2>3. heap \in [DOMAIN heap -> Page] /\ snapshots \in Seq(Snap)
    BY <1>1 DEF CowInit
  <2> QED
    BY <1>1, <2>2, <2>3 DEF CowTypes, CowInit
<1>3. \A p : Pointing(Owners, p) = {}
  BY <1>1 DEF Pointing, CowInit
<1>4. Sound(Owners)
  <2>1. \A o \in Owners : o = <<o[1], o[2]>> /\ DOMAIN o[2] = {}
    BY <1>1 DEF CowInit
  <2> QED
    BY <1>1, <1>3, <2>1, FS_EmptySet DEF Sound
<1>5. CountedBy(heap, Owners)
  <2>1. \A o \in Owners : DOMAIN o[2] = {}
    BY <1>1 DEF CowInit
  <2> QED
    BY <1>1, <2>1 DEF CountedBy
<1> QED
  BY <1>1, <1>2, <1>4, <1>5 DEF CowInv, IdsDistinct

(* A region that gets a new page leaves the one it had, if any, and is the   *)
(* only one that points to the new one.                                      *)
LEMMA RegionMoved ==
    ASSUME CowInv, NEW r \in Nat, r < nextPageId + 1, snapshots' = snapshots,
           nextPageId' = nextPageId + 1, livePages' = With(livePages, r, nextPageId)
    PROVE  /\ Sound(Owners') /\ livePages' \in Tables
           /\ \A p : p # nextPageId => Pointing(Owners', p) = Pointing(Owners, p) \ {<<0, r>>}
           /\ Pointing(Owners', nextPageId) = {<<0, r>>}
           /\ \A x \in DOMAIN livePages :
                 x # r => <<0, x>> \in Pointing(Owners, livePages[x])
           /\ \A o \in Owners' : \A x \in DOMAIN o[2] :
                 o[2][x] \in DOMAIN heap \cup {nextPageId}
           /\ \A o \in Kept(snapshots) : DOMAIN o[2] \subseteq 1 .. nextPageId - 1
<1> DEFINE n == nextPageId
<1>1. /\ DOMAIN livePages' = DOMAIN livePages \cup {r} /\ livePages'[r] = n
      /\ \A x \in DOMAIN livePages' : x # r => livePages'[x] = livePages[x]
  BY DEF With
<1>2. IsFiniteSet(DOMAIN livePages')
  <2>1. IsFiniteSet(DOMAIN livePages)
    BY CowFacts
  <2>2. IsFiniteSet(DOMAIN livePages \cup {r})
    BY <2>1, FS_AddElement
  <2> QED
    BY <1>1, <2>2
<1>3. /\ Sound(Owners')
      /\ \A p : Pointing(Owners, p) = Pointing(Kept(snapshots), p) \cup Cells(0, livePages, p)
      /\ \A p : Pointing(Owners', p) = Pointing(Kept(snapshots), p) \cup Cells(0, livePages', p)
  BY <1>2, LiveSound
<1>4. \A p : <<0, r>> \notin Pointing(Kept(snapshots), p)
  BY CowFacts DEF Pointing
<1>5. ASSUME NEW p, p # n PROVE Cells(0, livePages', p) = Cells(0, livePages, p) \ {<<0, r>>}
  BY <1>1, <1>5 DEF Cells
<1>6. ASSUME NEW p, p # n PROVE Pointing(Owners', p) = Pointing(Owners, p) \ {<<0, r>>}
  BY <1>3, <1>4, <1>5, <1>6
<1>7. Cells(0, livePages', n) = {<<0, r>>}
  <2>1. \A x \in DOMAIN livePages : livePages[x] # n
    BY CowFacts
  <2> QED
    BY <1>1, <2>1 DEF Cells
<1>8. Pointing(Kept(snapshots), n) = {}
  <2>1. \A o \in Kept(snapshots) : \A x \in DOMAIN o[2] : o[2][x] # n
    BY CowFacts DEF CowInv, CountedBy
  <2> QED
    BY <2>1 DEF Pointing
<1>9. Pointing(Owners', n) = {<<0, r>>}
  BY <1>3, <1>7, <1>8
<1>10. \A x \in DOMAIN livePages : <<0, x>> \in Pointing(Owners, livePages[x])
  BY <1>3 DEF Cells
<1>11. livePages' \in Tables
  <2>1. PICK D \in SUBSET Nat : livePages \in [D -> Nat]
    BY DEF CowInv, CowTypes, Tables
  <2>2. D \cup {r} \in SUBSET Nat /\ livePages' \in [D \cup {r} -> Nat]
    BY <2>1 DEF With, CowInv, CowTypes
  <2> QED
    BY <2>2 DEF Tables
<1>12. ASSUME NEW o \in Owners', NEW x \in DOMAIN o[2]
       PROVE  o[2][x] \in DOMAIN heap \cup {n}
  <2>1. Owners' = Kept(snapshots) \cup {<<0, livePages'>>}
    BY OwnersAre DEF Owned
  <2>2. CASE o \in Kept(snapshots)
    BY <2>2, CowFacts DEF CowInv, CountedBy
  <2>3. CASE o = <<0, livePages'>>
    BY <1>1, <2>3, CowFacts
  <2> QED
    BY <2>1, <2>2, <2>3
<1>13. \A o \in Kept(snapshots) : DOMAIN o[2] \subseteq 1 .. nextPageId - 1
  BY CowFacts DEF CowInv, CowTypes
<1> QED
  BY <1>3, <1>6, <1>9, <1>10, <1>11, <1>12, <1>13

LEMMA CreateKeeps ==
    ASSUME CowInv, CowAssumption, NEW size \in PageSizes, CreateRegion(size)
    PROVE  CowInv' /\ SnapshotsStay
<1> DEFINE n == nextPageId
           new == [data |-> Zeroed, size |-> size, refs |-> 1]
<1>1. /\ n \in Nat /\ n < n + 1 /\ new \in Page /\ n \notin DOMAIN heap /\ n \notin DOMAIN livePages
      /\ snapshots' = snapshots /\ nextPageId' = n + 1 /\ nextSnapId' = nextSnapId
      /\ livePages' = With(livePages, n, n) /\ heap' = With(heap, n, new)
  BY CowFacts DEF CowInv, CowTypes, CowAssumption, Page, CreateRegion
<1>2. /\ Sound(Owners') /\ livePages' \in Tables
      /\ \A p : p # n => Pointing(Owners', p) = Pointing(Owners, p) \ {<<0, n>>}
      /\ Pointing(Owners', n) = {<<0, n>>}
      /\ \A o \in Owners' : \A x \in DOMAIN o[2] : o[2][x] \in DOMAIN heap \cup {n}
      /\ \A o \in Kept(snapshots) : DOMAIN o[2] \subseteq 1 .. n - 1
  BY <1>1, RegionMoved
<1>3. /\ DOMAIN heap' = DOMAIN heap \cup {n} /\ heap'[n] = new
      /\ \A p \in DOMAIN heap : heap'[p] = heap[p]
  BY <1>1 DEF With
<1>4. \A p : <<0, n>> \notin Pointing(Owners, p)
  <2>1. \A o \in Owners : n \notin DOMAIN o[2]
    BY DEF CowInv, CowTypes
  <2> QED
    BY <2>1 DEF Pointing
<1>5. CountedBy(heap', Owners')
  <2>1. ASSUME NEW p \in DOMAIN heap
        PROVE  heap'[p].refs = Cardinality(Pointing(Owners', p)) /\ heap'[p].refs > 0
    <3>1. p # n /\ Pointing(Owners', p) = Pointing(Owners, p) \ {<<0, n>>}
      BY <1>1, <1>2
    <3>2. Pointing(Owners', p) = Pointing(Owners, p)
      BY <1>4, <3>1
    <3> QED
      BY <1>3, <3>2 DEF CowInv, CountedBy
  <2>2. heap'[n].refs = Cardinality(Pointing(Owners', n)) /\ heap'[n].refs > 0
    <3>1. heap'[n].refs = 1
      BY <1>3
    <3>2. Cardinality({<<0, n>>}) = 1
      BY FS_Singleton
    <3> QED
      BY <1>2, <3>1, <3>2
  <2> QED
    BY <1>2, <1>3, <2>1, <2>2 DEF CountedBy
<1>6. CowTypes'
  <2>1. heap' \in [DOMAIN heap' -> Page]
    BY <1>1 DEF With, CowInv, CowTypes
  <2>2. \A p \in DOMAIN heap' : p \in Nat /\ p < nextPageId'
    BY <1>1, <1>3 DEF CowInv, CowTypes
  <2>3. \A o \in Owners' : DOMAIN o[2] \subseteq 1 .. nextPageId' - 1
    <3>1. Owners' = Kept(snapshots) \cup {<<0, livePages'>>} /\ n > 0
      BY <1>1, OwnersAre DEF Owned, CowInv, CowTypes
    <3>2. DOMAIN livePages' \subseteq 1 .. nextPageId' - 1
      BY <1>1, <3>1, CowFacts DEF With
    <3> QED
      BY <1>1, <1>2, <3>1, <3>2
  <2> QED
    BY <1>1, <1>2, <2>1, <2>2, <2>3 DEF CowInv, CowTypes
<1>7. IdsDistinct'
  BY <1>1 DEF CowInv, IdsDistinct
<1>8. SnapshotsStay
  BY <1>1, <1>3, CowFacts, SameSnapshots
<1> QED
  BY <1>2, <1>5, <1>6, <1>7, <1>8 DEF CowInv

(* The page that a region wrote in place is nobody else's.                   *)
LEMMA WriteInPlaceKeeps ==
    ASSUME CowInv, CowAssumption, NEW r \in DOMAIN livePages, NEW d \in Contents,
           heap[livePages[r]].refs = 1, heap' = [heap EXCEPT ![livePages[r]].data = d],
           UNCHANGED <<livePages, snapshots, nextPageId, nextSnapId>>
    PROVE  CowInv' /\ SnapshotsStay
<1> DEFINE p == livePages[r]
<1>1. p \in DOMAIN heap
  BY CowFacts
<1>2. Owners' = Owners
  BY DEF Owners
<1>3. /\ DOMAIN heap' = DOMAIN heap /\ heap' \in [DOMAIN heap -> Page]
      /\ \A q \in DOMAIN heap : heap'[q].refs = heap[q].refs
      /\ \A q \in DOMAIN heap : q # p => heap'[q] = heap[q]
  BY <1>1 DEF CowInv, CowTypes, Page
<1>4. CowTypes' /\ IdsDistinct' /\ Sound(Owners') /\ CountedBy(heap', Owners')
  BY <1>2, <1>3 DEF CowInv, CowTypes, IdsDistinct, CountedBy
<1>5. ASSUME NEW i \in DOMAIN snapshots, NEW x \in DOMAIN snapshots[i].table
      PROVE  snapshots[i].table[x] # p
  <2> SUFFICES ASSUME snapshots[i].table[x] = p PROVE FALSE
    OBVIOUS
  <2> DEFINE o == <<snapshots[i].id, snapshots[i].table>>
             u == <<0, livePages>>
  <2>1. o \in Owners /\ u \in Owners /\ snapshots[i].id # 0
    BY CowFacts
  <2>2. <<o[1], x>> \in Pointing(Owners, p)
    BY <2>1 DEF Pointing
  <2>3. <<u[1], r>> \in Pointing(Owners, p)
    BY <2>1 DEF Pointing
  <2>4. IsFiniteSet(Pointing(Owners, p)) /\ Cardinality(Pointing(Owners, p)) = 1
    BY <1>1 DEF CowInv, Sound, CountedBy
  <2>5. PICK e : Pointing(Owners, p) = {e}
    BY <2>4, FS_Singleton
  <2>6. <<snapshots[i].id, x>> = e /\ <<0, r>> = e
    BY <2>2, <2>3, <2>5
  <2> QED
    BY <2>1, <2>6
<1>6. SnapshotsStay
  BY <1>3, <1>5, CowFacts, SameSnapshots
<1> QED
  BY <1>4, <1>6 DEF CowInv

(* A page that is shared is left to the others and cloned.                   *)
LEMMA WriteCloneKeeps ==
    ASSUME CowInv, CowAssumption, NEW r \in DOMAIN livePages, NEW d \in Contents,
           heap[livePages[r]].refs # 1,
           heap' = With([heap EXCEPT ![livePages[r]].refs = @ - 1], nextPageId,
                        [data |-> d, size |-> heap[livePages[r]].size, refs |-> 1]),
           livePages' = [livePages EXCEPT ![r] = nextPageId], nextPageId' = nextPageId + 1,
           UNCHANGED <<snapshots, nextSnapId>>
    PROVE  CowInv' /\ SnapshotsStay
<1> DEFINE n == nextPageId
           p == livePages[r]
           new == [data |-> d, size |-> heap[p].size, refs |-> 1]
           left == [heap EXCEPT ![p].refs = @ - 1]
<1>1. /\ n \in Nat /\ n > 0 /\ r \in Nat /\ r < n /\ n \notin DOMAIN heap /\ p \in DOMAIN heap
      /\ p # n /\ new \in Page /\ heap[p].refs \in Int /\ heap[p].refs > 1
      /\ livePages' = With(livePages, r, n) /\ r < n + 1
  <2>1. /\ n \in Nat /\ n > 0 /\ r \in Nat /\ r < n /\ n \notin DOMAIN heap /\ p \in DOMAIN heap
        /\ heap[p] \in Page
    BY CowFacts DEF CowInv, CowTypes
  <2>2. heap[p].refs > 0
    BY <2>1 DEF CowInv, CountedBy
  <2>3. livePages' = With(livePages, r, n)
    <3>1. DOMAIN livePages \cup {r} = DOMAIN livePages
      OBVIOUS
    <3>2. livePages' = [x \in DOMAIN livePages |-> IF x = r THEN n ELSE livePages[x]]
      BY DEF CowInv, CowTypes, Tables
    <3> QED
      BY <3>1, <3>2 DEF With
  <2> QED
    BY <2>1, <2>2, <2>3 DEF Page
<1>2. /\ Sound(Owners') /\ livePages' \in Tables
      /\ \A q : q # n => Pointing(Owners', q) = Pointing(Owners, q) \ {<<0, r>>}
      /\ Pointing(Owners', n) = {<<0, r>>}
      /\ \A o \in Owners' : \A x \in DOMAIN o[2] : o[2][x] \in DOMAIN heap \cup {n}
      /\ \A o \in Kept(snapshots) : DOMAIN o[2] \subseteq 1 .. n - 1
  <2>1. snapshots' = snapshots /\ nextPageId' = n + 1
    OBVIOUS
  <2> HIDE DEF p, new, left
  <2> QED
    BY <1>1, <2>1, RegionMoved
<1>3. left \in [DOMAIN heap -> Page] /\ \A q \in DOMAIN heap : q # p => left[q] = heap[q]
  <2> DEFINE x == heap[p].refs - 1
  <2>1. heap[p] \in Page /\ x \in Int /\ heap \in [DOMAIN heap -> Page]
    BY <1>1 DEF CowInv, CowTypes
  <2>2. left = [heap EXCEPT ![p].refs = x]
    OBVIOUS
  <2> HIDE DEF x, left
  <2>3. [heap[p] EXCEPT !.refs = x] \in Page
    BY <2>1 DEF Page
  <2> QED
    BY <1>1, <2>1, <2>2, <2>3
<1>4. left[p].data = heap[p].data /\ left[p].refs = heap[p].refs - 1
  BY <1>1 DEF CowInv, CowTypes, Page
<1> HIDE DEF left
<1>5. /\ DOMAIN heap' = DOMAIN heap \cup {n} /\ heap'[n] = new /\ heap' \in [DOMAIN heap' -> Page]
      /\ \A q \in DOMAIN heap : heap'[q] = left[q]
  <2>1. heap' = With(left, n, new)
    BY DEF left
  <2> QED
    BY <1>1, <1>3, <2>1 DEF With
<1>6. <<0, r>> \in Pointing(Owners, p)
      /\ \A q : q # p => <<0, r>> \notin Pointing(Owners, q)
  <2>1. /\ \A q : Pointing(Owners, q) = Pointing(Kept(snapshots), q) \cup Cells(0, livePages, q)
        /\ \A q : <<0, r>> \notin Pointing(Kept(snapshots), q)
    <3>1. Owners = Kept(snapshots) \cup {<<0, livePages>>}
      BY OwnersAre DEF Owned
    <3> QED
      BY <3>1, PointingWith, CowFacts DEF Pointing
  <2>2. <<0, r>> \in Cells(0, livePages, p) /\ \A q : q # p => <<0, r>> \notin Cells(0, livePages, q)
    BY DEF Cells
  <2> QED
    BY <2>1, <2>2
<1>7. CountedBy(heap', Owners')
  <2>1. ASSUME NEW q \in DOMAIN heap, q # p
        PROVE  heap'[q].refs = Cardinality(Pointing(Owners', q)) /\ heap'[q].refs > 0
    <3>1. q # n /\ Pointing(Owners', q) = Pointing(Owners, q) \ {<<0, r>>}
      BY <1>1, <1>2
    <3>2. Pointing(Owners', q) = Pointing(Owners, q)
      BY <1>6, <2>1, <3>1
    <3> QED
      BY <1>3, <1>5, <2>1, <3>2 DEF CowInv, CountedBy
  <2>2. heap'[p].refs = Cardinality(Pointing(Owners', p)) /\ heap'[p].refs > 0
    <3> DEFINE S == Pointing(Owners, p)
    <3>1. Pointing(Owners', p) = S \ {<<0, r>>} /\ IsFiniteSet(S) /\ <<0, r>> \in S
      BY <1>1, <1>2, <1>6 DEF CowInv, Sound
    <3>2. heap[p].refs = Cardinality(S)
      BY <1>1 DEF CowInv, CountedBy
    <3> HIDE DEF S
    <3>3. Cardinality(S \ {<<0, r>>}) = Cardinality(S) - 1
      BY <3>1, FS_RemoveElement
    <3> QED
      <4>1. /\ heap'[p].refs = heap[p].refs - 1 /\ heap[p].refs \in Int /\ heap[p].refs > 1
        BY <1>1, <1>4, <1>5
      <4> QED
        BY <3>1, <3>2, <3>3, <4>1
  <2>3. heap'[n].refs = Cardinality(Pointing(Owners', n)) /\ heap'[n].refs > 0
    <3>1. heap'[n].refs = 1
      BY <1>5
    <3>2. Cardinality({<<0, r>>}) = 1
      BY FS_Singleton
    <3> QED
      BY <1>2, <3>1, <3>2
  <2> QED
    BY <1>2, <1>5, <2>1, <2>2, <2>3 DEF CountedBy
<1>8. CowTypes'
  <2>1. \A q \in DOMAIN heap' : q \in Nat /\ q < nextPageId'
    BY <1>1, <1>5 DEF CowInv, CowTypes
  <2>2. \A o \in Owners' : DOMAIN o[2] \subseteq 1 .. nextPageId' - 1
    <3>1. Owners' = Kept(snapshots) \cup {<<0, livePages'>>}
      BY OwnersAre DEF Owned
    <3>2. DOMAIN livePages' \subseteq 1 .. nextPageId' - 1
      BY <1>1, CowFacts
    <3> QED
      BY <1>1, <1>2, <3>1, <3>2
  <2> QED
    <3>1. nextPageId' \in Nat \ {0} /\ nextSnapId' \in Nat \ {0} /\ snapshots' \in Seq(Snap)
      BY <1>1 DEF CowInv, CowTypes
    <3> QED
      BY <1>2, <1>5, <2>1, <2>2, <3>1 DEF CowTypes
<1>9. IdsDistinct'
  BY DEF CowInv, IdsDistinct
<1>10. SnapshotsStay
  <2>1. \A q \in DOMAIN heap : heap'[q].data = heap[q].data
    BY <1>3, <1>4, <1>5
  <2> QED
    BY <2>1, CowFacts, SameSnapshots
<1> QED
  BY <1>2, <1>7, <1>8, <1>9, <1>10 DEF CowInv

LEMMA WriteKeeps ==
    ASSUME CowInv, CowAssumption, NEW r \in DOMAIN livePages, NEW d \in Contents,
           NEW fits \in BOOLEAN, WriteRegion(r, d, fits)
    PROVE  CowInv' /\ SnapshotsStay
<1> DEFINE p == livePages[r]
           written == IF fits THEN d ELSE heap[p].data
<1>1. written \in Contents
  <2>1. heap[p] \in Page
    BY CowFacts DEF CowInv, CowTypes
  <2> QED
    BY <2>1 DEF Page
<1>2. CASE heap[p].refs = 1
  <2>1. /\ heap' = [heap EXCEPT ![p].data = written]
        /\ UNCHANGED <<livePages, snapshots, nextPageId, nextSnapId>>
    BY <1>2 DEF WriteRegion
  <2> HIDE DEF written
  <2> QED
    BY <1>1, <1>2, <2>1, WriteInPlaceKeeps
<1>3. CASE heap[p].refs # 1
  <2>1. /\ heap' = With([heap EXCEPT ![p].refs = @ - 1], nextPageId,
                        [data |-> written, size |-> heap[p].size, refs |-> 1])
        /\ livePages' = [livePages EXCEPT ![r] = nextPageId] /\ nextPageId' = nextPageId + 1
        /\ UNCHANGED <<snapshots, nextSnapId>>
    BY <1>3 DEF WriteRegion
  <2> HIDE DEF written
  <2> QED
    BY <1>1, <1>3, <2>1, WriteCloneKeeps
<1> QED
  BY <1>2, <1>3

(* A snapshot is one owner more, of what is live.                            *)
LEMMA TakeKeeps ==
    ASSUME CowInv, CowAssumption, NEW n \in SnapNames, TakeSnapshot(n)
    PROVE  CowInv' /\ SnapshotsStay
<1> DEFINE k == nextSnapId
           s == [id |-> k, name |-> n, table |-> livePages]
<1>1. /\ s \in Snap /\ snapshots \in Seq(Snap) /\ snapshots' = Append(snapshots, s)
      /\ livePages' = livePages /\ nextPageId' = nextPageId /\ nextSnapId' = k + 1
      /\ heap' = Counted(heap, livePages, 1) /\ k \in Nat /\ k > 0
  BY DEF TakeSnapshot, CowInv, CowTypes, Snap
<1> HIDE DEF s
<1>2. /\ snapshots' \in Seq(Snap) /\ DOMAIN snapshots' = DOMAIN snapshots \cup {Len(snapshots) + 1}
      /\ \A i \in DOMAIN snapshots : snapshots'[i] = snapshots[i]
      /\ snapshots'[Len(snapshots) + 1] = s
  BY <1>1, AppendProperties, CowFacts
<1>3. Owners' = Owners \cup {<<k, livePages>>}
  <2>1. ToSet(snapshots') = ToSet(snapshots) \cup {s}
    BY <1>2 DEF ToSet
  <2>2. s.id = k /\ s.table = livePages
    BY DEF s
  <2> QED
    BY <1>1, <2>1, <2>2 DEF Owners
<1>4. \A o \in Owners : o[1] # k
  BY <1>1, CowFacts, OwnersAre DEF Owned
<1>5. /\ DOMAIN heap' = DOMAIN heap /\ heap' \in [DOMAIN heap' -> Page]
      /\ \A p \in DOMAIN heap' : heap'[p].data = heap[p].data
      /\ Sound(Owners') /\ CountedBy(heap', Owners')
  <2>1. /\ heap \in [DOMAIN heap -> Page] /\ Sound(Owners) /\ CountedBy(heap, Owners)
    BY DEF CowInv, CowTypes
  <2>2. IsFiniteSet(DOMAIN livePages) /\ \A r \in DOMAIN livePages : livePages[r] \in DOMAIN heap
    BY CowFacts
  <2> DEFINE g == Counted(heap, livePages, 1)
             all == Owners \cup {<<k, livePages>>}
  <2>3. /\ DOMAIN g = DOMAIN heap /\ g \in [DOMAIN g -> Page]
        /\ \A p \in DOMAIN g : g[p].data = heap[p].data
        /\ Sound(all) /\ CountedBy(g, all)
    BY <1>4, <2>1, <2>2, CountedUp
  <2> QED
    BY <1>1, <1>3, <2>3
<1>6. CowTypes'
  <2>1. \A o \in Owners' : DOMAIN o[2] \subseteq 1 .. nextPageId - 1
    <3>1. DOMAIN livePages \subseteq 1 .. nextPageId - 1
      BY CowFacts
    <3> QED
      BY <1>3, <3>1 DEF CowInv, CowTypes
  <2> QED
    BY <1>1, <1>2, <1>5, <2>1 DEF CowInv, CowTypes
<1>7. ASSUME NEW i \in DOMAIN snapshots
      PROVE  snapshots[i].id \in Nat /\ snapshots[i].id > 0 /\ snapshots[i].id < k
  BY CowFacts
<1>8. s.id = k
  BY DEF s
<1>9. IdsDistinct'
  <2>1. \A i \in DOMAIN snapshots' : snapshots'[i].id > 0 /\ snapshots'[i].id < nextSnapId'
    BY <1>1, <1>2, <1>7, <1>8
  <2>2. \A i, j \in DOMAIN snapshots' : snapshots'[i].id = snapshots'[j].id => i = j
    BY <1>1, <1>2, <1>7, <1>8 DEF CowInv, IdsDistinct
  <2> QED
    BY <2>1, <2>2 DEF IdsDistinct
<1>10. SnapshotsStay
  <2> SUFFICES ASSUME NEW i \in DOMAIN snapshots, NEW j \in DOMAIN snapshots',
                      snapshots[i].id = snapshots'[j].id
               PROVE  Frozen(heap, snapshots[i]) = Frozen(heap', snapshots'[j])
    BY DEF SnapshotsStay
  <2>1. snapshots'[j] = snapshots[i]
    BY <1>1, <1>2, <1>7, <1>8 DEF CowInv, IdsDistinct
  <2>2. \A r \in DOMAIN snapshots[i].table : snapshots[i].table[r] \in DOMAIN heap
    BY CowFacts
  <2> QED
    BY <1>5, <2>1, <2>2 DEF Frozen
<1> QED
  BY <1>5, <1>6, <1>9, <1>10 DEF CowInv

LEMMA FirstOfName ==
    ASSUME CowInv, NEW n, Named(n) # {}
    PROVE  First(n) \in DOMAIN snapshots
<1>1. Named(n) \subseteq Nat
  BY CowFacts DEF Named
<1>2. \E i \in Named(n) : \A j \in Named(n) : i <= j
  BY <1>1, LeastOf
<1>3. First(n) \in Named(n)
  BY <1>2 DEF First
<1> QED
  BY <1>3 DEF Named

(* The live regions stop owning, and start again with the snapshot's table.  *)
LEMMA RollbackKeeps ==
    ASSUME CowInv, CowAssumption, NEW n, Rollback(n)
    PROVE  CowInv' /\ SnapshotsStay
<1> DEFINE table == snapshots[First(n)].table
           released == Counted(heap, livePages, -1)
           rest == Kept(snapshots)
<1>1. /\ heap' = Counted(released, table, 1) /\ livePages' = table
      /\ UNCHANGED <<snapshots, nextPageId, nextSnapId>>
  BY DEF Rollback
<1>2. First(n) \in DOMAIN snapshots
  BY FirstOfName DEF Rollback
<1>3. /\ <<snapshots[First(n)].id, table>> \in rest /\ table \in Tables
      /\ IsFiniteSet(DOMAIN table) /\ DOMAIN table \subseteq 1 .. nextPageId - 1
  BY <1>2, CowFacts
<1>4. rest = Owners \ {<<0, livePages>>} /\ <<0, livePages>> \in Owners
  BY CowFacts
<1>5. /\ DOMAIN released \subseteq DOMAIN heap /\ released \in [DOMAIN released -> Page]
      /\ \A p \in DOMAIN released : released[p].data = heap[p].data
      /\ Sound(rest) /\ CountedBy(released, rest)
  <2>1. heap \in [DOMAIN heap -> Page] /\ Sound(Owners) /\ CountedBy(heap, Owners)
    BY DEF CowInv, CowTypes
  <2> HIDE DEF rest
  <2> QED
    BY <1>4, <2>1, CountedDown
<1> HIDE DEF released, table
<1>6. \A r \in DOMAIN table : table[r] \in DOMAIN released
  <2> DEFINE o == <<snapshots[First(n)].id, table>>
  <2>1. o \in rest /\ o[2] = table
    BY <1>3
  <2> HIDE DEF o, rest
  <2> QED
    BY <1>5, <2>1 DEF CountedBy
<1>7. \A o \in rest : o[1] # 0
  BY CowFacts
<1>8. Owners' = rest \cup {<<0, table>>}
  BY <1>1, OwnersAre DEF Owned
<1> HIDE DEF rest
<1>9. /\ DOMAIN heap' = DOMAIN released /\ heap' \in [DOMAIN heap' -> Page]
      /\ \A p \in DOMAIN heap' : heap'[p].data = released[p].data
      /\ Sound(Owners') /\ CountedBy(heap', Owners')
  <2> DEFINE g == Counted(released, table, 1)
             all == rest \cup {<<0, table>>}
  <2>1. /\ DOMAIN g = DOMAIN released /\ g \in [DOMAIN g -> Page]
        /\ \A p \in DOMAIN g : g[p].data = released[p].data
        /\ Sound(all) /\ CountedBy(g, all)
    BY <1>3, <1>5, <1>6, <1>7, CountedUp
  <2> QED
    BY <1>1, <1>8, <2>1
<1>10. CowTypes'
  <2>1. \A p \in DOMAIN heap' : p \in Nat /\ p < nextPageId'
    BY <1>1, <1>5, <1>9 DEF CowInv, CowTypes
  <2>2. \A o \in Owners' : DOMAIN o[2] \subseteq 1 .. nextPageId' - 1
    BY <1>1, <1>3, <1>4, <1>8 DEF CowInv, CowTypes
  <2> QED
    BY <1>1, <1>3, <1>9, <2>1, <2>2 DEF CowInv, CowTypes
<1>11. IdsDistinct'
  BY <1>1 DEF CowInv, IdsDistinct
<1>12. SnapshotsStay
  <2>1. ASSUME NEW i \in DOMAIN snapshots, NEW r \in DOMAIN snapshots[i].table
        PROVE  snapshots[i].table[r] \in DOMAIN released
    <3> DEFINE o == <<snapshots[i].id, snapshots[i].table>>
    <3>1. o \in rest /\ o[2] = snapshots[i].table
      BY CowFacts DEF rest
    <3> HIDE DEF o
    <3> QED
      BY <1>5, <3>1 DEF CountedBy
  <2> QED
    BY <1>1, <1>5, <1>9, <2>1, SameSnapshots
<1> QED
  BY <1>9, <1>10, <1>11, <1>12 DEF CowInv

LEMMA RollbackByIdKeeps ==
    ASSUME CowInv, CowAssumption, NEW k, RollbackById(k)
    PROVE  CowInv' /\ SnapshotsStay
<1>1. PICK i \in DOMAIN snapshots : Rollback(snapshots[i].name)
  BY DEF RollbackById
<1> QED
  BY <1>1, RollbackKeeps

(* A snapshot that is deleted is one owner less.                             *)
LEMMA DeleteKeeps ==
    ASSUME CowInv, CowAssumption, NEW n, DeleteSnapshot(n)
    PROVE  CowInv' /\ SnapshotsStay
<1> DEFINE i == First(n)
           o == <<snapshots[i].id, snapshots[i].table>>
           was(j) == IF j < i THEN j ELSE j + 1
<1>1. /\ heap' = Counted(heap, snapshots[i].table, -1) /\ snapshots' = RemoveAt(snapshots, i)
      /\ UNCHANGED <<livePages, nextPageId, nextSnapId>> /\ snapshots \in Seq(Snap)
  BY DEF DeleteSnapshot, CowInv, CowTypes
<1>2. i \in DOMAIN snapshots
  BY FirstOfName DEF DeleteSnapshot
<1> HIDE DEF i
<1>3. Len(snapshots) \in Nat /\ DOMAIN snapshots = 1 .. Len(snapshots)
  BY CowFacts
<1>4. /\ snapshots' \in Seq(Snap) /\ Len(snapshots') = Len(snapshots) - 1
      /\ \A j \in 1 .. Len(snapshots) - 1 : snapshots'[j] = snapshots[was(j)]
  BY <1>1, <1>2, <1>3, RemoveAtProperties
<1>5. DOMAIN snapshots' = 1 .. Len(snapshots) - 1
  BY <1>4, LenProperties
<1>6. /\ \A j \in DOMAIN snapshots' :
            was(j) \in DOMAIN snapshots /\ was(j) # i /\ snapshots'[j] = snapshots[was(j)]
      /\ \A j, m \in DOMAIN snapshots' : was(j) = was(m) => j = m
      /\ \A m \in DOMAIN snapshots : m # i => \E j \in DOMAIN snapshots' : was(j) = m
  <2>1. /\ \A j \in DOMAIN snapshots' :
              was(j) \in DOMAIN snapshots /\ was(j) # i /\ snapshots'[j] = snapshots[was(j)]
        /\ \A j, m \in DOMAIN snapshots' : was(j) = was(m) => j = m
    BY <1>2, <1>3, <1>4, <1>5
  <2>2. ASSUME NEW m \in DOMAIN snapshots, m # i PROVE \E j \in DOMAIN snapshots' : was(j) = m
    <3>1. CASE m < i
      BY <1>2, <1>3, <1>5, <3>1
    <3>2. CASE m > i
      <4>1. m - 1 \in DOMAIN snapshots' /\ was(m - 1) = m
        BY <1>2, <1>3, <1>5, <3>2
      <4> QED
        BY <4>1
    <3> QED
      BY <1>2, <1>3, <2>2, <3>1, <3>2
  <2> QED
    BY <2>1, <2>2
<1> HIDE DEF was
<1>7. Kept(snapshots') = Kept(snapshots) \ {o}
  <2>1. ASSUME NEW e \in Kept(snapshots') PROVE e \in Kept(snapshots) \ {o}
    <3>1. PICK j \in DOMAIN snapshots' : e = <<snapshots'[j].id, snapshots'[j].table>>
      BY DEF Kept, ToSet
    <3>2. /\ was(j) \in DOMAIN snapshots /\ was(j) # i
          /\ e = <<snapshots[was(j)].id, snapshots[was(j)].table>>
      BY <1>6, <3>1
    <3>3. e \in Kept(snapshots)
      BY <3>2 DEF Kept, ToSet
    <3>4. snapshots[was(j)].id # snapshots[i].id
      BY <1>2, <3>2 DEF CowInv, IdsDistinct
    <3> QED
      BY <3>2, <3>3, <3>4
  <2>2. ASSUME NEW e \in Kept(snapshots), e # o PROVE e \in Kept(snapshots')
    <3>1. PICK m \in DOMAIN snapshots : e = <<snapshots[m].id, snapshots[m].table>>
      BY DEF Kept, ToSet
    <3>2. m # i
      BY <2>2, <3>1
    <3>3. PICK j \in DOMAIN snapshots' : was(j) = m
      BY <1>6, <3>2
    <3>4. snapshots'[j] = snapshots[m]
      BY <1>6, <3>3
    <3> QED
      BY <3>1, <3>4 DEF Kept, ToSet
  <2> QED
    BY <2>1, <2>2
<1>8. o \in Owners /\ o # <<0, livePages>>
  BY <1>2, CowFacts
<1>9. Owners' = Owners \ {o}
  <2>1. Owners = Kept(snapshots) \cup {<<0, livePages>>}
    BY OwnersAre DEF Owned
  <2>2. Owners' = Kept(snapshots') \cup {<<0, livePages>>}
    BY <1>1, OwnersAre DEF Owned
  <2> HIDE DEF o
  <2> QED
    BY <1>7, <1>8, <2>1, <2>2
<1>10. /\ DOMAIN heap' \subseteq DOMAIN heap /\ heap' \in [DOMAIN heap' -> Page]
       /\ \A p \in DOMAIN heap' : heap'[p].data = heap[p].data
       /\ Sound(Owners') /\ CountedBy(heap', Owners')
  <2> DEFINE k == snapshots[i].id
             t == snapshots[i].table
             g == Counted(heap, t, -1)
             rest == Owners \ {<<k, t>>}
  <2>1. heap \in [DOMAIN heap -> Page] /\ Sound(Owners) /\ CountedBy(heap, Owners)
    BY DEF CowInv, CowTypes
  <2>2. <<k, t>> \in Owners
    BY <1>8
  <2>3. /\ DOMAIN g \subseteq DOMAIN heap /\ g \in [DOMAIN g -> Page]
        /\ \A p \in DOMAIN g : g[p].data = heap[p].data
        /\ Sound(rest) /\ CountedBy(g, rest)
    <3> HIDE DEF k, t
    <3> QED
      BY <2>1, <2>2, CountedDown
  <2> QED
    BY <1>1, <1>9, <2>3
<1>11. CowTypes'
  <2>1. /\ \A p \in DOMAIN heap' : p \in Nat /\ p < nextPageId'
        /\ \A u \in Owners' : DOMAIN u[2] \subseteq 1 .. nextPageId' - 1
    BY <1>1, <1>9, <1>10 DEF CowInv, CowTypes
  <2> QED
    BY <1>1, <1>4, <1>10, <2>1 DEF CowInv, CowTypes
<1>12. IdsDistinct'
  BY <1>1, <1>6 DEF CowInv, IdsDistinct
<1>13. SnapshotsStay
  <2> SUFFICES ASSUME NEW m \in DOMAIN snapshots, NEW j \in DOMAIN snapshots',
                      snapshots[m].id = snapshots'[j].id
               PROVE  Frozen(heap, snapshots[m]) = Frozen(heap', snapshots'[j])
    BY DEF SnapshotsStay
  <2>1. snapshots'[j] = snapshots[m]
    BY <1>6 DEF CowInv, IdsDistinct
  <2>2. ASSUME NEW r \in DOMAIN snapshots[m].table PROVE snapshots[m].table[r] \in DOMAIN heap'
    <3> DEFINE u == <<snapshots'[j].id, snapshots'[j].table>>
    <3>1. u \in Owners' /\ u[2] = snapshots[m].table
      BY <2>1, OwnersAre DEF Owned, Kept, ToSet
    <3> HIDE DEF u
    <3> QED
      BY <1>10, <3>1 DEF CountedBy
  <2> QED
    BY <1>10, <2>1, <2>2 DEF Frozen
<1> QED
  BY <1>10, <1>11, <1>12, <1>13 DEF CowInv

LEMMA CowStep ==
    ASSUME CowAssumption, CowInv, CowNext
    PROVE  CowInv' /\ SnapshotsStay
BY CreateKeeps, WriteKeeps, TakeKeeps, RollbackKeeps, RollbackByIdKeeps, DeleteKeeps DEF CowNext

LEMMA CowStutters ==
    ASSUME CowInv, UNCHANGED cowVars
    PROVE  CowInv' /\ SnapshotsStay
<1>1. Owners' = Owners
  BY DEF Owners, cowVars
<1>2. CowInv'
  BY <1>1 DEF CowInv, CowTypes, IdsDistinct, CountedBy, cowVars
<1>3. SnapshotsStay
  BY SameSnapshots DEF cowVars
<1> QED
  BY <1>2, <1>3

(* What a snapshot captured never changes while it is kept, whatever is      *)
(* written, rolled back or deleted around it (writeRegion, rollback).        *)
THEOREM SnapshotsNeverChange == CowSpec => SnapshotsKept
<1>1. CowInit => CowInv
  BY CowInitial
<1>2. CowInv /\ [CowNext]_cowVars => CowInv' /\ [SnapshotsStay]_cowVars
  BY CowAssumption, CowStep, CowStutters
<1>3. CowSpec => [][SnapshotsStay]_cowVars
  BY <1>1, <1>2, PTL DEF CowSpec
<1> QED
  BY <1>3 DEF SnapshotsKept, SnapshotsStay

(* The memory in use, added to what is counted.                              *)
BytesInv == IsFiniteSet(BytesOf(heap)) /\ usedMemory = Bytes(heap)

LEMMA BytesSame ==
    ASSUME NEW h, NEW g, DOMAIN g = DOMAIN h, \A p \in DOMAIN h : g[p].size = h[p].size
    PROVE  BytesOf(g) = BytesOf(h)
BY DEF BytesOf

(* A new page adds its bytes.                                                *)
LEMMA BytesMore ==
    ASSUME NEW h, NEW n, n \notin DOMAIN h, NEW page, page.size \in Nat, IsFiniteSet(BytesOf(h))
    PROVE  /\ IsFiniteSet(BytesOf(With(h, n, page)))
           /\ Bytes(With(h, n, page)) = Bytes(h) + page.size /\ Bytes(h) \in Nat
<1> DEFINE g == With(h, n, page)
           new == {n} \X (1 .. page.size)
<1>1. DOMAIN g = DOMAIN h \cup {n} /\ g[n] = page /\ \A p \in DOMAIN h : g[p] = h[p]
  BY DEF With
<1> HIDE DEF g
<1>2. BytesOf(g) = BytesOf(h) \cup new /\ BytesOf(h) \cap new = {}
  BY <1>1 DEF BytesOf
<1>3. IsFiniteSet(new) /\ Cardinality(new) = page.size
  <2>1. IsFiniteSet(1 .. page.size) /\ Cardinality(1 .. page.size) = page.size
    <3> DEFINE m == page.size
    <3>1. m \in Nat /\ 1 \in Int /\ m \in Int
      OBVIOUS
    <3> HIDE DEF m
    <3>2. IsFiniteSet(1 .. m) /\ Cardinality(1 .. m) = IF 1 > m THEN 0 ELSE m - 1 + 1
      BY <3>1, FS_Interval
    <3>3. (IF 1 > m THEN 0 ELSE m - 1 + 1) = m
      BY <3>1
    <3> QED
      BY <3>2, <3>3 DEF m
  <2>2. IsFiniteSet({n}) /\ Cardinality({n}) = 1
    BY FS_Singleton
  <2> QED
    BY <2>1, <2>2, FS_Product
<1> HIDE DEF new
<1>4. IsFiniteSet(BytesOf(g)) /\ Cardinality(BytesOf(g)) = Cardinality(BytesOf(h)) + Cardinality(new)
  BY <1>2, <1>3, DisjointUnion
<1>5. Cardinality(BytesOf(h)) \in Nat
  BY FS_CardinalityType
<1> QED
  BY <1>3, <1>4, <1>5 DEF Bytes, g

(* Pages that go take their bytes along.                                     *)
LEMMA BytesLess ==
    ASSUME NEW h, NEW g, DOMAIN g \subseteq DOMAIN h, \A p \in DOMAIN g : g[p].size = h[p].size,
           IsFiniteSet(BytesOf(h))
    PROVE  /\ IsFiniteSet(BytesOf(g))
           /\ Bytes(g) = Bytes(h) - Bytes(Keep(h, DOMAIN h \ DOMAIN g))
<1> DEFINE k == Keep(h, DOMAIN h \ DOMAIN g)
<1>1. DOMAIN k = DOMAIN h \ DOMAIN g /\ \A p \in DOMAIN k : k[p] = h[p]
  BY DEF Keep
<1> HIDE DEF k
<1>2. /\ BytesOf(h) = BytesOf(g) \cup BytesOf(k) /\ BytesOf(g) \cap BytesOf(k) = {}
  BY <1>1 DEF BytesOf
<1>3. IsFiniteSet(BytesOf(g)) /\ IsFiniteSet(BytesOf(k))
  BY <1>2, FS_Subset
<1>4. Cardinality(BytesOf(h)) = Cardinality(BytesOf(g)) + Cardinality(BytesOf(k))
  BY <1>2, <1>3, DisjointUnion
<1>5. Cardinality(BytesOf(g)) \in Nat /\ Cardinality(BytesOf(k)) \in Nat
  BY <1>3, FS_CardinalityType
<1> QED
  BY <1>3, <1>4, <1>5 DEF Bytes, k

(* Counting changes no size, and counting up drops no page.                  *)
LEMMA CountedSizes ==
    ASSUME NEW h, h \in [DOMAIN h -> Page], NEW t, IsFiniteSet(DOMAIN t), NEW by \in {1, -1}
    PROVE  /\ DOMAIN Counted(h, t, by) \subseteq DOMAIN h
           /\ Counted(h, t, by) \in [DOMAIN Counted(h, t, by) -> Page]
           /\ \A p \in DOMAIN Counted(h, t, by) :
                 Counted(h, t, by)[p].size = h[p].size /\ Counted(h, t, by)[p].refs > 0
           /\ by = 1 /\ (\A p \in DOMAIN h : h[p].refs > 0) => DOMAIN Counted(h, t, by) = DOMAIN h
<1> DEFINE c == Counted(h, t, by)
           f == [p \in DOMAIN h |-> [h[p] EXCEPT !.refs = @ + by * Pointers(t, p)]]
<1>1. ASSUME NEW p \in DOMAIN h
      PROVE  /\ f[p] \in Page /\ f[p].size = h[p].size
             /\ f[p].refs = h[p].refs + by * Pointers(t, p)
             /\ h[p].refs \in Int /\ Pointers(t, p) \in Nat
  <2>1. h[p] \in Page /\ h[p].refs \in Int /\ Pointers(t, p) \in Nat
    BY CellsCount DEF Page
  <2> DEFINE x == h[p].refs + by * Pointers(t, p)
  <2>2. x \in Int
    <3>1. CASE by = 1
      BY <2>1, <3>1
    <3>2. CASE by = -1
      BY <2>1, <3>2
    <3> QED
      BY <3>1, <3>2
  <2>3. f[p] = [h[p] EXCEPT !.refs = x]
    OBVIOUS
  <2> HIDE DEF x, f
  <2>4. f[p] \in Page /\ f[p].size = h[p].size /\ f[p].refs = x
    BY <2>1, <2>2, <2>3 DEF Page
  <2> QED
    BY <2>1, <2>4 DEF x
<1>2. DOMAIN f = DOMAIN h /\ c = Keep(f, {p \in DOMAIN f : f[p].refs > 0})
  BY DEF Counted
<1> HIDE DEF f, c
<1>3. /\ DOMAIN c = {p \in DOMAIN h : f[p].refs > 0} /\ \A p \in DOMAIN c : c[p] = f[p]
      /\ c = [p \in DOMAIN c |-> c[p]]
  BY <1>2 DEF Keep
<1>4. c \in [DOMAIN c -> Page]
  BY <1>1, <1>3
<1>5. ASSUME by = 1, \A p \in DOMAIN h : h[p].refs > 0, NEW p \in DOMAIN h PROVE f[p].refs > 0
  BY <1>1, <1>5
<1> QED
  BY <1>1, <1>3, <1>4, <1>5 DEF c

LEMMA BytesKept ==
    ASSUME CowInv, CowAssumption, BytesInv, CowNext
    PROVE  BytesInv'
<1>1. /\ heap \in [DOMAIN heap -> Page] /\ \A p \in DOMAIN heap : heap[p] \in Page /\ heap[p].refs > 0
      /\ \A p \in DOMAIN heap : heap[p].size \in Nat
      /\ IsFiniteSet(DOMAIN livePages) /\ nextPageId \notin DOMAIN heap
      /\ \A i \in DOMAIN snapshots : IsFiniteSet(DOMAIN snapshots[i].table)
  BY CowFacts DEF CowInv, CowTypes, CountedBy, Page
<1>2. ASSUME NEW size \in PageSizes, CreateRegion(size) PROVE BytesInv'
  <2> DEFINE page == [data |-> Zeroed, size |-> size, refs |-> 1]
  <2>1. page.size \in Nat /\ page.size = size /\ heap' = With(heap, nextPageId, page)
        /\ usedMemory' = usedMemory + size
    BY <1>2 DEF CreateRegion, CowAssumption
  <2> HIDE DEF page
  <2> QED
    BY <1>1, <2>1, BytesMore DEF BytesInv
<1>3. ASSUME NEW r \in DOMAIN livePages, NEW d \in Contents, NEW fits \in BOOLEAN,
             WriteRegion(r, d, fits)
      PROVE  BytesInv'
  <2> DEFINE p == livePages[r]
             written == IF fits THEN d ELSE heap[p].data
             left == [heap EXCEPT ![p].refs = @ - 1]
             page == [data |-> written, size |-> heap[p].size, refs |-> 1]
  <2>1. p \in DOMAIN heap
    BY CowFacts
  <2>2. CASE heap[p].refs = 1
    <3>1. heap' = [heap EXCEPT ![p].data = written] /\ usedMemory' = usedMemory
      BY <1>3, <2>2 DEF WriteRegion
    <3> HIDE DEF written
    <3>2. DOMAIN heap' = DOMAIN heap /\ \A q \in DOMAIN heap : heap'[q].size = heap[q].size
      BY <1>1, <2>1, <3>1 DEF Page
    <3> QED
      BY <3>1, <3>2, BytesSame DEF BytesInv, Bytes
  <2>3. CASE heap[p].refs # 1
    <3>1. heap' = With(left, nextPageId, page) /\ usedMemory' = usedMemory + heap[p].size
      BY <1>3, <2>3 DEF WriteRegion
    <3> HIDE DEF written
    <3>2. DOMAIN left = DOMAIN heap /\ \A q \in DOMAIN heap : left[q].size = heap[q].size
      BY <1>1, <2>1 DEF Page
    <3>3. page.size \in Nat /\ page.size = heap[p].size
      BY <1>1, <2>1
    <3> HIDE DEF left, page
    <3>4. BytesOf(left) = BytesOf(heap)
      BY <3>2, BytesSame
    <3> QED
      BY <1>1, <3>1, <3>2, <3>3, <3>4, BytesMore DEF BytesInv, Bytes
  <2> QED
    BY <2>2, <2>3
<1>4. ASSUME NEW n \in SnapNames, TakeSnapshot(n) PROVE BytesInv'
  <2>1. heap' = Counted(heap, livePages, 1) /\ usedMemory' = usedMemory
    BY <1>4 DEF TakeSnapshot
  <2>2. DOMAIN heap' = DOMAIN heap /\ \A q \in DOMAIN heap : heap'[q].size = heap[q].size
    BY <1>1, <2>1, CountedSizes
  <2> QED
    BY <2>1, <2>2, BytesSame DEF BytesInv, Bytes
<1>5. ASSUME NEW n, Rollback(n) PROVE BytesInv'
  <2> DEFINE released == Counted(heap, livePages, -1)
             table == snapshots[First(n)].table
  <2>1. /\ heap' = Counted(released, table, 1)
        /\ usedMemory' = usedMemory - Bytes(Keep(heap, DOMAIN heap \ DOMAIN released))
    BY <1>5 DEF Rollback
  <2>2. IsFiniteSet(DOMAIN table)
    BY <1>1, <1>5, FirstOfName DEF Rollback
  <2>3. /\ DOMAIN released \subseteq DOMAIN heap /\ released \in [DOMAIN released -> Page]
        /\ \A q \in DOMAIN released : released[q].size = heap[q].size /\ released[q].refs > 0
    BY <1>1, CountedSizes
  <2> HIDE DEF released, table
  <2>4. DOMAIN heap' = DOMAIN released /\ \A q \in DOMAIN released : heap'[q].size = released[q].size
    BY <2>1, <2>2, <2>3, CountedSizes
  <2>5. BytesOf(heap') = BytesOf(released)
    BY <2>4, BytesSame
  <2>6. /\ IsFiniteSet(BytesOf(released))
        /\ Bytes(released) = Bytes(heap) - Bytes(Keep(heap, DOMAIN heap \ DOMAIN released))
    BY <2>3, BytesLess DEF BytesInv
  <2> QED
    BY <2>1, <2>5, <2>6 DEF BytesInv, Bytes
<1>6. ASSUME NEW n, DeleteSnapshot(n) PROVE BytesInv'
  <2> DEFINE left == Counted(heap, snapshots[First(n)].table, -1)
  <2>1. heap' = left /\ usedMemory' = usedMemory - Bytes(Keep(heap, DOMAIN heap \ DOMAIN left))
    BY <1>6 DEF DeleteSnapshot
  <2>2. IsFiniteSet(DOMAIN snapshots[First(n)].table)
    BY <1>1, <1>6, FirstOfName DEF DeleteSnapshot
  <2>3. DOMAIN left \subseteq DOMAIN heap /\ \A q \in DOMAIN left : left[q].size = heap[q].size
    BY <1>1, <2>2, CountedSizes
  <2> HIDE DEF left
  <2>4. /\ IsFiniteSet(BytesOf(left))
        /\ Bytes(left) = Bytes(heap) - Bytes(Keep(heap, DOMAIN heap \ DOMAIN left))
    BY <2>3, BytesLess DEF BytesInv
  <2> QED
    BY <2>1, <2>4 DEF BytesInv
<1> QED
  BY <1>2, <1>3, <1>4, <1>5, <1>6 DEF CowNext, RollbackById

(* Every page is counted by exactly those that point to it, and the memory   *)
(* in use is the sum of the pages' sizes, whoever allocates, clones, rolls   *)
(* back or deletes (usedMemory in allocatePage, clonePage, releasePage).     *)
THEOREM PagesAddUp == CowSpec => []PagesAccounted
<1>1. CowInit => CowInv /\ BytesInv
  <2>1. ASSUME CowInit PROVE BytesInv
    <3>1. DOMAIN heap = {}
      BY <2>1 DEF CowInit
    <3>2. BytesOf(heap) = {}
      BY <3>1 DEF BytesOf
    <3> QED
      BY <2>1, <3>2, FS_EmptySet DEF CowInit, BytesInv, Bytes
  <2> QED
    BY <2>1, CowInitial
<1>2. CowInv /\ BytesInv /\ [CowNext]_cowVars => CowInv' /\ BytesInv'
  <2>1. ASSUME BytesInv, UNCHANGED cowVars PROVE BytesInv'
    BY <2>1 DEF cowVars, BytesInv
  <2> QED
    BY <2>1, CowAssumption, CowStep, CowStutters, BytesKept
<1>3. CowInv /\ BytesInv => PagesAccounted
  BY DEF CowInv, CountedBy, BytesInv, PagesAccounted, PagesCounted
<1> QED
  BY <1>1, <1>2, <1>3, PTL DEF CowSpec

-----------------------------------------------------------------------------
(* Weight pager                                                            *)

Listed(lru, l) == \E i \in DOMAIN lru : lru[i] = l
Once(lru)      == \A i, j \in DOMAIN lru : lru[i] = lru[j] => i = j

PagerTypes == [slots : [Slots -> [layer : Layers \cup {NoLayer}, occupied : BOOLEAN,
                                  pinned : BOOLEAN]],
               at : [Layers -> Slots \cup {0}], lru : Seq(Layers)]

(* MappedWhereLoaded of a pager in the middle of a call.                     *)
MappedRight(p) == \A l \in Layers :
    p.at[l] # 0 => p.slots[p.at[l]].layer = l /\ p.slots[p.at[l]].occupied
SlotsRight(p)  == \A s \in Slots : p.slots[s].pinned \/ p.slots[s].occupied =>
    p.slots[s].layer \in Layers /\ p.at[p.slots[s].layer] = s
ListRight(p)   == Once(p.lru) /\ \A l \in Layers : p.at[l] # 0 <=> Listed(p.lru, l)

SoundPagers == {p \in PagerTypes : MappedRight(p) /\ SlotsRight(p) /\ ListRight(p)}

PagerInv ==
    /\ Pager \in SoundPagers
    /\ layerRegistry \subseteq Layers /\ prefetchQueue \in Seq(Layers)

LEMMA SlotFacts == /\ Slots \subseteq Nat /\ 0 \notin Slots /\ Layers \subseteq Nat
                   /\ 0 \notin Layers /\ NoLayer = 0
BY PagerAssumption DEF Slots, Layers, NoLayer

(* A layer that is erased from the list is gone from it, and no other is.    *)
LEMMA ErasedLists ==
    ASSUME NEW lru \in Seq(Layers), Once(lru), NEW l
    PROVE  /\ Erased(lru, l) \in Seq(Layers) /\ Once(Erased(lru, l))
           /\ \A k : Listed(Erased(lru, l), k) <=> k # l /\ Listed(lru, k)
<1>1. Len(lru) \in Nat /\ DOMAIN lru = 1 .. Len(lru)
  BY LenProperties
<1>2. CASE l \notin Range(lru)
  BY <1>2 DEF Erased, Range, Listed
<1>3. CASE l \in Range(lru)
  <2> DEFINE n == Place(lru, l)
             e == RemoveAt(lru, n)
             was(j) == IF j < n THEN j ELSE j + 1
  <2>1. n \in DOMAIN lru /\ lru[n] = l
    BY <1>3 DEF Range, Place
  <2> HIDE DEF n
  <2>2. /\ e \in Seq(Layers) /\ Len(e) = Len(lru) - 1
        /\ \A j \in 1 .. Len(lru) - 1 : e[j] = lru[was(j)]
    BY <1>1, <2>1, RemoveAtProperties
  <2>3. DOMAIN e = 1 .. Len(lru) - 1
    BY <2>2, LenProperties
  <2>4. Erased(lru, l) = e
    BY <1>3 DEF Erased, n
  <2> HIDE DEF e
  <2>5. /\ \A j \in DOMAIN e : was(j) \in DOMAIN lru /\ was(j) # n /\ e[j] = lru[was(j)]
        /\ \A i, j \in DOMAIN e : was(i) = was(j) => i = j
    BY <1>1, <2>1, <2>2, <2>3
  <2>6. ASSUME NEW m \in DOMAIN lru, m # n PROVE \E j \in DOMAIN e : was(j) = m
    <3>1. CASE m < n
      BY <1>1, <2>1, <2>3, <3>1
    <3>2. CASE m > n
      <4>1. m - 1 \in DOMAIN e /\ was(m - 1) = m
        BY <1>1, <2>1, <2>3, <3>2
      <4> QED
        BY <4>1
    <3> QED
      BY <1>1, <2>1, <2>6, <3>1, <3>2
  <2> HIDE DEF was
  <2>7. Once(e)
    BY <2>5 DEF Once
  <2>8. ASSUME NEW k PROVE Listed(e, k) <=> k # l /\ Listed(lru, k)
    <3>1. ASSUME Listed(e, k) PROVE k # l /\ Listed(lru, k)
      BY <2>1, <2>5, <3>1 DEF Listed, Once
    <3>2. ASSUME k # l, Listed(lru, k) PROVE Listed(e, k)
      <4>1. PICK m \in DOMAIN lru : lru[m] = k
        BY <3>2 DEF Listed
      <4>2. PICK j \in DOMAIN e : was(j) = m
        BY <2>1, <2>6, <3>2, <4>1
      <4> QED
        BY <2>5, <4>1, <4>2 DEF Listed
    <3> QED
      BY <3>1, <3>2
  <2> QED
    BY <2>2, <2>4, <2>7, <2>8
<1> QED
  BY <1>2, <1>3

(* And put in front it is listed again, first.                               *)
LEMMA TouchedLists ==
    ASSUME NEW lru \in Seq(Layers), Once(lru), NEW l \in Layers
    PROVE  LET t == <<l>> \o Erased(lru, l)
           IN  /\ t \in Seq(Layers) /\ Once(t)
               /\ \A k : Listed(t, k) <=> k = l \/ Listed(lru, k)
<1> DEFINE e == Erased(lru, l)
           t == <<l>> \o e
<1>1. /\ e \in Seq(Layers) /\ Once(e) /\ \A k : Listed(e, k) <=> k # l /\ Listed(lru, k)
  BY ErasedLists
<1> HIDE DEF e
<1>2. <<l>> \in Seq(Layers) /\ Len(<<l>>) = 1 /\ <<l>>[1] = l
  OBVIOUS
<1>3. Len(e) \in Nat /\ DOMAIN e = 1 .. Len(e)
  BY <1>1, LenProperties
<1>4. /\ t \in Seq(Layers) /\ Len(t) = 1 + Len(e)
      /\ \A i \in 1 .. 1 + Len(e) : t[i] = IF i <= 1 THEN <<l>>[i] ELSE e[i - 1]
  BY <1>1, <1>2, ConcatProperties
<1>5. DOMAIN t = 1 .. 1 + Len(e)
  BY <1>4, LenProperties
<1>6. t[1] = l /\ \A i \in 2 .. 1 + Len(e) : t[i] = e[i - 1] /\ i - 1 \in DOMAIN e
  BY <1>2, <1>3, <1>4
<1>7. \A i \in DOMAIN e : i + 1 \in DOMAIN t /\ t[i + 1] = e[i]
  BY <1>3, <1>4, <1>5, <1>6
<1> HIDE DEF t
<1>8. Once(t)
  <2> SUFFICES ASSUME NEW i \in DOMAIN t, NEW j \in DOMAIN t, t[i] = t[j] PROVE i = j
    BY DEF Once
  <2>1. CASE i = 1 \/ j = 1
    <3>1. \A m \in DOMAIN e : e[m] # l
      BY <1>1 DEF Listed
    <3>2. \A m \in DOMAIN t : m # 1 => m \in 2 .. 1 + Len(e)
      BY <1>3, <1>5
    <3>3. \A m \in DOMAIN t : m # 1 => t[m] # l
      BY <1>6, <3>1, <3>2
    <3> QED
      BY <1>6, <2>1, <3>3
  <2>2. CASE i # 1 /\ j # 1
    <3>1. i \in 2 .. 1 + Len(e) /\ j \in 2 .. 1 + Len(e)
      BY <1>3, <1>5, <2>2
    <3>2. e[i - 1] = e[j - 1] /\ i - 1 \in DOMAIN e /\ j - 1 \in DOMAIN e
      BY <1>6, <3>1
    <3>3. i - 1 = j - 1
      BY <1>1, <3>2 DEF Once
    <3> QED
      BY <1>3, <3>1, <3>3
  <2> QED
    BY <2>1, <2>2
<1>9. ASSUME NEW k PROVE Listed(t, k) <=> k = l \/ Listed(lru, k)
  <2>1. Listed(t, k) <=> k = l \/ Listed(e, k)
    <3>1. ASSUME Listed(t, k) PROVE k = l \/ Listed(e, k)
      BY <1>3, <1>5, <1>6, <3>1 DEF Listed
    <3>2. ASSUME k = l \/ Listed(e, k) PROVE Listed(t, k)
      <4>1. 1 \in DOMAIN t
        BY <1>3, <1>5
      <4> QED
        BY <1>6, <1>7, <3>2, <4>1 DEF Listed
    <3> QED
      BY <3>1, <3>2
  <2> QED
    BY <1>1, <2>1
<1> QED
  BY <1>4, <1>8, <1>9 DEF t, e

LEMMA EvictSound ==
    ASSUME NEW p \in SoundPagers, NEW l \in Layers, p.at[l] # 0
    PROVE  /\ EvictLayer(p, l) \in SoundPagers
           /\ ~EvictLayer(p, l).slots[p.at[l]].occupied
           /\ \A k \in Layers : p.at[k] = 0 => EvictLayer(p, l).at[k] = 0
<1> DEFINE s == p.at[l]
           q == EvictLayer(p, l)
<1>1. /\ p \in PagerTypes /\ MappedRight(p) /\ SlotsRight(p) /\ ListRight(p)
      /\ s \in Slots /\ p.slots[s].layer = l
  BY DEF SoundPagers, PagerTypes, MappedRight
<1>2. /\ q.slots \in [Slots -> [layer : Layers \cup {NoLayer}, occupied : BOOLEAN, pinned : BOOLEAN]]
      /\ ~q.slots[s].occupied /\ ~q.slots[s].pinned
      /\ \A r \in Slots : q.slots[r].layer = p.slots[r].layer
      /\ \A r \in Slots : r # s => q.slots[r] = p.slots[r]
  BY <1>1 DEF EvictLayer, PagerTypes
<1>3. /\ q.at \in [Layers -> Slots \cup {0}] /\ q.at[l] = 0
      /\ \A k \in Layers : k # l => q.at[k] = p.at[k]
  BY <1>1 DEF EvictLayer, PagerTypes
<1>4. q.lru = Erased(p.lru, l) /\ q = [slots |-> q.slots, at |-> q.at, lru |-> q.lru]
  BY DEF EvictLayer
<1>5. p.lru \in Seq(Layers) /\ Once(p.lru)
  BY <1>1 DEF PagerTypes, ListRight
<1>6. /\ q.lru \in Seq(Layers) /\ Once(q.lru)
      /\ \A k : Listed(q.lru, k) <=> k # l /\ Listed(p.lru, k)
  BY <1>4, <1>5, ErasedLists
<1> HIDE DEF q
<1>7. q \in PagerTypes
  BY <1>2, <1>3, <1>4, <1>6 DEF PagerTypes
<1>8. MappedRight(q)
  BY <1>1, <1>2, <1>3 DEF MappedRight
<1>9. SlotsRight(q)
  BY <1>1, <1>2, <1>3 DEF SlotsRight
<1>10. ListRight(q)
  BY <1>1, <1>3, <1>6 DEF ListRight
<1> QED
  BY <1>2, <1>3, <1>7, <1>8, <1>9, <1>10 DEF SoundPagers, q

(* What findSlot hands out is free, and no layer has been mapped meanwhile.  *)
LEMMA FindSound ==
    ASSUME NEW p \in SoundPagers
    PROVE  LET found == FindSlot(p)
           IN  /\ found.pager \in SoundPagers /\ found.slot \in Slots \cup {0}
               /\ found.slot # 0 => ~found.pager.slots[found.slot].occupied
               /\ \A k \in Layers : p.at[k] = 0 => found.pager.at[k] = 0
<1> DEFINE found == FindSlot(p)
<1>1. CASE FreeSlots(p) # {}
  <2> DEFINE s == CHOOSE s \in FreeSlots(p) : \A t \in FreeSlots(p) : s <= t
  <2>1. FreeSlots(p) \in SUBSET Nat /\ FreeSlots(p) \subseteq Slots
    BY SlotFacts DEF FreeSlots
  <2>2. \E x \in FreeSlots(p) : \A t \in FreeSlots(p) : x <= t
    BY <1>1, <2>1, LeastOf
  <2>3. s \in FreeSlots(p)
    BY <2>2
  <2>4. found = [pager |-> p, slot |-> s]
    BY <1>1 DEF FindSlot
  <2> HIDE DEF s, found
  <2>5. found.pager = p /\ found.slot = s
    BY <2>4
  <2> QED
    BY <2>1, <2>3, <2>5 DEF FreeSlots, found
<1>2. CASE FreeSlots(p) = {} /\ Evictable(p) = {}
  <2>1. found = [pager |-> p, slot |-> 0]
    BY <1>2 DEF FindSlot
  <2> QED
    BY <2>1
<1>3. CASE FreeSlots(p) = {} /\ Evictable(p) # {}
  <2> DEFINE i == Max(Evictable(p))
             v == p.lru[i]
  <2>1. found = [pager |-> EvictLayer(p, v), slot |-> p.at[v]]
    BY <1>3 DEF FindSlot
  <2>2. p.lru \in Seq(Layers) /\ Len(p.lru) \in Nat /\ DOMAIN p.lru = 1 .. Len(p.lru)
    BY LenProperties DEF SoundPagers, PagerTypes
  <2>3. Evictable(p) \in SUBSET Nat /\ \A j \in Evictable(p) : j <= Len(p.lru)
    BY <2>2 DEF Evictable
  <2>4. i \in Evictable(p)
    BY <1>3, <2>2, <2>3, MaxOf
  <2> HIDE DEF i
  <2>5. i \in DOMAIN p.lru /\ p.at[v] # 0
    BY <2>4 DEF Evictable
  <2>6. v \in Layers /\ p.at[v] \in Slots
    BY <2>2, <2>5, ElementOfSeq DEF SoundPagers, PagerTypes
  <2> HIDE DEF v, found
  <2>7. found.pager = EvictLayer(p, v) /\ found.slot = p.at[v]
    BY <2>1
  <2> QED
    BY <2>5, <2>6, <2>7, EvictSound DEF found
<1> QED
  BY <1>1, <1>2, <1>3

LEMMA TouchSound ==
    ASSUME NEW p \in SoundPagers, NEW l \in Layers, p.at[l] # 0
    PROVE  Touch(p, l) \in SoundPagers
<1> DEFINE t == <<l>> \o Erased(p.lru, l)
           q == Touch(p, l)
<1>1. p \in PagerTypes /\ p.lru \in Seq(Layers) /\ Once(p.lru)
  BY DEF SoundPagers, PagerTypes, ListRight
<1>2. t \in Seq(Layers) /\ Once(t) /\ \A k : Listed(t, k) <=> k = l \/ Listed(p.lru, k)
  BY <1>1, TouchedLists
<1>3. q = [p EXCEPT !.lru = t]
  BY DEF Touch
<1> HIDE DEF t, q
<1>4. q \in PagerTypes /\ q.slots = p.slots /\ q.at = p.at /\ q.lru = t
  BY <1>1, <1>2, <1>3 DEF PagerTypes
<1>5. MappedRight(q) /\ SlotsRight(q)
  BY <1>4 DEF SoundPagers, MappedRight, SlotsRight
<1>6. ListRight(q)
  BY <1>2, <1>4 DEF SoundPagers, ListRight
<1> QED
  BY <1>4, <1>5, <1>6 DEF SoundPagers, q

(* A layer that is not mapped gets the free slot that was found for it, or   *)
(* nothing happens beyond the eviction.                                      *)
LEMMA LoadSound ==
    ASSUME NEW found, found.pager \in SoundPagers, found.slot \in Slots \cup {0},
           found.slot # 0 => ~found.pager.slots[found.slot].occupied,
           NEW l \in Layers, found.pager.at[l] = 0, NEW readable \in BOOLEAN
    PROVE  LoadInto(found, l, readable) \in SoundPagers
<1>1. CASE found.slot = 0 \/ l \notin layerRegistry \/ ~readable
  BY <1>1 DEF LoadInto
<1>2. CASE found.slot # 0 /\ l \in layerRegistry /\ readable
  <2> DEFINE p == found.pager
             s == found.slot
             m == [p EXCEPT !.slots[s] = [@ EXCEPT !.layer = l, !.occupied = TRUE], !.at[l] = s]
             t == <<l>> \o Erased(p.lru, l)
             q == LoadInto(found, l, readable)
  <2>1. /\ p \in PagerTypes /\ MappedRight(p) /\ SlotsRight(p) /\ ListRight(p)
        /\ s \in Slots /\ s # 0 /\ ~p.slots[s].occupied /\ p.at[l] = 0
    BY <1>2 DEF SoundPagers
  <2>2. q = Touch(m, l)
    BY <1>2 DEF LoadInto
  <2> DEFINE SlotType == [layer : Layers \cup {NoLayer}, occupied : BOOLEAN, pinned : BOOLEAN]
             row == [p.slots[s] EXCEPT !.layer = l, !.occupied = TRUE]
             held == [p.slots EXCEPT ![s] = row]
             map == [p.at EXCEPT ![l] = s]
  <2>3. /\ p.slots \in [Slots -> SlotType] /\ p.slots[s] \in SlotType
        /\ p.at \in [Layers -> Slots \cup {0}]
    BY <2>1 DEF PagerTypes
  <2>4. row \in SlotType /\ row.layer = l /\ row.occupied /\ row.pinned = p.slots[s].pinned
    BY <2>3
  <2>5. m = [p EXCEPT !.slots = held, !.at = map]
    OBVIOUS
  <2> HIDE DEF row, SlotType, m
  <2>6. /\ held \in [Slots -> SlotType] /\ held[s] = row
        /\ \A r \in Slots : r # s => held[r] = p.slots[r]
    BY <2>1, <2>3, <2>4
  <2>7. /\ map \in [Layers -> Slots \cup {0}] /\ map[l] = s
        /\ \A k \in Layers : k # l => map[k] = p.at[k]
    BY <2>1, <2>3
  <2> HIDE DEF held, map
  <2>8. /\ m.slots = held /\ m.at = map /\ m.lru = p.lru
        /\ m = [slots |-> m.slots, at |-> m.at, lru |-> m.lru]
    BY <2>1, <2>5 DEF PagerTypes
  <2>9. /\ m.slots \in [Slots -> [layer : Layers \cup {NoLayer}, occupied : BOOLEAN, pinned : BOOLEAN]]
        /\ m.slots[s].layer = l /\ m.slots[s].occupied /\ m.slots[s].pinned = p.slots[s].pinned
        /\ \A r \in Slots : r # s => m.slots[r] = p.slots[r]
        /\ m.at \in [Layers -> Slots \cup {0}] /\ m.at[l] = s
        /\ \A k \in Layers : k # l => m.at[k] = p.at[k]
    BY <2>4, <2>6, <2>7, <2>8 DEF SlotType
  <2>10. p.lru \in Seq(Layers) /\ Once(p.lru)
    BY <2>1 DEF PagerTypes, ListRight
  <2>11. t \in Seq(Layers) /\ Once(t) /\ \A k : Listed(t, k) <=> k = l \/ Listed(p.lru, k)
    BY <2>10, TouchedLists
  <2>12. /\ q.slots = m.slots /\ q.at = m.at /\ q.lru = t
         /\ q = [slots |-> q.slots, at |-> q.at, lru |-> q.lru]
    BY <2>2, <2>8 DEF Touch
  <2> HIDE DEF p, s, t, q
  <2>13. q \in PagerTypes
    BY <2>9, <2>11, <2>12 DEF PagerTypes
  <2>14. \A k \in Layers : p.at[k] # s
    BY <2>1 DEF MappedRight
  <2>15. MappedRight(q)
    BY <2>1, <2>9, <2>12, <2>14 DEF MappedRight, PagerTypes
  <2>16. SlotsRight(q)
    <3> SUFFICES ASSUME NEW r \in Slots, q.slots[r].pinned \/ q.slots[r].occupied
                 PROVE  q.slots[r].layer \in Layers /\ q.at[q.slots[r].layer] = r
      BY DEF SlotsRight
    <3>1. CASE r = s
      BY <2>9, <2>12, <3>1
    <3>2. CASE r # s
      <4>1. q.slots[r] = p.slots[r]
        BY <2>9, <2>12, <3>2
      <4>2. p.slots[r].layer \in Layers /\ p.at[p.slots[r].layer] = r
        BY <2>1, <4>1 DEF SlotsRight
      <4>3. p.slots[r].layer # l
        BY <2>1, <4>2, SlotFacts
      <4> QED
        BY <2>9, <2>12, <4>1, <4>2, <4>3
    <3> QED
      BY <3>1, <3>2
  <2>17. ListRight(q)
    <3>1. \A k \in Layers : k # l => (q.at[k] # 0 <=> Listed(p.lru, k))
      BY <2>1, <2>9, <2>12 DEF ListRight
    <3>2. q.at[l] # 0
      BY <2>1, <2>9, <2>12
    <3> QED
      BY <2>11, <2>12, <3>1, <3>2 DEF ListRight
  <2> QED
    BY <2>13, <2>15, <2>16, <2>17 DEF SoundPagers, q
<1> QED
  BY <1>1, <1>2

LEMMA PagerInitial == ASSUME PagerInit PROVE PagerInv
<1>1. Pager \in PagerTypes
  BY SlotFacts DEF PagerInit, Pager, PagerTypes
<1>2. MappedRight(Pager) /\ SlotsRight(Pager)
  BY DEF PagerInit, Pager, MappedRight, SlotsRight
<1>3. ListRight(Pager)
  BY DEF PagerInit, Pager, ListRight, Once, Listed
<1> QED
  BY <1>1, <1>2, <1>3 DEF PagerInv, SoundPagers, PagerInit

LEMMA PagerIs ==
    ASSUME NEW p \in SoundPagers, SetPager(p)
    PROVE  Pager' = p
BY DEF SoundPagers, PagerTypes, SetPager, Pager

LEMMA AccessKeeps ==
    ASSUME PagerInv, NEW l \in Layers, NEW readable \in BOOLEAN, AccessLayer(l, readable)
    PROVE  PagerInv'
<1>1. Pager \in SoundPagers /\ UNCHANGED <<layerRegistry, prefetchQueue>> /\ Pager.at = layerToSlot
  BY DEF PagerInv, AccessLayer, Pager
<1>2. CASE layerToSlot[l] # 0
  <2>1. Touch(Pager, l) \in SoundPagers
    BY <1>1, <1>2, TouchSound
  <2>2. SetPager(Touch(Pager, l))
    BY <1>2 DEF AccessLayer
  <2> QED
    BY <1>1, <2>1, <2>2, PagerIs DEF PagerInv
<1>3. CASE layerToSlot[l] = 0
  <2> DEFINE found == FindSlot(Pager)
             p == LoadInto(found, l, readable)
  <2>1. /\ found.pager \in SoundPagers /\ found.slot \in Slots \cup {0}
        /\ found.slot # 0 => ~found.pager.slots[found.slot].occupied
        /\ found.pager.at[l] = 0
    BY <1>1, <1>3, FindSound
  <2>2. SetPager(p)
    BY <1>3 DEF AccessLayer
  <2> HIDE DEF found
  <2>3. p \in SoundPagers
    BY <2>1, LoadSound
  <2> HIDE DEF p
  <2> QED
    BY <1>1, <2>2, <2>3, PagerIs DEF PagerInv
<1> QED
  BY <1>2, <1>3

LEMMA PinKeeps ==
    ASSUME PagerInv, NEW l \in Layers, NEW on \in BOOLEAN, SetPin(l, on)
    PROVE  PagerInv'
<1> DEFINE s == layerToSlot[l]
           p == Pager
           q == Pager'
<1>1. /\ p \in PagerTypes /\ MappedRight(p) /\ SlotsRight(p) /\ ListRight(p)
      /\ p.slots = weightSlots /\ p.at = layerToSlot /\ p.lru = lruOrder
      /\ q = [slots |-> weightSlots', at |-> layerToSlot', lru |-> lruOrder']
      /\ layerToSlot' = layerToSlot /\ lruOrder' = lruOrder
      /\ UNCHANGED <<layerRegistry, prefetchQueue>>
  BY DEF PagerInv, SoundPagers, Pager, SetPin
<1>2. s \in Slots /\ weightSlots[s].layer = l /\ weightSlots[s].occupied
  BY <1>1 DEF SetPin, MappedRight, PagerTypes
<1>3. weightSlots' = [weightSlots EXCEPT ![s].pinned = on]
  BY DEF SetPin
<1>4. /\ weightSlots' \in [Slots -> [layer : Layers \cup {NoLayer}, occupied : BOOLEAN,
                                     pinned : BOOLEAN]]
      /\ weightSlots'[s].layer = l /\ weightSlots'[s].occupied
      /\ \A r \in Slots : r # s => weightSlots'[r] = weightSlots[r]
      /\ \A r \in Slots : weightSlots'[r].layer = weightSlots[r].layer
      /\ \A r \in Slots : weightSlots[r].occupied => weightSlots'[r].occupied
  BY <1>1, <1>2, <1>3 DEF PagerTypes
<1> HIDE DEF p, q
<1>5. q \in PagerTypes /\ q.slots = weightSlots' /\ q.at = p.at /\ q.lru = p.lru
  BY <1>1, <1>4 DEF PagerTypes
<1>6. MappedRight(q)
  BY <1>1, <1>4, <1>5 DEF MappedRight, PagerTypes
<1>7. SlotsRight(q)
  <2> SUFFICES ASSUME NEW r \in Slots, q.slots[r].pinned \/ q.slots[r].occupied
               PROVE  q.slots[r].layer \in Layers /\ q.at[q.slots[r].layer] = r
    BY DEF SlotsRight
  <2>1. CASE r = s
    BY <1>1, <1>4, <1>5, <2>1
  <2>2. CASE r # s
    BY <1>1, <1>4, <1>5, <2>2 DEF SlotsRight
  <2> QED
    BY <2>1, <2>2
<1>8. ListRight(q)
  BY <1>1, <1>5 DEF ListRight
<1> QED
  BY <1>1, <1>5, <1>6, <1>7, <1>8 DEF PagerInv, SoundPagers, q

LEMMA QueueKeeps ==
    ASSUME PagerInv, NEW l \in Layers, RegisterLayer(l) \/ PrefetchHint(l) \/ PrefetchSequential(l)
    PROVE  PagerInv'
<1>1. CASE RegisterLayer(l)
  BY <1>1 DEF RegisterLayer, PagerInv, Pager
<1>2. CASE PrefetchHint(l)
  <2>1. prefetchQueue' \in Seq(Layers)
    BY <1>2, AppendProperties DEF PrefetchHint, PagerInv
  <2> QED
    BY <1>2, <2>1 DEF PrefetchHint, PagerInv, Pager
<1>3. CASE PrefetchSequential(l)
  <2> DEFINE next == Ascending(Ahead(l))
  <2>1. prefetchQueue' = prefetchQueue \o next
    BY <1>3 DEF PrefetchSequential
  <2>2. Ahead(l) \subseteq Layers /\ IsFiniteSet(Ahead(l))
    <3> DEFINE a == l + 1
               b == l + LookAhead
    <3>1. IsFiniteSet(a .. b)
      <4>1. a \in Int /\ b \in Int
        BY PagerAssumption, SlotFacts
      <4> HIDE DEF a, b
      <4> QED
        BY <4>1, FS_Interval
    <3>2. Ahead(l) \in SUBSET (l + 1 .. l + LookAhead)
      BY DEF Ahead
    <3> QED
      BY <3>1, <3>2, FS_Subset DEF Ahead, PagerInv
  <2>3. Ahead(l) \in SUBSET Nat
    BY <2>2 DEF Layers
  <2>4. next \in [1 .. Cardinality(Ahead(l)) -> Ahead(l)] /\ Cardinality(Ahead(l)) \in Nat
    <3>1. AscendingOver(Ahead(l)) # {}
      BY <2>2, <2>3, AscendingExists
    <3> QED
      BY <2>2, <3>1, FS_CardinalityType DEF AscendingOver, Ascending
  <2> HIDE DEF next
  <2>5. next \in Seq(Layers)
    BY <2>2, <2>4, IsASeq
  <2>6. prefetchQueue' \in Seq(Layers)
    BY <2>1, <2>5, ConcatProperties DEF PagerInv
  <2> QED
    BY <1>3, <2>6 DEF PrefetchSequential, PagerInv, Pager
<1> QED
  BY <1>1, <1>2, <1>3

(* A request that processPrefetch has been through. *)
Works == [pager : SoundPagers, stopped : BOOLEAN]

LEMMA PrefetchedSound ==
    ASSUME NEW w \in Works, NEW l \in Layers, NEW readable \in BOOLEAN
    PROVE  Prefetched(w, l, readable) \in Works
<1>1. CASE w.stopped \/ w.pager.at[l] # 0
  BY <1>1 DEF Prefetched
<1>2. CASE ~(w.stopped \/ w.pager.at[l] # 0)
  <2> DEFINE found == FindSlot(w.pager)
             p == LoadInto(found, l, readable)
  <2>1. w.pager \in SoundPagers /\ w.pager.at[l] = 0
    BY <1>2 DEF Works
  <2>2. /\ found.pager \in SoundPagers /\ found.slot \in Slots \cup {0}
        /\ found.slot # 0 => ~found.pager.slots[found.slot].occupied
        /\ found.pager.at[l] = 0
    BY <2>1, FindSound
  <2>3. Prefetched(w, l, readable) = [pager |-> p, stopped |-> found.slot = 0]
    BY <1>2 DEF Prefetched
  <2> HIDE DEF found
  <2>4. p \in SoundPagers
    BY <2>2, LoadSound
  <2> HIDE DEF p
  <2> QED
    BY <2>3, <2>4 DEF Works
<1> QED
  BY <1>1, <1>2

(* The loop over the queue starts with a sound pager and keeps it so.        *)
LEMMA ProcessKeeps ==
    ASSUME PagerInv, NEW unreadable \in SUBSET Layers, ProcessPrefetch(unreadable)
    PROVE  PagerInv'
<1> DEFINE n == Len(prefetchQueue)
           base == [pager |-> Pager, stopped |-> FALSE]
           readable(i) == prefetchQueue[i] \notin unreadable
           next(w, i) == Prefetched(w, prefetchQueue[i], readable(i))
           loop[i \in 0 .. n] == IF i = 0 THEN base ELSE next(loop[i - 1], i)
           g == [c \in Works \X (1 .. n) |-> next(c[1], c[2])]
<1>1. n \in Nat /\ \A i \in 1 .. n : prefetchQueue[i] \in Layers
  BY LenProperties, ElementOfSeq DEF PagerInv
<1>2. base \in Works
  BY DEF Works, PagerInv
<1>3. \A w \in Works, i \in 1 .. n : next(w, i) \in Works
  BY <1>1, PrefetchedSound
<1>4. SetPager(loop[n].pager) /\ prefetchQueue' = <<>> /\ layerRegistry' = layerRegistry
  BY DEF ProcessPrefetch
<1> HIDE DEF base, next
<1>5. g \in Rounds(Works, n)
  BY <1>3 DEF Rounds
<1>6. PICK f \in [0 .. n -> Works] : f[0] = base /\ \A i \in 1 .. n : f[i] = g[<<f[i - 1], i>>]
  <2>1. n \in Nat
    BY <1>1
  <2> HIDE DEF g, n, loop
  <2>2. Loops(Works, n, base, g) # {}
    BY <1>2, <1>5, <2>1, LoopExists
  <2> QED
    BY <2>2 DEF Loops
<1>7. f = [i \in 0 .. n |-> IF i = 0 THEN base ELSE next(f[i - 1], i)]
  <2>1. ASSUME NEW i \in 0 .. n PROVE f[i] = IF i = 0 THEN base ELSE next(f[i - 1], i)
    <3>1. CASE i # 0
      <4>1. i \in 1 .. n /\ f[i - 1] \in Works
        BY <1>1, <3>1
      <4> QED
        BY <1>6, <3>1, <4>1
    <3> QED
      BY <1>6, <3>1
  <2> QED
    BY <2>1
<1>8. loop = [i \in 0 .. n |-> IF i = 0 THEN base ELSE next(loop[i - 1], i)]
  BY <1>7
<1> HIDE DEF loop, n
<1>9. loop[0] = base /\ \A i \in 1 .. n : i \in 0 .. n /\ loop[i] = next(loop[i - 1], i)
  BY <1>1, <1>8
<1>10. \A i \in 1 .. n : loop[i - 1] \in Works => loop[i] \in Works
  BY <1>3, <1>9
<1>11. \A i \in 0 .. n : loop[i] \in Works
  BY <1>1, <1>2, <1>9, <1>10, LoopStays
<1>12. loop[n] \in Works
  BY <1>1, <1>11
<1>13. loop[n].pager \in SoundPagers
  BY <1>12 DEF Works
<1>14. Pager' \in SoundPagers
  BY <1>4, <1>13, PagerIs
<1> QED
  BY <1>4, <1>14 DEF PagerInv

LEMMA PagerStep == PagerInv /\ [PagerNext]_pagerVars => PagerInv'
<1> SUFFICES ASSUME PagerInv, [PagerNext]_pagerVars PROVE PagerInv'
  OBVIOUS
<1>1. CASE UNCHANGED pagerVars
  BY <1>1 DEF PagerInv, Pager, pagerVars
<1> QED
  BY <1>1, AccessKeeps, PinKeeps, QueueKeeps, ProcessKeeps DEF PagerNext

(* For any slots and layers: a mapped layer finds its own data in its slot,  *)
(* no slot belongs to two, and exactly the mapped layers are candidates for  *)
(* eviction, each once (findSlot, evictLayer, loadLayerFromDisk, touchLRU).  *)
THEOREM LayersWhereMapped == PagerSpec => []MappedWhereLoaded
<1>1. PagerInv => MappedWhereLoaded
  <2> SUFFICES ASSUME PagerInv PROVE MappedWhereLoaded
    OBVIOUS
  <2>1. /\ Pager \in PagerTypes /\ MappedRight(Pager) /\ SlotsRight(Pager) /\ ListRight(Pager)
        /\ lruOrder \in Seq(Layers)
    BY DEF PagerInv, SoundPagers, PagerTypes, Pager
  <2>2. Range(lruOrder) = {l \in Layers : layerToSlot[l] # 0}
    <3>1. Range(lruOrder) \subseteq Layers
      BY <2>1, LenProperties, ElementOfSeq DEF Range
    <3>2. \A l \in Layers : layerToSlot[l] # 0 <=> l \in Range(lruOrder)
      BY <2>1 DEF ListRight, Listed, Range, Pager
    <3> QED
      BY <3>1, <3>2
  <2>3. IsInjective(lruOrder)
    BY <2>1 DEF ListRight, Once, Pager, IsInjective
  <2> QED
    BY <2>1, <2>2, <2>3 DEF MappedWhereLoaded, MappedRight, SlotsRight, Pager
<1> QED
  BY <1>1, PagerInitial, PagerStep, PTL DEF PagerSpec

-----------------------------------------------------------------------------
(* The turns of the tool loop                                              *)

Said     == Pieces \cup {[word |-> "error"], [word |-> "report"]}
Notices  == {Notice(t) : t \in {"unreachable"} \cup UNION {Range(list) : list \in FactLists}}
ToolRun  == [call : Said, text : Seq(Said), effect : BOOLEAN, told : BOOLEAN]

TurnTypes ==
    /\ stage \in {"idle", "looping", "synthesizing", "stopping", "delivered"}
    /\ facts \in Seq(UNION {Range(list) : list \in FactLists})
    /\ used \in Nat /\ toolRuns \in Seq(ToolRun)
    /\ stage # "delivered" => reply \in Seq(Said)

(* Where the text of a run is once the model has been asked about it.        *)
Accounted(runs, i, said) ==
    \A k \in 1 .. Len(runs[i].text) :
        \/ \E j \in i .. Len(runs) : runs[j].told
        \/ Contains(said, runs[i].text[k])
        \/ /\ IsCall(runs[i].text[k])
           /\ \E j \in i + 1 .. Len(runs) : runs[j].call = runs[i].text[k]

(* While the turn goes on: as many runs as are counted, the one in hand      *)
(* aside, whose call is the one in the reply; the text of each earlier one   *)
(* is accounted for; and once a tool has run, there is something to deliver. *)
Going ==
    /\ stage = "looping" =>
          /\ Len(toolRuns) = used /\ used <= MaxToolCalls
          /\ toolRuns # <<>> => reply # <<>>
          /\ \A i \in 1 .. Len(toolRuns) : Accounted(toolRuns, i, reply)
    /\ stage \in {"synthesizing", "stopping"} =>
          /\ Len(toolRuns) = used + 1 /\ used < MaxToolCalls
          /\ \E c \in CallsAt(reply) : toolRuns[Len(toolRuns)].call = reply[c]
          /\ toolRuns[Len(toolRuns)].told = FALSE
          /\ \A i \in 1 .. Len(toolRuns) - 1 : Accounted(toolRuns, i, reply)
          /\ (toolRuns[Len(toolRuns)].text = <<>>) <=> (stage = "stopping")

TurnInv == TurnTypes /\ Going /\ TurnAccounted

LEMMA SaidPieces ==
    /\ \A piece \in Said : IsCall(piece) \/ IsWord(piece)
    /\ \A piece \in Said : piece \notin Notices
    /\ \A piece \in Notices : ~ IsCall(piece)
<1>1. \A t : DOMAIN [word |-> t] = {"word"} /\ DOMAIN Notice(t) = {"notice"}
  BY DEF Notice
<1>2. \A piece \in Pieces : IsCall(piece) \/ IsWord(piece)
  BY ToolAssumption
<1>3. \A piece \in Said : IsCall(piece) \/ IsWord(piece)
  BY <1>1, <1>2 DEF Said, IsWord
<1>4. \A piece \in Notices : DOMAIN piece = {"notice"}
  BY <1>1 DEF Notices
<1>5. \A piece \in Notices : ~ IsCall(piece) /\ ~ IsWord(piece)
  <2>1. {"notice"} # {"word"} /\ {"notice"} # {"tool", "args"}
    OBVIOUS
  <2> QED
    BY <1>4, <2>1 DEF IsCall, IsWord
<1> QED
  BY <1>3, <1>5

(* What the model writes, sanitized or missing, is a text.                   *)
LEMMA GeneratedTexts == Generated \subseteq Seq(Said)
<1>1. <<>> \in Seq(Said)
  BY EmptySeq
<1>2. ASSUME NEW text \in Answers, NEW t \in Sanitized(text) PROVE t \in Seq(Said)
  <2>1. text \in Seq(Pieces)
    BY ToolAssumption
  <2>2. text \in Seq(Said)
    <3>1. Pieces \subseteq Said
      BY DEF Said
    <3> QED
      BY <2>1, <3>1, SeqMonotonic
  <2>3. PICK I \in SUBSET DOMAIN text : t = Picked(text, I)
    BY <1>2 DEF Sanitized
  <2> QED
    BY <2>2, <2>3, PickedElements
<1> QED
  BY <1>1, <1>2 DEF Generated

(* So is what a tool returns, whichever it is.                               *)
LEMMA OutcomeTexts ==
    ASSUME NEW call, call.tool \in ToolNames, NEW outcome \in Execute(call)
    PROVE  outcome.text \in Seq(Said) /\ outcome.effect \in BOOLEAN
<1> DEFINE Fine(S) == \A o \in S : o.text \in Seq(Said) /\ o.effect \in BOOLEAN
<1>1. \A word \in {"error", "report"} : Text(word) \in Seq(Said)
  <2>1. \A word \in {"error", "report"} : [word |-> word] \in Said
    BY DEF Said
  <2> QED
    BY <2>1 DEF Text
<1>2. \A t \in Outputs \cup {<<>>} : t \in Seq(Said)
  <2>1. \A t \in Outputs : t \in Seq(Pieces)
    BY ToolAssumption
  <2> QED
    BY <2>1, SeqMonotonic, EmptySeq DEF Said
<1>4. Fine(Refusal) /\ Fine(Report) /\ Fine(Change)
  BY <1>1 DEF Refusal, Report, Change, Outcome
<1>5. Fine(Read)
  <2>1. ASSUME NEW t \in Outputs \cup {<<>>}
        PROVE  Outcome(t, FALSE).text \in Seq(Said) /\ Outcome(t, FALSE).effect \in BOOLEAN
    BY <1>2 DEF Outcome
  <2> QED
    BY <1>4, <2>1 DEF Read
<1>6. Fine(Command)
  <2>1. ASSUME NEW t \in Outputs \cup {<<>>}
        PROVE  Outcome(t, TRUE).text \in Seq(Said) /\ Outcome(t, TRUE).effect \in BOOLEAN
    BY <1>2 DEF Outcome
  <2>2. ASSUME NEW b \in BOOLEAN
        PROVE  /\ Outcome(Text("error"), b).text \in Seq(Said)
               /\ Outcome(Text("error"), b).effect \in BOOLEAN
    BY <1>1 DEF Outcome
  <2> QED
    BY <2>1, <2>2 DEF Command
<1>7. \A S, T : Fine(S) /\ Fine(T) => Fine(S \cup T)
  OBVIOUS
<1> HIDE DEF Fine
<1>8. Fine(Refusal \cup Report) /\ Fine(Refusal \cup Change)
  BY <1>4, <1>7
<1>9. /\ Fine(SSHExec(call)) /\ Fine(DockerCmd(call)) /\ Fine(LocalShell(call))
      /\ Fine(ReadFile(call)) /\ Fine(WriteText(call)) /\ Fine(WebSearch(call))
      /\ Fine(LearnFact(call))
  BY <1>4, <1>5, <1>6, <1>8
     DEF SSHExec, DockerCmd, LocalShell, ReadFile, WriteText, WebSearch, LearnFact
<1>10. Fine(PaperTrade(call))
  BY <1>4, <1>8 DEF PaperTrade
<1>11. Fine(Execute(call))
  BY <1>4, <1>8, <1>9, <1>10 DEF Execute, ToolNames
<1> QED
  BY <1>11 DEF Fine

LEMMA GatheredFacts ==
    ASSUME NEW S, NEW relevant \in Seq(S), NEW personal \in Seq(S)
    PROVE  Gathered(relevant, personal) \in Seq(S)
<1> DEFINE p == Picked(personal, Unlisted(relevant, personal))
<1>1. Unlisted(relevant, personal) \in SUBSET DOMAIN personal
  BY DEF Unlisted
<1>2. p \in Seq(S)
  BY <1>1, PickedElements
<1> HIDE DEF p
<1>3. Reverse(p) \in Seq(S)
  <2>1. Len(p) \in Nat /\ \A i \in 1 .. Len(p) : p[i] \in S
    BY <1>2, LenProperties, ElementOfSeq
  <2>2. \A i \in 1 .. Len(p) : (Len(p) - i) + 1 \in 1 .. Len(p)
    BY <2>1
  <2> QED
    BY <2>1, <2>2, IsASeq DEF Reverse
<1> QED
  BY <1>3, ConcatProperties DEF Gathered, p

(* The fallback is told apart from whatever the model and the tools say.     *)
LEMMA FallbackSaid ==
    ASSUME TurnTypes
    PROVE  /\ Fallback \notin Seq(Said) /\ CallsAt(Fallback) = {}
<1> DEFINE L == UNION {Range(list) : list \in FactLists}
           n == IF facts = <<>> THEN 1 ELSE IF Len(facts) < 3 THEN Len(facts) ELSE 3
<1>1. /\ Len(facts) \in Nat /\ \A i \in 1 .. Len(facts) : facts[i] \in L
      /\ facts # <<>> => Len(facts) > 0
  BY LenProperties, ElementOfSeq, EmptySeq DEF TurnTypes
<1>2. n \in Nat /\ n >= 1 /\ (facts # <<>> => n <= Len(facts))
  BY <1>1
<1>3. Fallback = [i \in 1 .. n |-> IF facts = <<>> THEN Notice("unreachable") ELSE Notice(facts[i])]
  BY DEF Fallback
<1>4. \A i \in 1 .. n : Fallback[i] \in Notices
  BY <1>1, <1>2, <1>3 DEF Notices
<1>5. Fallback \in Seq(Notices) /\ Len(Fallback) = n
  BY <1>2, <1>3, <1>4, IsASeq
<1>6. Fallback \notin Seq(Said)
  <2>1. 1 \in 1 .. n
    BY <1>2
  <2>2. Fallback[1] \notin Said
    BY <1>4, <2>1, SaidPieces
  <2> QED
    BY <1>5, <2>1, <2>2, ElementOfSeq
<1>7. \A i \in 1 .. Len(Fallback) : ~ IsCall(Fallback[i])
  BY <1>4, <1>5, SaidPieces
<1> QED
  BY <1>6, <1>7 DEF CallsAt

LEMMA FoundCall ==
    ASSUME NEW text, NEW c \in CallsAt(text)
    PROVE  /\ c \in 1 .. Len(text) /\ IsCall(text[c]) /\ text[c].tool \in ToolNames
           /\ \A d \in CallsAt(text) : d = c
BY DEF CallsAt

LEMMA TurnBegins ==
    ASSUME TurnInv, Ask
    PROVE  TurnInv'
<1>1. facts' \in Seq(UNION {Range(list) : list \in FactLists})
  BY ToolAssumption, GatheredFacts DEF Ask
<1>2. reply' \in Seq(Said)
  BY GeneratedTexts DEF Ask
<1>3. Len(<<>>) = 0 /\ <<>> \in Seq(ToolRun)
  BY EmptySeq
<1>4. TurnTypes'
  BY <1>1, <1>2, <1>3 DEF Ask, TurnTypes
<1>5. Going'
  BY <1>3, ToolAssumption DEF Ask, Going
<1>6. TurnAccounted'
  BY DEF Ask, TurnAccounted, Delivered
<1> QED
  BY <1>4, <1>5, <1>6 DEF TurnInv

(* What is accounted for stays so when another tool is run.                  *)
LEMMA AccountedAhead ==
    ASSUME NEW runs \in Seq(ToolRun), NEW r \in ToolRun,
           NEW i \in 1 .. Len(runs), NEW said, Accounted(runs, i, said)
    PROVE  Accounted(Append(runs, r), i, said)
<1> DEFINE more == Append(runs, r)
<1>1. /\ Len(runs) \in Nat /\ Len(more) = Len(runs) + 1
      /\ \A j \in 1 .. Len(runs) : more[j] = runs[j]
  BY AppendProperties, LenProperties
<1> HIDE DEF more
<1>2. /\ i .. Len(runs) \subseteq i .. Len(more)
      /\ i + 1 .. Len(runs) \subseteq i + 1 .. Len(more)
      /\ i .. Len(runs) \subseteq 1 .. Len(runs)
      /\ i + 1 .. Len(runs) \subseteq 1 .. Len(runs)
  BY <1>1
<1>3. more[i] = runs[i]
  BY <1>1
<1> QED
  BY <1>1, <1>2, <1>3 DEF Accounted, more

(* So does it when the model leaves no answer and the call is cut out: it    *)
(* may have been said, and was just run.                                     *)
LEMMA AccountedWithout ==
    ASSUME NEW runs \in Seq(ToolRun), NEW said \in Seq(Said), NEW c \in CallsAt(said),
           runs # <<>>, runs[Len(runs)].call = said[c], runs[Len(runs)].text \in Seq(Said),
           NEW i \in 1 .. Len(runs), i = Len(runs) \/ Accounted(runs, i, said)
    PROVE  Accounted(runs, i, RemoveAt(said, c) \o runs[Len(runs)].text)
<1> DEFINE n == Len(runs)
           cut == RemoveAt(said, c)
           all == cut \o runs[n].text
<1>1. n \in Nat /\ n >= 1
  BY EmptySeq
<1>2. /\ c \in 1 .. Len(said) /\ IsCall(said[c]) /\ Len(said) \in Nat
  BY FoundCall, LenProperties
<1>3. /\ cut \in Seq(Said) /\ Len(cut) = Len(said) - 1
      /\ \A j \in 1 .. Len(said) - 1 : cut[j] = IF j < c THEN said[j] ELSE said[j + 1]
  BY <1>2, RemoveAtProperties
<1>4. /\ Len(all) = Len(cut) + Len(runs[n].text) /\ Len(runs[n].text) \in Nat
      /\ \A j \in 1 .. Len(cut) + Len(runs[n].text) :
            all[j] = IF j <= Len(cut) THEN cut[j] ELSE runs[n].text[j - Len(cut)]
  <2> HIDE DEF cut
  <2> QED
    BY <1>3, ConcatProperties, LenProperties
<1> HIDE DEF cut, all
<1>5. ASSUME NEW m \in 1 .. Len(said), m # c PROVE Contains(all, said[m])
  <2>1. CASE m < c
    <3>1. m \in 1 .. Len(said) - 1 /\ m \in 1 .. Len(all) /\ m <= Len(cut)
      BY <1>2, <1>3, <1>4, <2>1
    <3>2. all[m] = said[m]
      BY <1>3, <1>4, <2>1, <3>1
    <3> QED
      BY <3>1, <3>2 DEF Contains
  <2>2. CASE m > c
    <3>1. m - 1 \in 1 .. Len(said) - 1 /\ m - 1 \in 1 .. Len(all) /\ m - 1 <= Len(cut)
          /\ ~ (m - 1 < c) /\ (m - 1) + 1 = m
      BY <1>2, <1>3, <1>4, <2>2
    <3>2. all[m - 1] = said[m]
      BY <1>3, <1>4, <3>1
    <3> QED
      BY <3>1, <3>2 DEF Contains
  <2> QED
    BY <1>2, <1>5, <2>1, <2>2
<1>6. ASSUME NEW k \in 1 .. Len(runs[n].text) PROVE Contains(all, runs[n].text[k])
  <2>1. Len(cut) + k \in 1 .. Len(all) /\ ~ (Len(cut) + k <= Len(cut))
        /\ (Len(cut) + k) - Len(cut) = k
    BY <1>2, <1>3, <1>4
  <2>2. all[Len(cut) + k] = runs[n].text[k]
    BY <1>4, <2>1
  <2> QED
    BY <2>1, <2>2 DEF Contains
<1>7. CASE i = n
  <2>1. \A k \in 1 .. Len(runs[i].text) : Contains(all, runs[i].text[k])
    BY <1>6, <1>7
  <2> HIDE DEF n
  <2> QED
    BY <2>1 DEF Accounted, all, cut, n
<1>8. CASE i # n
  <2>1. n \in i + 1 .. n
    BY <1>1, <1>8
  <2>2. \A k \in 1 .. Len(runs[i].text) :
           Contains(said, runs[i].text[k]) =>
              \/ Contains(all, runs[i].text[k])
              \/ IsCall(runs[i].text[k]) /\ runs[n].call = runs[i].text[k]
    BY <1>2, <1>5 DEF Contains
  <2>3. Accounted(runs, i, said)
    BY <1>8
  <2> HIDE DEF n
  <2> QED
    BY <2>1, <2>2, <2>3 DEF Accounted, all, cut, n
<1> QED
  BY <1>7, <1>8 DEF all, cut

LEMMA ToolRuns ==
    ASSUME TurnInv, RunTool
    PROVE  TurnInv'
<1>1. PICK c \in CallsAt(reply) : \E outcome \in Execute(reply[c]) :
            /\ toolRuns' = Append(toolRuns, Run(reply[c], outcome))
            /\ stage' = IF outcome.text = <<>> THEN "stopping" ELSE "synthesizing"
  BY DEF RunTool
<1>2. PICK outcome \in Execute(reply[c]) :
            /\ toolRuns' = Append(toolRuns, Run(reply[c], outcome))
            /\ stage' = IF outcome.text = <<>> THEN "stopping" ELSE "synthesizing"
  BY <1>1
<1>3. /\ stage = "looping" /\ used < MaxToolCalls /\ reply \in Seq(Said)
      /\ facts' = facts /\ reply' = reply /\ used' = used
      /\ toolRuns \in Seq(ToolRun) /\ used \in Nat
  BY DEF RunTool, TurnInv, TurnTypes
<1>4. c \in 1 .. Len(reply) /\ reply[c] \in Said /\ reply[c].tool \in ToolNames
  BY <1>3, FoundCall, ElementOfSeq
<1> DEFINE r == Run(reply[c], outcome)
<1>5. /\ r \in ToolRun /\ r.call = reply[c] /\ r.told = FALSE /\ r.text = outcome.text
  BY <1>4, OutcomeTexts DEF Run, ToolRun
<1> HIDE DEF r
<1>6. /\ toolRuns' \in Seq(ToolRun) /\ Len(toolRuns') = Len(toolRuns) + 1
      /\ Len(toolRuns) \in Nat
      /\ toolRuns'[Len(toolRuns) + 1] = r
  BY <1>2, <1>3, <1>5, AppendProperties, LenProperties DEF r
<1>7. TurnTypes'
  BY <1>2, <1>3, <1>6 DEF TurnInv, TurnTypes
<1>8. Going'
  <2>1. /\ Len(toolRuns) = used
        /\ \A i \in 1 .. Len(toolRuns) : Accounted(toolRuns, i, reply)
    BY <1>3 DEF TurnInv, Going
  <2>2. \A i \in 1 .. Len(toolRuns) : Accounted(toolRuns', i, reply')
    BY <1>2, <1>3, <1>5, <2>1, AccountedAhead DEF r
  <2>3. Len(toolRuns') = used' + 1 /\ used' < MaxToolCalls
    BY <1>3, <1>6, <2>1
  <2>4. /\ toolRuns'[Len(toolRuns')].call = reply'[c] /\ c \in CallsAt(reply')
        /\ toolRuns'[Len(toolRuns')].told = FALSE
        /\ toolRuns'[Len(toolRuns')].text = outcome.text
    BY <1>3, <1>5, <1>6
  <2>5. \A i \in 1 .. Len(toolRuns') - 1 : Accounted(toolRuns', i, reply')
    BY <1>6, <2>2
  <2>6. stage' \in {"synthesizing", "stopping"}
        /\ ((outcome.text = <<>>) <=> (stage' = "stopping"))
    BY <1>2
  <2> QED
    BY <2>3, <2>4, <2>5, <2>6 DEF Going
<1>9. TurnAccounted'
  BY <1>2 DEF TurnAccounted, Delivered
<1> QED
  BY <1>7, <1>8, <1>9 DEF TurnInv

LEMMA ResultGiven ==
    ASSUME TurnInv, Synthesize
    PROVE  TurnInv'
<1> DEFINE n == Len(toolRuns)
<1>1. PICK answer \in Generated :
            /\ reply' = IF answer = <<>> THEN Spliced ELSE answer
            /\ toolRuns' = [toolRuns EXCEPT ![n].told = answer # <<>>]
  BY DEF Synthesize
<1>2. /\ stage = "synthesizing" /\ stage' = "looping" /\ used' = used + 1 /\ facts' = facts
      /\ reply \in Seq(Said) /\ toolRuns \in Seq(ToolRun) /\ used \in Nat
      /\ answer \in Seq(Said)
  BY GeneratedTexts DEF Synthesize, TurnInv, TurnTypes
<1>3. /\ n = used + 1 /\ used < MaxToolCalls /\ MaxToolCalls \in Nat
      /\ \E c \in CallsAt(reply) : toolRuns[n].call = reply[c]
      /\ toolRuns[n].told = FALSE /\ toolRuns[n].text # <<>>
      /\ \A i \in 1 .. n - 1 : Accounted(toolRuns, i, reply)
  BY <1>2, ToolAssumption DEF TurnInv, Going
<1>4. PICK c \in CallsAt(reply) : toolRuns[n].call = reply[c]
  BY <1>3
<1>5. n \in 1 .. n /\ toolRuns[n] \in ToolRun /\ toolRuns # <<>> /\ n \in Nat
  <2>1. n \in 1 .. n /\ n \in Nat
    BY <1>2, <1>3
  <2> QED
    BY <1>2, <2>1, ElementOfSeq, EmptySeq
<1>6. /\ toolRuns' \in Seq(ToolRun) /\ Len(toolRuns') = n
      /\ \A i \in 1 .. n : /\ toolRuns'[i].text = toolRuns[i].text
                           /\ toolRuns'[i].call = toolRuns[i].call
                           /\ i # n => toolRuns'[i].told = toolRuns[i].told
      /\ toolRuns'[n].told = (answer # <<>>)
  <2> DEFINE b == answer # <<>>
             r == [toolRuns[n] EXCEPT !.told = b]
  <2>1. b \in BOOLEAN
    OBVIOUS
  <2>2. toolRuns' = [toolRuns EXCEPT ![n].told = b]
    BY <1>1
  <2> HIDE DEF b
  <2>3. r \in ToolRun /\ r.text = toolRuns[n].text /\ r.call = toolRuns[n].call /\ r.told = b
    BY <1>5, <2>1 DEF ToolRun
  <2>4. toolRuns' = [toolRuns EXCEPT ![n] = r]
    BY <1>2, <1>5, <2>2
  <2> HIDE DEF r
  <2>5. /\ toolRuns' \in Seq(ToolRun) /\ Len(toolRuns') = n
        /\ \A i \in 1 .. n : toolRuns'[i] = IF i = n THEN r ELSE toolRuns[i]
    BY <1>2, <1>5, <2>3, <2>4, ExceptSeq
  <2> QED
    BY <1>5, <2>3, <2>5 DEF b
<1> HIDE DEF n
<1>7. CASE answer # <<>>
  <2>1. reply' = answer /\ toolRuns'[n].told
    BY <1>1, <1>6, <1>7
  <2>2. \A i \in 1 .. n : n \in i .. n
    BY <1>5
  <2>3. \A i \in 1 .. n : Accounted(toolRuns', i, reply')
    BY <1>6, <2>1, <2>2 DEF Accounted
  <2>4. TurnTypes'
    BY <1>2, <1>6, <2>1 DEF TurnInv, TurnTypes
  <2>5. Going'
    <3>1. Len(toolRuns') = used' /\ used' <= MaxToolCalls
      BY <1>2, <1>3, <1>6
    <3> QED
      BY <1>2, <1>6, <1>7, <2>1, <2>3, <3>1 DEF Going
  <2>6. TurnAccounted'
    BY <1>2 DEF TurnAccounted, Delivered
  <2> QED
    BY <2>4, <2>5, <2>6 DEF TurnInv
<1>8. CASE answer = <<>>
  <2>1. reply' = RemoveAt(reply, c) \o toolRuns[n].text
    <3>1. (CHOOSE i \in CallsAt(reply) : TRUE) = c
      BY <1>4, FoundCall
    <3> QED
      BY <1>1, <1>8, <3>1 DEF Spliced, Last, n
  <2>2. /\ c \in 1 .. Len(reply) /\ toolRuns[n].text \in Seq(Said)
    BY <1>4, <1>5, FoundCall DEF ToolRun
  <2>3. RemoveAt(reply, c) \in Seq(Said)
    BY <1>2, <2>2, RemoveAtProperties
  <2>4. reply' \in Seq(Said) /\ reply' # <<>>
    <3>1. /\ reply' \in Seq(Said)
          /\ Len(reply') = Len(RemoveAt(reply, c)) + Len(toolRuns[n].text)
      BY <2>1, <2>2, <2>3, ConcatProperties
    <3>2. Len(RemoveAt(reply, c)) \in Nat /\ Len(toolRuns[n].text) \in Nat \ {0}
      BY <1>3, <2>2, <2>3, LenProperties, EmptySeq
    <3>3. Len(reply') # 0
      BY <3>1, <3>2
    <3> QED
      BY <3>1, <3>3, EmptySeq
  <2>5. \A i \in 1 .. n : i = n \/ Accounted(toolRuns, i, reply)
    BY <1>3, <1>5
  <2>6. \A i \in 1 .. n : Accounted(toolRuns, i, reply')
    BY <1>2, <1>4, <1>5, <2>1, <2>2, <2>5, AccountedWithout DEF n
  <2>7. \A i \in 1 .. n : Accounted(toolRuns', i, reply')
    <3>1. \A i \in 1 .. n : \A j \in i .. n : toolRuns[j].told => toolRuns'[j].told
      <4>1. \A i \in 1 .. n : i .. n \subseteq 1 .. n
        BY <1>5
      <4> QED
        BY <1>3, <1>6, <4>1
    <3>2. \A i \in 1 .. n : i + 1 .. n \subseteq 1 .. n
      BY <1>5
    <3>3. Len(toolRuns) = n
      BY DEF n
    <3> QED
      <4>1. ASSUME NEW i \in 1 .. n, NEW k \in 1 .. Len(toolRuns'[i].text)
            PROVE  \/ \E j \in i .. n : toolRuns'[j].told
                   \/ Contains(reply', toolRuns'[i].text[k])
                   \/ /\ IsCall(toolRuns'[i].text[k])
                      /\ \E j \in i + 1 .. n : toolRuns'[j].call = toolRuns'[i].text[k]
        <5>1. toolRuns'[i].text = toolRuns[i].text
          BY <1>6
        <5>2. \A j \in i + 1 .. n : toolRuns'[j].call = toolRuns[j].call
          BY <1>6, <3>2
        <5>3. \A j \in i .. n : toolRuns[j].told => toolRuns'[j].told
          BY <3>1
        <5>4. Accounted(toolRuns, i, reply') /\ k \in 1 .. Len(toolRuns[i].text)
          BY <2>6, <5>1
        <5>5. \/ \E j \in i .. n : toolRuns[j].told
              \/ Contains(reply', toolRuns[i].text[k])
              \/ /\ IsCall(toolRuns[i].text[k])
                 /\ \E j \in i + 1 .. n : toolRuns[j].call = toolRuns[i].text[k]
          BY <3>3, <5>4 DEF Accounted
        <5> QED
          BY <5>1, <5>2, <5>3, <5>5
      <4> QED
        BY <1>6, <4>1 DEF Accounted
  <2>8. TurnTypes'
    BY <1>2, <1>6, <2>4 DEF TurnInv, TurnTypes
  <2>9. Going'
    <3>1. Len(toolRuns') = used' /\ used' <= MaxToolCalls
      BY <1>2, <1>3, <1>6
    <3> QED
      BY <1>2, <1>6, <2>4, <2>7, <3>1 DEF Going
  <2>10. TurnAccounted'
    BY <1>2 DEF TurnAccounted, Delivered
  <2> QED
    BY <2>8, <2>9, <2>10 DEF TurnInv
<1> QED
  BY <1>7, <1>8

LEMMA ReplyDelivered ==
    ASSUME TurnInv, Deliver
    PROVE  TurnInv'
<1> DEFINE n == Len(toolRuns)
<1>1. /\ stage' = "delivered" /\ facts' = facts /\ used' = used /\ toolRuns' = toolRuns
      /\ reply' = IF reply = <<>> THEN Fallback ELSE reply
      /\ stage \in {"looping", "stopping"}
  BY DEF Deliver
<1>2. /\ reply \in Seq(Said) /\ toolRuns \in Seq(ToolRun) /\ used \in Nat /\ n \in Nat
      /\ MaxToolCalls \in Nat
  BY <1>1, LenProperties, ToolAssumption DEF TurnInv, TurnTypes
<1>3. TurnTypes'
  BY <1>1 DEF TurnInv, TurnTypes
<1>4. Going'
  BY <1>1 DEF Going
<1>5. Fallback' = Fallback
  BY <1>1 DEF Fallback
<1>6. reply = <<>> => stage = "looping" /\ toolRuns = <<>>
  <2>1. ASSUME reply = <<>>, stage = "stopping" PROVE FALSE
    <3>1. PICK c \in CallsAt(reply) : TRUE
      BY <2>1 DEF TurnInv, Going
    <3>2. c \in 1 .. Len(reply) /\ Len(reply) = 0
      BY <2>1, <3>1, FoundCall, EmptySeq
    <3> QED
      BY <3>2
  <2> QED
    BY <1>1, <2>1 DEF TurnInv, Going
<1>7. reply' = Fallback' => toolRuns' = <<>>
  BY <1>1, <1>2, <1>5, <1>6, FallbackSaid DEF TurnInv
<1>8. n <= MaxToolCalls
  BY <1>1, <1>2 DEF TurnInv, Going
<1>9. CallsAt(reply') # {} => used' = MaxToolCalls \/ Last(toolRuns').text = <<>>
  <2>1. CASE stage = "stopping"
    BY <1>1, <2>1 DEF TurnInv, Going, Last
  <2>2. CASE stage = "looping"
    <3>1. used = MaxToolCalls \/ CallsAt(reply) = {}
      BY <2>2 DEF Deliver
    <3> QED
      BY <1>1, <3>1, FallbackSaid DEF TurnInv
  <2> QED
    BY <1>1, <2>1, <2>2
<1>10. \A i \in 1 .. n : Accounted(toolRuns', i, reply')
  <2>1. CASE toolRuns = <<>>
    BY <2>1, EmptySeq
  <2>2. CASE toolRuns # <<>>
    <3>1. reply' = reply
      BY <1>1, <1>6, <2>2
    <3>2. CASE stage = "looping"
      BY <1>1, <3>1, <3>2 DEF TurnInv, Going
    <3>3. CASE stage = "stopping"
      <4>1. toolRuns[n].text = <<>> /\ \A i \in 1 .. n - 1 : Accounted(toolRuns, i, reply)
        BY <3>3 DEF TurnInv, Going
      <4>2. Accounted(toolRuns, n, reply)
        <5>1. 1 .. Len(toolRuns[n].text) = {}
          BY <4>1
        <5> QED
          BY <5>1 DEF Accounted
      <4>3. \A i \in 1 .. n : i = n \/ i \in 1 .. n - 1
        BY <1>2
      <4> HIDE DEF n
      <4> QED
        BY <1>1, <3>1, <4>1, <4>2, <4>3
    <3> QED
      BY <1>1, <3>2, <3>3
  <2> QED
    BY <2>1, <2>2
<1>11. TurnAccounted'
  BY <1>1, <1>7, <1>8, <1>9, <1>10 DEF TurnAccounted, Accounted, RanLater
<1> QED
  BY <1>3, <1>4, <1>11 DEF TurnInv

(* A delivered reply accounts for every tool that was run for it.            *)
THEOREM TurnsAddUp == ToolSpec => []TurnAccounted
<1>1. ToolInit => TurnInv
  <2>1. <<>> \in Seq(ToolRun) /\ <<>> \in Seq(Said) /\ Len(<<>>) = 0
        /\ <<>> \in Seq(UNION {Range(list) : list \in FactLists})
    BY EmptySeq
  <2> QED
    BY <2>1 DEF ToolInit, TurnInv, TurnTypes, Going, TurnAccounted, Delivered
<1>2. TurnInv /\ [ToolNext]_toolVars => TurnInv'
  <2> SUFFICES ASSUME TurnInv, [ToolNext]_toolVars PROVE TurnInv'
    OBVIOUS
  <2>1. CASE UNCHANGED toolVars
    BY <2>1 DEF toolVars, TurnInv, TurnTypes, Going, TurnAccounted, Delivered, RanLater, Fallback
  <2> QED
    BY <2>1, TurnBegins, ToolRuns, ResultGiven, ReplyDelivered DEF ToolNext
<1>3. TurnInv => TurnAccounted
  BY DEF TurnInv
<1> QED
  BY <1>1, <1>2, <1>3, PTL DEF ToolSpec
=============================================================================
