--------------------------- MODULE ServiceProofs ----------------------------
(***************************************************************************)
(* What the homelab, the plans of tasks, the goals, the positions of the   *)
(* trading bot, the knowledge gate, the files of facts, the reminders, the *)
(* memory of several devices, the service manager, the file system and the *)
(* graph of facts promise, for every value of their constants.  Each part  *)
(* gives the inductive invariant first, then a lemma for each step, then   *)
(* the theorem.                                                            *)
(***************************************************************************)
EXTENDS Homelab, TaskAutomation, GoalEngine, TradingBot, KnowledgeGate,
        KnowledgeFiles, Reminders, MemorySync, ServiceManager, FileSystem, DataLemmas

-----------------------------------------------------------------------------
(* The homelab                                                             *)

LabService == [status : LabStatuses, device : LabDevices \cup {NoDevice}, restarts : Nat,
               misses : Nat, targets : Seq(LabDevices)]
Failover   == [service : LabServices, from : LabDevices \cup {NoDevice}, to : LabDevices,
               success : BOOLEAN]

LabTypes == lab \in [LabServices -> LabService] /\ failovers \in Seq(Failover)

LabInv == LabTypes /\ MovesAfterRestarts

(* A step of one service that leaves the history alone asks of the service   *)
(* only that its own status, misses and restarts agree afterwards.           *)
LEMMA OneServiceKept ==
    ASSUME LabInv, NEW s \in LabServices, NEW r \in LabService,
           lab' = [lab EXCEPT ![s] = r], UNCHANGED failovers,
           \/ r.status = lab[s].status /\ r.misses = lab[s].misses
           \/ r.misses = 0 /\ r.status \in {"RUNNING", "RESTARTING"}
           \/ r.misses = MaxMisses /\ r.status = "CRASHED"
           \/ r.misses \notin {0, MaxMisses} /\ r.status = "DEGRADED",
           \/ r.restarts = lab[s].restarts
           \/ lab[s].restarts < MaxLabRestarts /\ r.restarts <= MaxLabRestarts
    PROVE  LabInv'
<1>1. /\ lab \in [LabServices -> LabService] /\ lab' \in [LabServices -> LabService]
      /\ lab'[s] = r /\ \A t \in LabServices \ {s} : lab'[t] = lab[t]
  BY DEF LabInv, LabTypes
<1>2. LabTypes'
  BY <1>1 DEF LabInv, LabTypes
<1>3. MaxMisses # 0 /\ MaxLabRestarts \in Nat
  BY LabAssumption
<1>4. r.restarts \in Nat /\ lab[s].restarts \in Nat
  BY <1>1 DEF LabService
<1>5. \A t \in LabServices : Awaited(t)' <=> Awaited(t)
  BY DEF Awaited, Unconfirmed
<1>6. \A t \in LabServices : /\ lab[t].status \in StatusOfMisses(t)
                             /\ lab[t].restarts <= MaxLabRestarts
                             /\ Awaited(t) => lab[t].restarts = MaxLabRestarts
  BY DEF LabInv, MovesAfterRestarts
<1>7. lab'[s].status \in StatusOfMisses(s)'
  <2>1. lab[s].status \in StatusOfMisses(s)
    BY <1>6
  <2> QED
    BY <1>1, <1>3, <2>1 DEF StatusOfMisses
<1>8. ASSUME NEW t \in LabServices \ {s} PROVE lab'[t].status \in StatusOfMisses(t)'
  BY <1>1, <1>6 DEF StatusOfMisses
<1>9. r.restarts <= MaxLabRestarts /\ (Awaited(s)' => r.restarts = MaxLabRestarts)
  <2>1. /\ lab[s].restarts <= MaxLabRestarts
        /\ Awaited(s)' => lab[s].restarts = MaxLabRestarts
    BY <1>5, <1>6
  <2> QED
    BY <1>3, <1>4, <2>1
<1>10. ASSUME NEW t \in LabServices
       PROVE  /\ lab'[t].restarts <= MaxLabRestarts
              /\ Awaited(t)' => lab'[t].restarts = MaxLabRestarts
  <2>1. CASE t = s
    BY <1>1, <1>9, <2>1
  <2>2. CASE t # s
    BY <1>1, <1>5, <1>6, <2>2
  <2> QED
    BY <2>1, <2>2
<1>11. MovesAfterRestarts'
  BY <1>7, <1>8, <1>10 DEF MovesAfterRestarts
<1> QED
  BY <1>2, <1>11 DEF LabInv

LEMMA LabInitial == LabInit => LabInv
<1> SUFFICES ASSUME LabInit PROVE LabInv
  OBVIOUS
<1>1. Registered0 \in LabService
  <2>1. <<>> \in Seq(LabDevices)
    BY EmptySeq
  <2> QED
    BY <2>1 DEF Registered0, LabService, LabStatuses
<1>2. LabTypes
  BY <1>1, EmptySeq DEF LabInit, LabTypes
<1>3. ASSUME NEW s \in LabServices
      PROVE  lab[s].status \in StatusOfMisses(s) /\ lab[s].restarts = 0 /\ ~Awaited(s)
  <2>1. lab[s] = Registered0 /\ DOMAIN failovers = {}
    BY DEF LabInit
  <2> QED
    BY <2>1, LabAssumption DEF Registered0, StatusOfMisses, Awaited, Unconfirmed
<1>4. MovesAfterRestarts
  BY <1>3, LabAssumption DEF MovesAfterRestarts
<1> QED
  BY <1>2, <1>4 DEF LabInv

LEMMA ServiceStepKept ==
    ASSUME LabInv, NEW s \in LabServices, NEW d,
           \/ d \in LabDevices /\ (AssignToDevice(s, d) \/ AddFailoverDevice(s, d))
           \/ Healthy(s) \/ Unhealthy(s) \/ CheckNeedsRestart(s)
    PROVE  LabInv'
<1> DEFINE old == lab[s]
<1>1. old \in LabService /\ lab \in [LabServices -> LabService]
  BY DEF LabInv, LabTypes
<1>2. /\ old.status \in LabStatuses /\ old.device \in LabDevices \cup {NoDevice}
      /\ old.restarts \in Nat /\ old.misses \in Nat /\ old.targets \in Seq(LabDevices)
      /\ MaxMisses \in Nat /\ MaxLabRestarts \in Nat
  BY <1>1, LabAssumption DEF LabService
<1>3. CASE d \in LabDevices /\ AssignToDevice(s, d)
  <2> DEFINE r == [old EXCEPT !.device = d]
  <2>1. lab' = [lab EXCEPT ![s] = r] /\ UNCHANGED failovers
    BY <1>1, <1>3 DEF AssignToDevice
  <2>2. r \in LabService /\ r.status = old.status /\ r.misses = old.misses
          /\ r.restarts = old.restarts
    BY <1>1, <1>3 DEF LabService
  <2> HIDE DEF r
  <2> QED
    BY <2>1, <2>2, OneServiceKept
<1>4. CASE d \in LabDevices /\ AddFailoverDevice(s, d)
  <2> DEFINE q == Append(old.targets, d)
             r == [old EXCEPT !.targets = q]
  <2>1. lab' = [lab EXCEPT ![s] = r] /\ UNCHANGED failovers
    BY <1>1, <1>4 DEF AddFailoverDevice
  <2>2. q \in Seq(LabDevices)
    BY <1>2, <1>4, AppendProperties
  <2> HIDE DEF q
  <2>3. r \in LabService /\ r.status = old.status /\ r.misses = old.misses
          /\ r.restarts = old.restarts
    BY <1>1, <2>2 DEF LabService
  <2> HIDE DEF r
  <2> QED
    BY <2>1, <2>3, OneServiceKept
<1>5. CASE Healthy(s)
  <2> DEFINE r == [old EXCEPT !.status = "RUNNING", !.misses = 0]
  <2>1. lab' = [lab EXCEPT ![s] = r] /\ UNCHANGED failovers
    BY <1>1, <1>5 DEF Healthy
  <2>2. r \in LabService /\ r.status = "RUNNING" /\ r.misses = 0 /\ r.restarts = old.restarts
    BY <1>1 DEF LabService, LabStatuses
  <2> HIDE DEF r
  <2> QED
    BY <2>1, <2>2, OneServiceKept
<1>6. CASE Unhealthy(s)
  <2> DEFINE n == old.misses + 1
             t == IF n >= MaxMisses THEN "CRASHED" ELSE "DEGRADED"
             r == [old EXCEPT !.misses = n, !.status = t]
  <2>1. lab' = [lab EXCEPT ![s] = r] /\ UNCHANGED failovers
    BY <1>1, <1>6 DEF Unhealthy
  <2>2. n \in Nat /\ n # 0 /\ IF n = MaxMisses THEN t = "CRASHED" ELSE t = "DEGRADED"
    <3>1. old.misses < MaxMisses
      BY <1>6 DEF Unhealthy
    <3> HIDE DEF old, r
    <3>2. n \in Nat /\ n # 0 /\ n <= MaxMisses
      BY <1>2, <3>1
    <3>3. n >= MaxMisses <=> n = MaxMisses
      BY <1>2, <3>2
    <3> HIDE DEF n
    <3> QED
      BY <3>2, <3>3
  <2>3. t \in LabStatuses
    BY DEF LabStatuses
  <2> HIDE DEF n, t
  <2>4. r \in LabService /\ r.status = t /\ r.misses = n /\ r.restarts = old.restarts
    BY <1>1, <2>2, <2>3 DEF LabService
  <2> HIDE DEF r
  <2> QED
    BY <2>1, <2>2, <2>4, OneServiceKept
<1>7. CASE CheckNeedsRestart(s)
  <2> DEFINE n == old.restarts + 1
             r == [old EXCEPT !.status = "RESTARTING", !.restarts = n, !.misses = 0]
  <2>1. /\ lab' = [lab EXCEPT ![s] = r] /\ UNCHANGED failovers
        /\ old.restarts < MaxLabRestarts
    BY <1>1, <1>7 DEF CheckNeedsRestart
  <2>2. n \in Nat /\ n <= MaxLabRestarts
    BY <1>2, <2>1
  <2> HIDE DEF n
  <2>3. r \in LabService /\ r.status = "RESTARTING" /\ r.misses = 0 /\ r.restarts = n
    BY <1>1, <2>2 DEF LabService, LabStatuses
  <2> HIDE DEF r
  <2> QED
    BY <2>1, <2>2, <2>3, OneServiceKept
<1> QED
  BY <1>3, <1>4, <1>5, <1>6, <1>7

(* A move that is noted is one of a service whose restarts are used up, and  *)
(* changes what is awaited of no other.                                      *)
LEMMA FailoverKept ==
    ASSUME LabInv, NEW s \in LabServices, CheckNeedsFailover(s) PROVE LabInv'
<1> DEFINE e == [service |-> s, from |-> lab[s].device, to |-> Head(lab[s].targets),
                 success |-> FALSE]
<1>1. /\ failovers' = Append(failovers, e) /\ lab' = lab /\ lab[s].targets # <<>>
      /\ lab[s].restarts >= MaxLabRestarts
  BY DEF CheckNeedsFailover
<1>2. lab[s].restarts \in Nat /\ lab[s].targets \in Seq(LabDevices)
        /\ lab[s].device \in LabDevices \cup {NoDevice}
  <2>1. lab[s] \in LabService
    BY DEF LabInv, LabTypes
  <2> QED
    BY <2>1 DEF LabService
<1>3. e \in Failover
  <2>1. Head(lab[s].targets) \in LabDevices
    BY <1>1, <1>2, HeadTailProperties
  <2> QED
    BY <1>2, <2>1 DEF Failover
<1>4. /\ failovers \in Seq(Failover) /\ Len(failovers) \in Nat
      /\ DOMAIN failovers = 1 .. Len(failovers)
  BY LenProperties DEF LabInv, LabTypes
<1>5. e.service = s
  OBVIOUS
<1> HIDE DEF e
<1>6. /\ failovers' \in Seq(Failover)
      /\ DOMAIN failovers' = 1 .. Len(failovers) + 1
      /\ \A k \in DOMAIN failovers : k \in DOMAIN failovers' /\ failovers'[k] = failovers[k]
      /\ failovers'[Len(failovers) + 1] = e
      /\ \A k \in DOMAIN failovers' : k \in DOMAIN failovers \/ k = Len(failovers) + 1
  <2>1. /\ Append(failovers, e) \in Seq(Failover)
        /\ Len(Append(failovers, e)) = Len(failovers) + 1
        /\ \A k \in 1 .. Len(failovers) : Append(failovers, e)[k] = failovers[k]
        /\ Append(failovers, e)[Len(failovers) + 1] = e
    BY <1>3, <1>4, AppendProperties
  <2>2. DOMAIN failovers' = 1 .. Len(failovers) + 1
    BY <1>1, <2>1, LenProperties
  <2> QED
    BY <1>1, <1>4, <2>1, <2>2
<1>7. ASSUME NEW t \in LabServices, t # s, Awaited(t)' PROVE Awaited(t)
  <2>1. PICK k \in DOMAIN failovers' :
          /\ failovers'[k].service = t /\ ~failovers'[k].success
          /\ \A j \in DOMAIN failovers' : failovers'[j].service = t /\ failovers'[j].success => j < k
    BY <1>7 DEF Awaited, Unconfirmed
  <2>2. k \in DOMAIN failovers /\ failovers'[k] = failovers[k]
    BY <1>5, <1>6, <1>7, <2>1
  <2> QED
    BY <1>6, <2>1, <2>2 DEF Awaited, Unconfirmed
<1>8. LabTypes'
  BY <1>1, <1>6 DEF LabInv, LabTypes
<1>9. MovesAfterRestarts'
  <2> SUFFICES ASSUME NEW t \in LabServices
               PROVE  /\ lab'[t].status \in StatusOfMisses(t)'
                      /\ lab'[t].restarts <= MaxLabRestarts
                      /\ Awaited(t)' => lab'[t].restarts = MaxLabRestarts
    BY DEF MovesAfterRestarts
  <2>1. /\ lab[t].status \in StatusOfMisses(t) /\ lab[t].restarts <= MaxLabRestarts
        /\ Awaited(t) => lab[t].restarts = MaxLabRestarts
    BY DEF LabInv, MovesAfterRestarts
  <2>2. lab[s].restarts = MaxLabRestarts
    <3>1. lab[s].restarts <= MaxLabRestarts
      BY DEF LabInv, MovesAfterRestarts
    <3> QED
      BY <1>1, <1>2, <3>1, LabAssumption
  <2> QED
    BY <1>1, <1>7, <2>1, <2>2 DEF StatusOfMisses
<1> QED
  BY <1>8, <1>9 DEF LabInv

(* The newest move of the service is the one confirmed, so none is awaited   *)
(* any more.                                                                 *)
LEMMA ConfirmKept ==
    ASSUME LabInv, NEW s \in LabServices, NEW d \in LabDevices, ConfirmFailover(s, d)
    PROVE  LabInv'
<1> DEFINE r == [lab[s] EXCEPT !.device = d, !.status = "RUNNING", !.restarts = 0, !.misses = 0]
           m == Max(Unconfirmed(s))
<1>1. lab \in [LabServices -> LabService] /\ lab[s] \in LabService
  BY DEF LabInv, LabTypes
<1>2. lab' = [lab EXCEPT ![s] = r]
  BY <1>1 DEF ConfirmFailover
<1>3. r \in LabService /\ r.status = "RUNNING" /\ r.misses = 0 /\ r.restarts = 0
  BY <1>1 DEF LabService, LabStatuses
<1>4. /\ failovers \in Seq(Failover) /\ Len(failovers) \in Nat
      /\ DOMAIN failovers = 1 .. Len(failovers)
  BY LenProperties DEF LabInv, LabTypes
<1>5. Unconfirmed(s) # {} => m \in Unconfirmed(s) /\ \A k \in Unconfirmed(s) : k <= m
  <2>1. Unconfirmed(s) \in SUBSET Nat /\ \A k \in Unconfirmed(s) : k <= Len(failovers)
    BY <1>4 DEF Unconfirmed
  <2> QED
    BY <1>4, <2>1, MaxOf
<1>6. failovers' = IF Unconfirmed(s) = {} THEN failovers
                   ELSE [failovers EXCEPT ![m].success = TRUE]
  BY DEF ConfirmFailover
<1> HIDE DEF r, m
<1>7. /\ DOMAIN failovers' = DOMAIN failovers
      /\ \A k \in DOMAIN failovers : failovers'[k] =
            IF Unconfirmed(s) # {} /\ k = m THEN [failovers[k] EXCEPT !.success = TRUE]
            ELSE failovers[k]
  <2>1. CASE Unconfirmed(s) = {}
    BY <1>6, <2>1
  <2>2. CASE Unconfirmed(s) # {}
    BY <1>6, <2>2
  <2> QED
    BY <2>1, <2>2
<1>8. \A k \in DOMAIN failovers : failovers[k] \in Failover
  BY <1>4, ElementOfSeq
<1>9. \A k \in DOMAIN failovers :
         /\ failovers'[k] \in Failover /\ failovers'[k].service = failovers[k].service
         /\ failovers'[k].success = ((Unconfirmed(s) # {} /\ k = m) \/ failovers[k].success)
  <2> SUFFICES ASSUME NEW k \in DOMAIN failovers
               PROVE  /\ failovers'[k] \in Failover
                      /\ failovers'[k].service = failovers[k].service
                      /\ failovers'[k].success =
                            ((Unconfirmed(s) # {} /\ k = m) \/ failovers[k].success)
    OBVIOUS
  <2>1. failovers[k] \in Failover
    BY <1>8
  <2>2. CASE Unconfirmed(s) # {} /\ k = m
    <3>1. failovers'[k] = [failovers[k] EXCEPT !.success = TRUE]
      BY <1>7, <2>2
    <3> QED
      BY <2>1, <2>2, <3>1 DEF Failover
  <2>3. CASE ~(Unconfirmed(s) # {} /\ k = m)
    <3>1. failovers'[k] = failovers[k]
      BY <1>7, <2>3
    <3> QED
      BY <2>1, <2>3, <3>1 DEF Failover
  <2> QED
    BY <2>2, <2>3
<1>10. failovers' \in Seq(Failover)
  <2>1. failovers' \in [1 .. Len(failovers) -> Failover]
    <3>1. failovers' = [k \in DOMAIN failovers |-> failovers'[k]]
      <4>1. CASE Unconfirmed(s) = {}
        BY <1>4, <1>6, <4>1
      <4>2. CASE Unconfirmed(s) # {}
        BY <1>6, <4>2
      <4> QED
        BY <4>1, <4>2
    <3> QED
      BY <1>4, <1>9, <3>1
  <2> QED
    BY <1>4, <2>1, SeqDef
<1>11. LabTypes'
  BY <1>1, <1>2, <1>3, <1>10 DEF LabTypes
<1>12. ~Awaited(s)'
  <2> SUFFICES ASSUME NEW k \in DOMAIN failovers, failovers'[k].service = s,
                      ~failovers'[k].success,
                      \A j \in DOMAIN failovers' :
                         failovers'[j].service = s /\ failovers'[j].success => j < k
               PROVE  FALSE
    BY <1>7 DEF Awaited, Unconfirmed
  <2>1. k \in Unconfirmed(s)
    BY <1>9 DEF Unconfirmed
  <2>2. m \in DOMAIN failovers /\ failovers[m].service = s /\ k <= m
    BY <1>5, <2>1 DEF Unconfirmed
  <2>3. m < k
    BY <1>7, <1>9, <2>1, <2>2
  <2> QED
    BY <1>4, <2>2, <2>3
<1>13. ASSUME NEW t \in LabServices, t # s, Awaited(t)' PROVE Awaited(t)
  <2>1. PICK k \in DOMAIN failovers :
          /\ failovers'[k].service = t /\ ~failovers'[k].success
          /\ \A j \in DOMAIN failovers' : failovers'[j].service = t /\ failovers'[j].success => j < k
    BY <1>7, <1>13 DEF Awaited, Unconfirmed
  <2>2. k \in Unconfirmed(t)
    BY <1>9, <2>1 DEF Unconfirmed
  <2>3. \A j \in DOMAIN failovers : failovers[j].service = t /\ failovers[j].success => j < k
    BY <1>7, <1>9, <2>1
  <2> QED
    BY <2>2, <2>3 DEF Awaited
<1>14. MovesAfterRestarts'
  <2> SUFFICES ASSUME NEW t \in LabServices
               PROVE  /\ lab'[t].status \in StatusOfMisses(t)'
                      /\ lab'[t].restarts <= MaxLabRestarts
                      /\ Awaited(t)' => lab'[t].restarts = MaxLabRestarts
    BY DEF MovesAfterRestarts
  <2>1. CASE t = s
    <3>1. lab'[t] = r /\ 0 <= MaxLabRestarts
      BY <1>1, <1>2, <2>1, LabAssumption
    <3> QED
      BY <1>3, <1>12, <2>1, <3>1, LabAssumption DEF StatusOfMisses
  <2>2. CASE t # s
    <3>1. lab'[t] = lab[t]
      BY <1>1, <1>2, <2>2
    <3>2. /\ lab[t].status \in StatusOfMisses(t) /\ lab[t].restarts <= MaxLabRestarts
          /\ Awaited(t) => lab[t].restarts = MaxLabRestarts
      BY DEF LabInv, MovesAfterRestarts
    <3> QED
      BY <1>13, <2>2, <3>1, <3>2 DEF StatusOfMisses
  <2> QED
    BY <2>1, <2>2
<1> QED
  BY <1>11, <1>14 DEF LabInv

LEMMA LabKept == LabInv /\ [LabNext]_labVars => LabInv'
<1> SUFFICES ASSUME LabInv, [LabNext]_labVars PROVE LabInv'
  OBVIOUS
<1>1. CASE UNCHANGED labVars
  BY <1>1 DEF labVars, LabInv, LabTypes, MovesAfterRestarts, StatusOfMisses, Awaited, Unconfirmed
<1>2. ASSUME NEW s \in LabServices, Healthy(s) \/ Unhealthy(s) \/ CheckNeedsRestart(s)
      PROVE  LabInv'
  BY <1>2, ServiceStepKept
<1> QED
  BY <1>1, <1>2, ServiceStepKept, FailoverKept, ConfirmKept DEF LabNext

(* For any services, devices and limits: whatever the order of the checks,   *)
(* restarts, moves and confirmations, a service is reported down only after  *)
(* so many misses in a row, is not restarted more often than allowed, and is *)
(* moved only when its restarts are used up.                                 *)
THEOREM RestartedThenMoved == LabSpec => []MovesAfterRestarts
<1>1. LabSpec => []LabInv
  BY LabInitial, LabKept, PTL DEF LabSpec
<1>2. LabInv => MovesAfterRestarts
  BY DEF LabInv
<1> QED
  BY <1>1, <1>2, PTL

-----------------------------------------------------------------------------
(* Plans of tasks                                                          *)

StepStatuses == {"PENDING", "COMPLETED", "FAILED", "BLOCKED_SAFETY"}
PlanStatuses == {"PENDING", "IN_PROGRESS", "COMPLETED", "FAILED"}
Step         == [safety : SafetyLevels, status : StepStatuses, ran : BOOLEAN]
Plan         == [steps : Seq(Step), status : PlanStatuses, completed : Int, failed : Int]

TaskTypes ==
    /\ plan \in Plan /\ next \in 0 .. Len(plan.steps) + 1
    /\ taskHistory \in Seq(Plan)
    /\ counters \in [run : Nat, succeeded : Nat, failed : Nat, blocked : Nat]

(* While a plan is executed it says so, and the steps behind have ended one  *)
(* way or another.                                                           *)
Underway ==
    /\ next # 0 <=> plan.status = "IN_PROGRESS"
    /\ next # 0 => \A i \in 1 .. next - 1 : plan.steps[i].status # "PENDING"

TaskInv == TaskTypes /\ Underway /\ PlanCounted

(* Of the first n steps, those that count as failed and as completed.        *)
Bad(steps, n)  == {i \in 1 .. n : steps[i].status \in {"FAILED", "BLOCKED_SAFETY"}}
Good(steps, n) == {i \in 1 .. n : steps[i].status = "COMPLETED" /\ steps[i].ran}

StepsCounted(p, n) == /\ p.failed = Cardinality(Bad(p.steps, n))
                      /\ p.completed = Cardinality(Good(p.steps, n))

(* The two halves of PlanCounted: what it says of a plan, n steps into it,   *)
(* and what it says of the totals and the history.                           *)
Steps(p, n) == IF n = 0 THEN Len(p.steps) ELSE n - 1

PlanRight(p, n) ==
    /\ n # 0 \/ p.status \in {"COMPLETED", "FAILED"} => StepsCounted(p, Steps(p, n))
    /\ p.status = "COMPLETED" =>
          \A i \in DOMAIN p.steps : p.steps[i].status = "COMPLETED"

TotalsRight(c, h) ==
    /\ c.run = c.succeeded + c.failed /\ Len(h) = c.run
    /\ Cardinality({k \in DOMAIN h : h[k].status = "COMPLETED"}) = c.succeeded

LEMMA CountedMeans ==
    /\ TaskTypes => (PlanCounted <=> PlanRight(plan, next) /\ TotalsRight(counters, taskHistory))
    /\ TaskTypes' =>
          (PlanCounted' <=> PlanRight(plan', next') /\ TotalsRight(counters', taskHistory'))
<1>1. ASSUME TaskTypes
      PROVE  PlanCounted <=> PlanRight(plan, next) /\ TotalsRight(counters, taskHistory)
  <2>1. DOMAIN plan.steps = 1 .. Len(plan.steps)
    BY <1>1, LenProperties DEF TaskTypes, Plan
  <2>2. Reached = 1 .. Steps(plan, next)
    BY <2>1 DEF Reached, Steps
  <2>3. /\ With({"FAILED", "BLOCKED_SAFETY"}) = Bad(plan.steps, Steps(plan, next))
        /\ {i \in With({"COMPLETED"}) : plan.steps[i].ran} = Good(plan.steps, Steps(plan, next))
    BY <2>2 DEF With, Bad, Good
  <2> QED
    BY <2>3 DEF PlanCounted, Executed, PlanRight, StepsCounted, TotalsRight
<1>2. ASSUME TaskTypes'
      PROVE  PlanCounted' <=> PlanRight(plan', next') /\ TotalsRight(counters', taskHistory')
  <2>1. DOMAIN plan'.steps = 1 .. Len(plan'.steps)
    BY <1>2, LenProperties DEF TaskTypes, Plan
  <2>2. Reached' = 1 .. Steps(plan', next')
    BY <2>1 DEF Reached, Steps
  <2>3. /\ With({"FAILED", "BLOCKED_SAFETY"})' = Bad(plan'.steps, Steps(plan', next'))
        /\ {i \in With({"COMPLETED"}) : plan.steps[i].ran}' = Good(plan'.steps, Steps(plan', next'))
    BY <2>2 DEF With, Bad, Good
  <2> QED
    BY <2>3 DEF PlanCounted, Executed, PlanRight, StepsCounted, TotalsRight
<1> QED
  BY <1>1, <1>2

LEMMA CountsFinite ==
    ASSUME NEW steps, NEW n \in Nat
    PROVE  /\ IsFiniteSet(Bad(steps, n)) /\ IsFiniteSet(Good(steps, n))
           /\ Cardinality(Bad(steps, n)) \in Nat /\ Cardinality(Good(steps, n)) \in Nat
<1>1. IsFiniteSet(1 .. n)
  BY FS_Interval
<1>2. Bad(steps, n) \in SUBSET (1 .. n) /\ Good(steps, n) \in SUBSET (1 .. n)
  BY DEF Bad, Good
<1> QED
  BY <1>1, <1>2, FS_Subset, FS_CardinalityType

(* The plan reaches its next step, which ends as the step e.                 *)
LEMMA StepReached ==
    ASSUME NEW steps \in Seq(Step), NEW n \in Nat, n + 1 <= Len(steps), NEW e \in Step
    PROVE  LET after == [steps EXCEPT ![n + 1] = e]
           IN  /\ after \in Seq(Step) /\ Len(after) = Len(steps) /\ after[n + 1] = e
               /\ \A i \in 1 .. n : after[i] = steps[i]
<1> DEFINE after == [steps EXCEPT ![n + 1] = e]
<1>1. Len(steps) \in Nat /\ n + 1 \in 1 .. Len(steps) /\ n + 1 \notin 1 .. n
      /\ 1 .. n + 1 = (1 .. n) \cup {n + 1} /\ 1 .. n \subseteq 1 .. Len(steps)
  BY LenProperties
<1>2. /\ after \in Seq(Step) /\ Len(after) = Len(steps)
      /\ \A j \in 1 .. Len(steps) : after[j] = IF j = n + 1 THEN e ELSE steps[j]
  BY <1>1, ExceptSeq
<1> HIDE DEF after
<1>3. after[n + 1] = e /\ \A i \in 1 .. n : after[i] = steps[i]
  BY <1>1, <1>2
<1> QED
  BY <1>2, <1>3 DEF after

LEMMA TaskInitial == TaskInit => TaskInv
<1> SUFFICES ASSUME TaskInit PROVE TaskInv
  OBVIOUS
<1>1. Unknown \in Plan /\ Len(Unknown.steps) = 0 /\ Unknown.status = "FAILED"
      /\ Unknown.failed = 0 /\ Unknown.completed = 0 /\ Unknown.steps = <<>>
  <2>1. <<>> \in Seq(Step) /\ Len(<<>>) = 0
    BY EmptySeq
  <2> QED
    BY <2>1 DEF Unknown, Plan, PlanStatuses
<1>2. TaskTypes /\ Underway
  BY <1>1, EmptySeq DEF TaskInit, TaskTypes, Underway
<1>3. PlanRight(plan, next)
  <2>1. Bad(<<>>, 0) = {} /\ Good(<<>>, 0) = {}
    BY DEF Bad, Good
  <2> QED
    BY <1>1, <2>1, FS_EmptySet DEF TaskInit, PlanRight, StepsCounted, Steps
<1>4. TotalsRight(counters, taskHistory)
  <2>1. {k \in DOMAIN taskHistory : taskHistory[k].status = "COMPLETED"} = {}
    BY DEF TaskInit
  <2> QED
    BY <2>1, FS_EmptySet, EmptySeq DEF TaskInit, TotalsRight
<1> QED
  BY <1>2, <1>3, <1>4, CountedMeans DEF TaskInv

LEMMA TaskFields ==
    ASSUME TaskInv
    PROVE  /\ plan \in Plan /\ plan.steps \in Seq(Step) /\ Len(plan.steps) \in Nat
           /\ DOMAIN plan.steps = 1 .. Len(plan.steps)
           /\ plan.status \in PlanStatuses /\ plan.completed \in Int /\ plan.failed \in Int
           /\ next \in Nat /\ next <= Len(plan.steps) + 1
           /\ counters \in [run : Nat, succeeded : Nat, failed : Nat, blocked : Nat]
           /\ taskHistory \in Seq(Plan) /\ Underway
           /\ PlanRight(plan, next) /\ TotalsRight(counters, taskHistory)
<1>1. plan \in Plan /\ plan.steps \in Seq(Step)
  BY DEF TaskInv, TaskTypes, Plan
<1>2. Len(plan.steps) \in Nat /\ DOMAIN plan.steps = 1 .. Len(plan.steps)
  BY <1>1, LenProperties
<1> QED
  BY <1>1, <1>2, CountedMeans DEF TaskInv, TaskTypes, Plan

(* The totals say the same when only what was held back is counted.          *)
LEMMA BlockedApart ==
    ASSUME TaskInv, counters' = [counters EXCEPT !.blocked = @ + 1]
    PROVE  /\ counters' \in [run : Nat, succeeded : Nat, failed : Nat, blocked : Nat]
           /\ TotalsRight(counters', taskHistory)
<1>1. /\ counters \in [run : Nat, succeeded : Nat, failed : Nat, blocked : Nat]
      /\ TotalsRight(counters, taskHistory)
  BY TaskFields
<1>2. /\ counters'.run = counters.run /\ counters'.succeeded = counters.succeeded
      /\ counters'.failed = counters.failed
      /\ counters' \in [run : Nat, succeeded : Nat, failed : Nat, blocked : Nat]
  BY <1>1
<1> QED
  BY <1>1, <1>2 DEF TotalsRight

(* A step that is reached ends as e, and the counts of the plan follow.      *)
LEMMA StepKept ==
    ASSUME TaskInv, next # 0, next <= Len(plan.steps), next' = next + 1,
           NEW e \in Step, e.status # "PENDING", NEW f, NEW c,
           plan' = [plan EXCEPT !.steps = [plan.steps EXCEPT ![next] = e],
                                !.failed = f, !.completed = c],
           f = IF e.status \in {"FAILED", "BLOCKED_SAFETY"} THEN plan.failed + 1 ELSE plan.failed,
           c = IF e.status = "COMPLETED" /\ e.ran THEN plan.completed + 1 ELSE plan.completed,
           taskHistory' = taskHistory,
           counters' \in [run : Nat, succeeded : Nat, failed : Nat, blocked : Nat],
           TotalsRight(counters', taskHistory)
    PROVE  TaskInv'
<1> DEFINE n == next - 1
           after == [plan.steps EXCEPT ![next] = e]
<1>1. /\ plan \in Plan /\ plan.steps \in Seq(Step) /\ Len(plan.steps) \in Nat
      /\ plan.completed \in Int /\ plan.failed \in Int
      /\ next \in Nat /\ taskHistory \in Seq(Plan) /\ Underway /\ PlanRight(plan, next)
  BY TaskFields
<1>2. n \in Nat /\ n + 1 = next /\ next # 0 /\ next + 1 # 0
  BY <1>1
<1>3. f \in Int /\ c \in Int
  BY <1>1
<1>4. after \in Seq(Step) /\ Len(after) = Len(plan.steps) /\ after[n + 1] = e
      /\ \A i \in 1 .. n : after[i] = plan.steps[i]
  <2>1. after = [plan.steps EXCEPT ![n + 1] = e] /\ n + 1 <= Len(plan.steps)
    BY <1>2
  <2> HIDE DEF after, n
  <2> QED
    BY <1>1, <1>2, <2>1, StepReached
<1>5. /\ n + 1 \notin Bad(plan.steps, n) /\ n + 1 \notin Good(plan.steps, n)
      /\ Bad(after, n + 1) = IF e.status \in {"FAILED", "BLOCKED_SAFETY"}
                             THEN Bad(plan.steps, n) \cup {n + 1} ELSE Bad(plan.steps, n)
      /\ Good(after, n + 1) = IF e.status = "COMPLETED" /\ e.ran
                              THEN Good(plan.steps, n) \cup {n + 1} ELSE Good(plan.steps, n)
  <2>1. 1 .. n + 1 = (1 .. n) \cup {n + 1} /\ n + 1 \notin 1 .. n
    BY <1>2
  <2> HIDE DEF after, n
  <2> QED
    BY <1>4, <2>1 DEF Bad, Good
<1> HIDE DEF after
<1>6. /\ plan' \in Plan /\ plan'.steps = after /\ plan'.failed = f /\ plan'.completed = c
      /\ plan'.status = plan.status
  BY <1>1, <1>3, <1>4 DEF Plan, after
<1>7. plan.status = "IN_PROGRESS" /\ \A i \in 1 .. n : plan.steps[i].status # "PENDING"
  BY <1>1 DEF Underway
<1>8. plan.failed = Cardinality(Bad(plan.steps, n)) /\ plan.completed = Cardinality(Good(plan.steps, n))
  BY <1>1 DEF PlanRight, StepsCounted, Steps
<1> HIDE DEF n
<1>9. f = Cardinality(Bad(after, n + 1)) /\ c = Cardinality(Good(after, n + 1))
  <2>1. /\ Cardinality(Bad(plan.steps, n) \cup {n + 1}) = Cardinality(Bad(plan.steps, n)) + 1
        /\ Cardinality(Good(plan.steps, n) \cup {n + 1}) = Cardinality(Good(plan.steps, n)) + 1
    BY <1>2, <1>5, CountsFinite, FS_AddElement
  <2> QED
    BY <1>5, <1>8, <2>1
<1>10. TaskTypes'
  <2>1. next' \in 0 .. Len(plan'.steps) + 1
    BY <1>1, <1>4, <1>6
  <2> QED
    BY <1>1, <1>6, <2>1 DEF TaskTypes
<1>11. Underway'
  <2>1. ASSUME NEW i \in 1 .. n + 1 PROVE after[i].status # "PENDING"
    <3>1. i \in 1 .. n \/ i = n + 1
      BY <1>2
    <3> QED
      BY <1>4, <1>7, <3>1
  <2>2. next' - 1 = n + 1 /\ next' # 0
    BY <1>1, <1>2
  <2> QED
    BY <1>6, <1>7, <2>1, <2>2 DEF Underway
<1>12. PlanRight(plan', next')
  <2>1. next' # 0 /\ next' - 1 = n + 1
    BY <1>1, <1>2
  <2>2. Steps(plan', next') = n + 1
    BY <2>1 DEF Steps
  <2> QED
    BY <1>6, <1>7, <1>9, <2>2 DEF PlanRight, StepsCounted
<1> QED
  BY <1>10, <1>11, <1>12, CountedMeans DEF TaskInv

LEMMA RunStepKept == ASSUME TaskInv, RunStep PROVE TaskInv'
<1> DEFINE old == plan.steps[next]
<1>1. /\ plan \in Plan /\ plan.steps \in Seq(Step) /\ Len(plan.steps) \in Nat
      /\ DOMAIN plan.steps = 1 .. Len(plan.steps)
      /\ counters \in [run : Nat, succeeded : Nat, failed : Nat, blocked : Nat]
      /\ TotalsRight(counters, taskHistory)
  BY TaskFields
<1>2. /\ next \in 1 .. Len(plan.steps) /\ next' = next + 1 /\ taskHistory' = taskHistory
      /\ next # 0 /\ next <= Len(plan.steps)
  BY <1>1 DEF RunStep
<1>3. old \in Step
  BY <1>1, <1>2, ElementOfSeq
<1>4. CASE HoldBack
  <2> DEFINE e == [old EXCEPT !.status = "BLOCKED_SAFETY"]
  <2>1. /\ plan' = [plan EXCEPT !.steps = [plan.steps EXCEPT ![next] = e],
                                !.failed = plan.failed + 1, !.completed = plan.completed]
        /\ counters' = [counters EXCEPT !.blocked = @ + 1]
    BY <1>1, <1>4 DEF HoldBack, Plan
  <2>2. e \in Step /\ e.status = "BLOCKED_SAFETY"
    BY <1>3 DEF Step, StepStatuses
  <2> HIDE DEF e
  <2>3. /\ e.status # "PENDING" /\ e.status # "COMPLETED"
        /\ e.status \in {"FAILED", "BLOCKED_SAFETY"}
    BY <2>2
  <2>4. /\ counters' \in [run : Nat, succeeded : Nat, failed : Nat, blocked : Nat]
        /\ TotalsRight(counters', taskHistory)
    BY <2>1, BlockedApart
  <2> QED
    BY <1>2, <2>1, <2>2, <2>3, <2>4, StepKept
<1>5. ASSUME NEW s \in {"COMPLETED", "FAILED"}, NEW b \in BOOLEAN, NEW f, NEW c,
             plan' = [plan EXCEPT !.steps = [plan.steps EXCEPT
                                    ![next] = [old EXCEPT !.status = s, !.ran = b]],
                                  !.failed = f, !.completed = c],
             f = IF s = "FAILED" THEN plan.failed + 1 ELSE plan.failed,
             c = IF s = "COMPLETED" /\ b THEN plan.completed + 1 ELSE plan.completed,
             counters' = counters
      PROVE  TaskInv'
  <2> DEFINE e == [old EXCEPT !.status = s, !.ran = b]
  <2>1. e \in Step /\ e.status = s /\ e.ran = b
    BY <1>3 DEF Step, StepStatuses
  <2>2. plan' = [plan EXCEPT !.steps = [plan.steps EXCEPT ![next] = e],
                             !.failed = f, !.completed = c]
    BY <1>5
  <2> HIDE DEF e
  <2>3. /\ e.status # "PENDING"
        /\ f = IF e.status \in {"FAILED", "BLOCKED_SAFETY"} THEN plan.failed + 1 ELSE plan.failed
        /\ c = IF e.status = "COMPLETED" /\ e.ran THEN plan.completed + 1 ELSE plan.completed
    BY <1>5, <2>1
  <2>4. /\ counters' \in [run : Nat, succeeded : Nat, failed : Nat, blocked : Nat]
        /\ TotalsRight(counters', taskHistory)
    BY <1>1, <1>5
  <2> QED
    BY <1>2, <2>1, <2>2, <2>3, <2>4, StepKept
<1>6. CASE PretendStep
  <2>1. plan' = [plan EXCEPT !.steps = [plan.steps EXCEPT
                                ![next] = [old EXCEPT !.status = "COMPLETED", !.ran = FALSE]],
                             !.failed = plan.failed, !.completed = plan.completed]
    BY <1>1, <1>6 DEF PretendStep, Ended, Plan
  <2> QED
    BY <1>5, <1>6, <2>1 DEF PretendStep
<1>7. CASE ExecuteStep
  <2>1. \/ plan' = [plan EXCEPT !.steps = [plan.steps EXCEPT
                                   ![next] = [old EXCEPT !.status = "COMPLETED", !.ran = TRUE]],
                                !.failed = plan.failed, !.completed = plan.completed + 1]
        \/ plan' = [plan EXCEPT !.steps = [plan.steps EXCEPT
                                   ![next] = [old EXCEPT !.status = "FAILED", !.ran = TRUE]],
                                !.failed = plan.failed + 1, !.completed = plan.completed]
    BY <1>1, <1>7 DEF ExecuteStep, Ended, Plan
  <2> QED
    BY <1>5, <1>7, <2>1 DEF ExecuteStep
<1> QED
  BY <1>4, <1>6, <1>7 DEF RunStep

LEMMA CreateKept == ASSUME TaskInv, CreateFromTemplate PROVE TaskInv'
<1>1. /\ next = 0 /\ next' = 0 /\ taskHistory' = taskHistory /\ counters' = counters
      /\ counters \in [run : Nat, succeeded : Nat, failed : Nat, blocked : Nat]
      /\ taskHistory \in Seq(Plan) /\ TotalsRight(counters, taskHistory)
  BY TaskFields DEF CreateFromTemplate
<1>2. CASE \E levels \in Templates : plan' = Planned(levels)
  <2>1. PICK levels \in Templates : plan' = Planned(levels)
    BY <1>2
  <2>2. levels \in Seq(SafetyLevels) /\ Len(levels) \in Nat
        /\ \A i \in 1 .. Len(levels) : levels[i] \in SafetyLevels
    BY TemplatesAssumption, ElementOfSeq, LenProperties
  <2> DEFINE made == [i \in 1 .. Len(levels) |->
                        [safety |-> levels[i], status |-> "PENDING", ran |-> FALSE]]
  <2>3. made \in [1 .. Len(levels) -> Step]
    BY <2>2 DEF Step, StepStatuses
  <2> HIDE DEF made
  <2>4. made \in Seq(Step) /\ Len(made) \in Nat
    BY <2>2, <2>3, LenProperties
  <2>5. /\ plan'.steps = made /\ plan'.status = "PENDING"
        /\ plan' = [steps |-> made, status |-> "PENDING", completed |-> 0, failed |-> 0]
    BY <2>1 DEF Planned, made
  <2>6. plan' \in Plan
    BY <2>4, <2>5 DEF Plan, PlanStatuses
  <2>7. TaskTypes' /\ Underway' /\ PlanRight(plan', next')
    BY <1>1, <2>4, <2>5, <2>6 DEF TaskTypes, Underway, PlanRight
  <2> QED
    BY <1>1, <2>7, CountedMeans DEF TaskInv
<1>3. CASE plan' = Unknown
  <2>1. /\ plan'.steps = <<>> /\ plan'.status = "FAILED" /\ plan'.failed = 0
        /\ plan'.completed = 0 /\ plan' \in Plan /\ Len(plan'.steps) = 0
    BY <1>3, EmptySeq DEF Unknown, Plan, PlanStatuses
  <2>2. Bad(<<>>, 0) = {} /\ Good(<<>>, 0) = {} /\ Steps(plan', next') = 0
    BY <1>1, <2>1 DEF Bad, Good, Steps
  <2>3. PlanRight(plan', next')
    BY <2>1, <2>2, FS_EmptySet DEF PlanRight, StepsCounted
  <2>4. TaskTypes' /\ Underway'
    BY <1>1, <2>1 DEF TaskTypes, Underway
  <2> QED
    BY <1>1, <2>3, <2>4, CountedMeans DEF TaskInv
<1> QED
  BY <1>2, <1>3 DEF CreateFromTemplate

LEMMA ExecuteKept == ASSUME TaskInv, ExecutePlan PROVE TaskInv'
<1>1. /\ plan \in Plan /\ plan.steps \in Seq(Step) /\ Len(plan.steps) \in Nat
      /\ counters \in [run : Nat, succeeded : Nat, failed : Nat, blocked : Nat]
      /\ taskHistory \in Seq(Plan) /\ TotalsRight(counters, taskHistory)
  BY TaskFields
<1>2. /\ next' = 1 /\ taskHistory' = taskHistory /\ counters' = counters
      /\ plan' = [plan EXCEPT !.status = "IN_PROGRESS", !.completed = 0, !.failed = 0]
  BY DEF ExecutePlan
<1>3. /\ plan' \in Plan /\ plan'.steps = plan.steps /\ plan'.status = "IN_PROGRESS"
      /\ plan'.completed = 0 /\ plan'.failed = 0
  <2>1. DOMAIN plan = {"steps", "status", "completed", "failed"}
    BY <1>1 DEF Plan
  <2>2. plan' = [steps |-> plan.steps, status |-> "IN_PROGRESS", completed |-> 0, failed |-> 0]
    BY <1>1, <1>2, <2>1 DEF Plan
  <2> QED
    BY <1>1, <2>2 DEF Plan, PlanStatuses
<1>4. TaskTypes' /\ Underway'
  BY <1>1, <1>2, <1>3 DEF TaskTypes, Underway
<1>5. /\ Bad(plan'.steps, 0) = {} /\ Good(plan'.steps, 0) = {} /\ Steps(plan', next') = 0
  BY <1>2 DEF Bad, Good, Steps
<1>6. PlanRight(plan', next')
  BY <1>3, <1>5, FS_EmptySet DEF PlanRight, StepsCounted
<1> QED
  BY <1>1, <1>2, <1>4, <1>6, CountedMeans DEF TaskInv

(* A plan whose count of failures is nought has only completed steps.        *)
LEMMA NoneFailed ==
    ASSUME NEW steps \in Seq(Step), NEW n \in Nat, n = Len(steps), Cardinality(Bad(steps, n)) = 0,
           \A i \in 1 .. n : steps[i].status # "PENDING"
    PROVE  \A i \in 1 .. n : steps[i].status = "COMPLETED"
<1>1. Bad(steps, n) = {}
  BY CountsFinite, FS_EmptySet
<1>2. ASSUME NEW i \in 1 .. n PROVE steps[i].status = "COMPLETED"
  <2>1. steps[i] \in Step
    BY ElementOfSeq
  <2>2. steps[i].status \notin {"FAILED", "BLOCKED_SAFETY"}
    BY <1>1 DEF Bad
  <2> QED
    BY <2>1, <2>2 DEF Step, StepStatuses
<1> QED
  BY <1>2

(* The history gets one more plan, and the totals follow.                    *)
LEMMA HistoryGrows ==
    ASSUME NEW h \in Seq(Plan), NEW p \in Plan
    PROVE  LET won == {k \in DOMAIN h : h[k].status = "COMPLETED"}
               done == {k \in DOMAIN Append(h, p) : Append(h, p)[k].status = "COMPLETED"}
           IN  /\ Len(Append(h, p)) = Len(h) + 1 /\ Append(h, p) \in Seq(Plan)
               /\ IsFiniteSet(won) /\ Cardinality(won) \in Nat
               /\ p.status = "COMPLETED" => Cardinality(done) = Cardinality(won) + 1
               /\ p.status # "COMPLETED" => Cardinality(done) = Cardinality(won)
<1> DEFINE won == {k \in DOMAIN h : h[k].status = "COMPLETED"}
           after == Append(h, p)
           done == {k \in DOMAIN after : after[k].status = "COMPLETED"}
           L == Len(h)
<1>1. /\ L \in Nat /\ DOMAIN h = 1 .. L /\ after \in Seq(Plan) /\ Len(after) = L + 1
      /\ \A k \in 1 .. L : after[k] = h[k]
      /\ after[L + 1] = p /\ DOMAIN after = 1 .. L + 1
  BY LenProperties, AppendProperties
<1> HIDE DEF after, L
<1>2. 1 .. L + 1 = (1 .. L) \cup {L + 1} /\ L + 1 \notin 1 .. L /\ IsFiniteSet(1 .. L)
  <2>1. L \in Int /\ 1 \in Int /\ 1 .. L + 1 = (1 .. L) \cup {L + 1} /\ L + 1 \notin 1 .. L
    BY <1>1
  <2> QED
    BY <2>1, FS_Interval
<1>3. won \in SUBSET (1 .. L) /\ L + 1 \notin won
  BY <1>1, <1>2
<1>4. IsFiniteSet(won) /\ Cardinality(won) \in Nat
  BY <1>2, <1>3, FS_Subset, FS_CardinalityType
<1>5. /\ p.status = "COMPLETED" => done = won \cup {L + 1}
      /\ p.status # "COMPLETED" => done = won
  BY <1>1, <1>2
<1> HIDE DEF won, done
<1>6. Cardinality(won \cup {L + 1}) = Cardinality(won) + 1
  BY <1>3, <1>4, FS_AddElement
<1>7. /\ p.status = "COMPLETED" => Cardinality(done) = Cardinality(won) + 1
      /\ p.status # "COMPLETED" => Cardinality(done) = Cardinality(won)
  BY <1>5, <1>6
<1> QED
  BY <1>1, <1>4, <1>7 DEF won, done, after, L

LEMMA FinishKept == ASSUME TaskInv, FinishPlan PROVE TaskInv'
<1> DEFINE L == Len(plan.steps)
           verdict == IF plan.failed = 0 THEN "COMPLETED" ELSE "FAILED"
           ended == [plan EXCEPT !.status = verdict]
<1>1. /\ plan \in Plan /\ plan.steps \in Seq(Step) /\ L \in Nat
      /\ DOMAIN plan.steps = 1 .. L
      /\ counters \in [run : Nat, succeeded : Nat, failed : Nat, blocked : Nat]
      /\ taskHistory \in Seq(Plan) /\ Underway /\ PlanRight(plan, next)
      /\ TotalsRight(counters, taskHistory)
  BY TaskFields
<1>2. /\ next = L + 1 /\ next' = 0 /\ plan' = ended
      /\ taskHistory' = Append(taskHistory, ended)
  BY DEF FinishPlan
<1>3. next # 0 /\ next - 1 = L /\ Steps(plan, next) = L
  BY <1>1, <1>2 DEF Steps
<1>4. /\ plan.failed = Cardinality(Bad(plan.steps, L))
      /\ plan.completed = Cardinality(Good(plan.steps, L))
      /\ \A i \in 1 .. L : plan.steps[i].status # "PENDING"
  BY <1>1, <1>3 DEF PlanRight, StepsCounted, Underway
<1>5. plan.failed = 0 => \A i \in 1 .. L : plan.steps[i].status = "COMPLETED"
  BY <1>1, <1>4, NoneFailed
<1>6. /\ ended \in Plan /\ ended.steps = plan.steps /\ ended.failed = plan.failed
      /\ ended.completed = plan.completed /\ ended.status = verdict
  BY <1>1 DEF Plan, PlanStatuses
<1>7. verdict \in {"COMPLETED", "FAILED"} /\ (verdict = "COMPLETED" <=> plan.failed = 0)
  OBVIOUS
<1> HIDE DEF ended, verdict
<1>8. PlanRight(plan', next')
  <2>1. Steps(plan', next') = L
    BY <1>2, <1>6 DEF Steps
  <2>2. StepsCounted(plan', L)
    BY <1>2, <1>4, <1>6 DEF StepsCounted
  <2>3. plan'.status = "COMPLETED" =>
          \A i \in DOMAIN plan'.steps : plan'.steps[i].status = "COMPLETED"
    BY <1>1, <1>2, <1>5, <1>6, <1>7
  <2> QED
    BY <2>1, <2>2, <2>3 DEF PlanRight
<1>9. Underway'
  BY <1>2, <1>6, <1>7 DEF Underway
<1>10. /\ counters' \in [run : Nat, succeeded : Nat, failed : Nat, blocked : Nat]
       /\ counters'.run = counters.run + 1
       /\ verdict = "COMPLETED" => /\ counters'.succeeded = counters.succeeded + 1
                                   /\ counters'.failed = counters.failed
       /\ verdict # "COMPLETED" => /\ counters'.succeeded = counters.succeeded
                                   /\ counters'.failed = counters.failed + 1
  <2>0. /\ counters.run + 1 \in Nat /\ counters.succeeded + 1 \in Nat
        /\ counters.failed + 1 \in Nat
    BY <1>1
  <2>1. CASE plan.failed = 0
    <3>1. counters' = [counters EXCEPT !.run = counters.run + 1,
                                        !.succeeded = counters.succeeded + 1]
      BY <2>1 DEF FinishPlan
    <3>2. /\ counters' \in [run : Nat, succeeded : Nat, failed : Nat, blocked : Nat]
          /\ counters'.run = counters.run + 1 /\ counters'.failed = counters.failed
          /\ counters'.succeeded = counters.succeeded + 1
      BY <1>1, <2>0, <3>1
    <3> QED
      BY <1>7, <2>1, <3>2
  <2>2. CASE plan.failed # 0
    <3>1. counters' = [counters EXCEPT !.run = counters.run + 1,
                                        !.failed = counters.failed + 1]
      BY <2>2 DEF FinishPlan
    <3>2. /\ counters' \in [run : Nat, succeeded : Nat, failed : Nat, blocked : Nat]
          /\ counters'.run = counters.run + 1 /\ counters'.failed = counters.failed + 1
          /\ counters'.succeeded = counters.succeeded
      BY <1>1, <2>0, <3>1
    <3> QED
      BY <1>7, <2>2, <3>2
  <2> QED
    BY <2>1, <2>2
<1>11. TotalsRight(counters', taskHistory') /\ taskHistory' \in Seq(Plan)
  <2> DEFINE won == Cardinality({k \in DOMAIN taskHistory : taskHistory[k].status = "COMPLETED"})
             done == Cardinality({k \in DOMAIN taskHistory' : taskHistory'[k].status = "COMPLETED"})
  <2>1. /\ Len(taskHistory') = Len(taskHistory) + 1 /\ taskHistory' \in Seq(Plan)
        /\ verdict = "COMPLETED" => done = won + 1
        /\ verdict # "COMPLETED" => done = won
    BY <1>1, <1>2, <1>6, HistoryGrows
  <2>2. /\ counters.run = counters.succeeded + counters.failed
        /\ Len(taskHistory) = counters.run /\ won = counters.succeeded
    BY <1>1 DEF TotalsRight
  <2> HIDE DEF won, done
  <2>3. counters.run \in Nat /\ counters.succeeded \in Nat /\ counters.failed \in Nat
    BY <1>1
  <2>4. /\ counters'.run = counters'.succeeded + counters'.failed
        /\ Len(taskHistory') = counters'.run /\ done = counters'.succeeded
    BY <1>10, <2>1, <2>2, <2>3
  <2> QED
    BY <2>1, <2>4 DEF TotalsRight, done
<1>12. TaskTypes'
  <2>1. next' \in 0 .. Len(plan'.steps) + 1
    BY <1>1, <1>2, <1>6
  <2> QED
    BY <1>2, <1>6, <1>10, <1>11, <2>1 DEF TaskTypes
<1> QED
  BY <1>8, <1>9, <1>11, <1>12, CountedMeans DEF TaskInv

(* One step i of n that counted as failed ends as e, and no longer does so   *)
(* when it has completed.                                                    *)
LEMMA StepApproved ==
    ASSUME NEW steps \in Seq(Step), NEW n \in Nat, n = Len(steps), NEW i \in 1 .. n,
           steps[i].status = "BLOCKED_SAFETY", NEW e \in Step, e.ran
    PROVE  LET after == [steps EXCEPT ![i] = e]
           IN  /\ after \in Seq(Step) /\ Len(after) = n
               /\ e.status = "COMPLETED" =>
                     /\ Cardinality(Bad(after, n)) = Cardinality(Bad(steps, n)) - 1
                     /\ Cardinality(Good(after, n)) = Cardinality(Good(steps, n)) + 1
               /\ e.status = "FAILED" =>
                     /\ Cardinality(Bad(after, n)) = Cardinality(Bad(steps, n))
                     /\ Cardinality(Good(after, n)) = Cardinality(Good(steps, n))
<1> DEFINE after == [steps EXCEPT ![i] = e]
<1>1. /\ after \in Seq(Step) /\ Len(after) = n
      /\ \A j \in 1 .. n : after[j] = IF j = i THEN e ELSE steps[j]
  BY ExceptSeq
<1> HIDE DEF after
<1>2. i \in Bad(steps, n) /\ i \notin Good(steps, n)
  BY DEF Bad, Good
<1>3. /\ e.status = "COMPLETED" => /\ Bad(after, n) = Bad(steps, n) \ {i}
                                   /\ Good(after, n) = Good(steps, n) \cup {i}
      /\ e.status = "FAILED" => Bad(after, n) = Bad(steps, n) /\ Good(after, n) = Good(steps, n)
  BY <1>1, <1>2 DEF Bad, Good
<1>4. /\ Cardinality(Bad(steps, n) \ {i}) = Cardinality(Bad(steps, n)) - 1
      /\ Cardinality(Good(steps, n) \cup {i}) = Cardinality(Good(steps, n)) + 1
  BY <1>2, CountsFinite, FS_AddElement, FS_RemoveElement
<1> QED
  BY <1>1, <1>3, <1>4 DEF after

LEMMA ApproveKept ==
    ASSUME TaskInv, NEW i \in 1 .. Len(plan.steps), Approve(i) PROVE TaskInv'
<1> DEFINE L == Len(plan.steps)
           old == plan.steps[i]
<1>1. /\ plan \in Plan /\ plan.steps \in Seq(Step) /\ L \in Nat
      /\ DOMAIN plan.steps = 1 .. L /\ plan.failed \in Int /\ plan.completed \in Int
      /\ counters \in [run : Nat, succeeded : Nat, failed : Nat, blocked : Nat]
      /\ taskHistory \in Seq(Plan) /\ Underway /\ PlanRight(plan, next)
      /\ TotalsRight(counters, taskHistory)
  BY TaskFields
<1>2. /\ next = 0 /\ next' = 0 /\ taskHistory' = taskHistory /\ counters' = counters
      /\ old.status = "BLOCKED_SAFETY" /\ i \in 1 .. L
  BY DEF Approve
<1>3. old \in Step
  BY <1>1, <1>2, ElementOfSeq
<1>4. plan.status # "COMPLETED" /\ plan.status # "IN_PROGRESS"
  BY <1>1, <1>2 DEF PlanRight, Underway
<1>5. ASSUME NEW s \in {"COMPLETED", "FAILED"},
             NEW f \in Int, NEW c \in Int,
             plan' = [plan EXCEPT !.steps = [plan.steps EXCEPT
                                    ![i] = [old EXCEPT !.status = s, !.ran = TRUE]],
                                  !.failed = f, !.completed = c],
             s = "COMPLETED" => f = plan.failed - 1 /\ c = plan.completed + 1,
             s = "FAILED" => f = plan.failed /\ c = plan.completed
      PROVE  TaskInv'
  <2> DEFINE e == [old EXCEPT !.status = s, !.ran = TRUE]
             after == [plan.steps EXCEPT ![i] = e]
  <2>1. e \in Step /\ e.status = s /\ e.ran
    BY <1>3 DEF Step, StepStatuses
  <2> HIDE DEF e
  <2>2. /\ after \in Seq(Step) /\ Len(after) = L
        /\ s = "COMPLETED" =>
              /\ Cardinality(Bad(after, L)) = Cardinality(Bad(plan.steps, L)) - 1
              /\ Cardinality(Good(after, L)) = Cardinality(Good(plan.steps, L)) + 1
        /\ s = "FAILED" =>
              /\ Cardinality(Bad(after, L)) = Cardinality(Bad(plan.steps, L))
              /\ Cardinality(Good(after, L)) = Cardinality(Good(plan.steps, L))
    BY <1>1, <1>2, <2>1, StepApproved
  <2>3. plan' = [plan EXCEPT !.steps = after, !.failed = f, !.completed = c]
    BY <1>5 DEF e
  <2> HIDE DEF after
  <2>4. /\ plan' \in Plan /\ plan'.steps = after /\ plan'.failed = f
        /\ plan'.completed = c /\ plan'.status = plan.status
    BY <1>1, <1>5, <2>2, <2>3 DEF Plan
  <2>5. Steps(plan', next') = L /\ Steps(plan, next) = L
    BY <1>2, <2>2, <2>4 DEF Steps
  <2>6. plan.status = "FAILED" => StepsCounted(plan', L)
    <3>1. ASSUME plan.status = "FAILED"
          PROVE  /\ plan.failed = Cardinality(Bad(plan.steps, L))
                 /\ plan.completed = Cardinality(Good(plan.steps, L))
      BY <1>1, <2>5, <3>1 DEF PlanRight, StepsCounted
    <3> QED
      BY <1>5, <2>2, <2>4, <3>1 DEF StepsCounted
  <2>7. PlanRight(plan', next')
    BY <1>2, <1>4, <2>4, <2>5, <2>6 DEF PlanRight
  <2>8. TaskTypes' /\ Underway'
    <3>1. next' \in 0 .. Len(plan'.steps) + 1
      BY <1>1, <1>2, <2>2, <2>4
    <3> QED
      BY <1>1, <1>2, <1>4, <2>4, <3>1 DEF TaskTypes, Underway
  <2> QED
    BY <1>1, <1>2, <2>7, <2>8, CountedMeans DEF TaskInv
<1>6. \/ plan' = [plan EXCEPT !.steps = [plan.steps EXCEPT
                                   ![i] = [old EXCEPT !.status = "COMPLETED", !.ran = TRUE]],
                              !.failed = plan.failed - 1, !.completed = plan.completed + 1]
      \/ plan' = [plan EXCEPT !.steps = [plan.steps EXCEPT
                                   ![i] = [old EXCEPT !.status = "FAILED", !.ran = TRUE]],
                              !.failed = plan.failed, !.completed = plan.completed]
  BY <1>1 DEF Approve, Ended, Plan
<1>7. plan.failed - 1 \in Int /\ plan.completed + 1 \in Int
  BY <1>1
<1> QED
  BY <1>1, <1>5, <1>6, <1>7

LEMMA TaskKept == ASSUME TaskInv, [TaskNext]_taskVars PROVE TaskInv'
<1>1. ASSUME SetDryRun PROVE TaskInv'
  BY <1>1 DEF SetDryRun, TaskInv, TaskTypes, Underway, PlanCounted, Executed, With, Reached
<1>2. CASE UNCHANGED taskVars
  BY <1>2 DEF taskVars, TaskInv, TaskTypes, Underway, PlanCounted, Executed, With, Reached
<1> QED
  BY <1>1, <1>2, CreateKept, ExecuteKept, RunStepKept, FinishKept, ApproveKept DEF TaskNext

(* What a plan and the engine report of the work done is what was done,      *)
(* through executions, dry runs and approvals in any order                   *)
(* (task_automation.cpp:110-187, 296-315).                                   *)
THEOREM PlansAddUp == TaskSpec => []PlanCounted
<1>1. TaskInit => TaskInv
  BY TaskInitial
<1>2. TaskInv /\ [TaskNext]_taskVars => TaskInv'
  BY TaskKept
<1>3. TaskInv => PlanCounted
  BY DEF TaskInv
<1> QED
  BY <1>1, <1>2, <1>3, PTL DEF TaskSpec

-----------------------------------------------------------------------------
(* Goals                                                                   *)

ActionStatuses == {"PENDING", "IN_PROGRESS", "COMPLETED"}
EndStatuses    == {"COMPLETED", "FAILED"}

Goal   == [priority : GoalPriorities \cup {2}, deadline : BOOLEAN, status : GoalStatuses,
           actions : Seq(ActionStatuses), done : Nat, outOf : Nat, subGoals : SUBSET Nat]
Lesson == [goal : Nat, lesson : EndStatuses]

GoalTypes ==
    /\ goals \in Seq(Goal) /\ lessons \in Seq(Lesson)
    /\ totals \in [EndStatuses -> Nat]

GoalInv == GoalTypes /\ GoalsAccounted

(* What GoalsAccounted says of a goal itself, of the lessons about it and of *)
(* the totals, each as an operator of the values it is about.                *)
AllDone(r) ==
    r.status = "COMPLETED" => /\ r.actions # <<>>
                              /\ CompletedIn(r.actions) = DOMAIN r.actions
                              /\ r.done = r.outOf /\ r.outOf = Len(r.actions)

About(ls, g) == {k \in DOMAIN ls : ls[k].goal = g}
That(ls, s)  == {k \in DOMAIN ls : ls[k].lesson = s}

Drawn(ls, g, s) == s \in EndStatuses => About(ls, g) # {} /\ ls[Max(About(ls, g))].lesson = s

CountedIn(ts, ls) == \A s \in EndStatuses : ts[s] = Cardinality(That(ls, s))

Accounted(gs, ls, ts) ==
    CountedIn(ts, ls) /\ \A g \in DOMAIN gs : AllDone(gs[g]) /\ Drawn(ls, g, gs[g].status)

LEMMA AccountedMeans ==
    /\ GoalTypes => (GoalsAccounted <=> Accounted(goals, lessons, totals))
    /\ GoalTypes' => (GoalsAccounted' <=> Accounted(goals', lessons', totals'))
<1>1. ASSUME GoalTypes PROVE GoalsAccounted <=> Accounted(goals, lessons, totals)
  <2>1. DOMAIN totals = EndStatuses
    BY <1>1 DEF GoalTypes
  <2> QED
    BY <2>1 DEF GoalsAccounted, LessonsOf, Accounted, CountedIn, AllDone, Drawn, About, That,
                EndStatuses
<1>2. ASSUME GoalTypes' PROVE GoalsAccounted' <=> Accounted(goals', lessons', totals')
  <2>1. DOMAIN totals' = EndStatuses
    BY <1>2 DEF GoalTypes
  <2> QED
    BY <2>1 DEF GoalsAccounted, LessonsOf, Accounted, CountedIn, AllDone, Drawn, About, That,
                EndStatuses
<1> QED
  BY <1>1, <1>2

(* A lesson more: the last about its goal, and one more of its kind.         *)
LEMMA LessonAdded ==
    ASSUME NEW ls \in Seq(Lesson), NEW e \in Lesson
    PROVE  /\ Append(ls, e) \in Seq(Lesson)
           /\ Drawn(Append(ls, e), e.goal, e.lesson)
           /\ \A h : h # e.goal => \A t : Drawn(ls, h, t) => Drawn(Append(ls, e), h, t)
           /\ Cardinality(That(Append(ls, e), e.lesson)) = Cardinality(That(ls, e.lesson)) + 1
           /\ \A t : t # e.lesson => That(Append(ls, e), t) = That(ls, t)
<1> DEFINE n  == Len(ls)
           ms == Append(ls, e)
           g  == e.goal
           s  == e.lesson
<1>1. e.goal = g /\ e.lesson = s
  OBVIOUS
<1>2. n \in Nat /\ DOMAIN ls = 1 .. n
  BY LenProperties
<1>3. /\ ms \in Seq(Lesson) /\ DOMAIN ms = 1 .. n + 1 /\ ms[n + 1] = e
      /\ \A k \in 1 .. n : ms[k] = ls[k]
  <2>1. /\ Append(ls, e) \in Seq(Lesson) /\ Len(Append(ls, e)) = n + 1
        /\ Append(ls, e)[n + 1] = e /\ \A k \in 1 .. n : Append(ls, e)[k] = ls[k]
    BY AppendProperties
  <2> QED
    BY <2>1, LenProperties
<1> HIDE DEF n, ms, g, s
<1>4. 1 .. n + 1 = (1 .. n) \cup {n + 1} /\ n + 1 \notin 1 .. n
  BY <1>2
<1>5. Drawn(ms, g, s)
  <2>1. /\ About(ms, g) \in SUBSET Nat /\ n + 1 \in About(ms, g)
        /\ \A k \in About(ms, g) : k <= n + 1
    BY <1>1, <1>2, <1>3 DEF About
  <2>2. Max(About(ms, g)) \in About(ms, g) /\ n + 1 <= Max(About(ms, g))
    BY <1>2, <2>1, MaxOf
  <2>3. Max(About(ms, g)) = n + 1
    BY <1>2, <2>1, <2>2
  <2> QED
    BY <1>1, <1>3, <2>1, <2>3 DEF Drawn
<1>6. ASSUME NEW h, h # g, NEW t, Drawn(ls, h, t) PROVE Drawn(ms, h, t)
  <2>1. About(ms, h) = About(ls, h)
    BY <1>1, <1>2, <1>3, <1>4, <1>6 DEF About
  <2>2. ASSUME About(ls, h) # {} PROVE Max(About(ls, h)) \in 1 .. n
    <3>1. About(ls, h) \in SUBSET Nat /\ \A k \in About(ls, h) : k <= n
      BY <1>2 DEF About
    <3>2. Max(About(ls, h)) \in About(ls, h)
      BY <1>2, <2>2, <3>1, MaxOf
    <3> QED
      BY <1>2, <3>2 DEF About
  <2> QED
    BY <1>3, <1>6, <2>1, <2>2 DEF Drawn
<1>7. Cardinality(That(ms, s)) = Cardinality(That(ls, s)) + 1
  <2>1. IsFiniteSet(That(ls, s)) /\ Cardinality(That(ls, s)) \in Nat
    <3>1. That(ls, s) \in SUBSET (1 .. n) /\ IsFiniteSet(1 .. n)
      BY <1>2, FS_Interval DEF That
    <3> QED
      BY <3>1, FS_Subset, FS_CardinalityType
  <2>2. That(ms, s) = That(ls, s) \cup {n + 1} /\ n + 1 \notin That(ls, s)
    BY <1>1, <1>2, <1>3, <1>4 DEF That
  <2> QED
    BY <2>1, <2>2, FS_AddElement
<1>8. ASSUME NEW t, t # s PROVE That(ms, t) = That(ls, t)
  BY <1>1, <1>2, <1>3, <1>4, <1>8 DEF That
<1> QED
  BY <1>3, <1>5, <1>6, <1>7, <1>8 DEF ms, g, s

LEMMA GoalInitial == GoalInit => GoalInv
<1> SUFFICES ASSUME GoalInit PROVE GoalInv
  OBVIOUS
<1>1. GoalTypes
  <2>1. \A s \in EndStatuses : totals[s] = 0 
    BY DEF GoalInit, EndStatuses
  <2> QED
    BY EmptySeq DEF GoalInit, GoalTypes, EndStatuses
<1>2. CountedIn(totals, lessons)
  <2>1. \A s : That(lessons, s) = {}
    BY DEF GoalInit, That
  <2> QED
    BY <2>1, FS_EmptySet DEF GoalInit, CountedIn, EndStatuses
<1>3. GoalsAccounted
  BY <1>1, <1>2, AccountedMeans DEF GoalInit, Accounted
<1> QED
  BY <1>1, <1>3 DEF GoalInv

(* A change of one goal alone that ends it in no new way.                    *)
LEMMA OneGoalKept ==
    ASSUME GoalInv, NEW g \in DOMAIN goals, NEW r \in Goal, goals' = [goals EXCEPT ![g] = r],
           UNCHANGED <<lessons, totals>>, AllDone(r),
           r.status \in EndStatuses => r.status = goals[g].status
    PROVE  GoalInv'
<1>1. /\ goals \in Seq(Goal) /\ Len(goals) \in Nat /\ DOMAIN goals = 1 .. Len(goals)
  BY LenProperties DEF GoalInv, GoalTypes
<1>2. /\ goals' \in Seq(Goal) /\ DOMAIN goals' = DOMAIN goals
      /\ goals'[g] = r /\ \A h \in DOMAIN goals \ {g} : goals'[h] = goals[h]
  <2>1. /\ [goals EXCEPT ![g] = r] \in Seq(Goal)
        /\ \A h \in 1 .. Len(goals) : [goals EXCEPT ![g] = r][h] = IF h = g THEN r ELSE goals[h]
    BY <1>1, ExceptSeq
  <2> QED
    BY <1>1, <2>1
<1>3. GoalTypes'
  BY <1>2 DEF GoalInv, GoalTypes
<1>4. Accounted(goals, lessons, totals)
  BY AccountedMeans DEF GoalInv
<1>5. ASSUME NEW h \in DOMAIN goals PROVE AllDone(goals'[h]) /\ Drawn(lessons, h, goals'[h].status)
  <2>1. AllDone(goals[h]) /\ Drawn(lessons, h, goals[h].status)
    BY <1>4 DEF Accounted
  <2>2. CASE h = g
    BY <1>2, <2>1, <2>2 DEF Drawn
  <2>3. CASE h # g
    BY <1>2, <2>1, <2>3
  <2> QED
    BY <2>2, <2>3
<1>6. Accounted(goals', lessons', totals')
  BY <1>2, <1>4, <1>5 DEF Accounted
<1> QED
  BY <1>3, <1>6, AccountedMeans DEF GoalInv

(* A goal that ends, with its lesson.                                        *)
LEMMA GoalEndKept ==
    ASSUME GoalInv, NEW g \in DOMAIN goals, NEW r \in Goal, goals' = [goals EXCEPT ![g] = r],
           NEW s \in EndStatuses, Ends(g, s), AllDone(r), r.status = s
    PROVE  GoalInv'
<1>1. /\ goals \in Seq(Goal) /\ Len(goals) \in Nat /\ DOMAIN goals = 1 .. Len(goals)
      /\ g \in Nat /\ lessons \in Seq(Lesson) /\ totals \in [EndStatuses -> Nat]
  <2>1. /\ goals \in Seq(Goal) /\ Len(goals) \in Nat /\ DOMAIN goals = 1 .. Len(goals)
    BY LenProperties DEF GoalInv, GoalTypes
  <2> QED
    BY <2>1 DEF GoalInv, GoalTypes
<1>2. /\ goals' \in Seq(Goal) /\ DOMAIN goals' = DOMAIN goals
      /\ goals'[g] = r /\ \A h \in DOMAIN goals \ {g} : goals'[h] = goals[h]
  <2>1. /\ [goals EXCEPT ![g] = r] \in Seq(Goal)
        /\ \A h \in 1 .. Len(goals) : [goals EXCEPT ![g] = r][h] = IF h = g THEN r ELSE goals[h]
    BY <1>1, ExceptSeq
  <2> QED
    BY <1>1, <2>1
<1>3. /\ totals' = [totals EXCEPT ![s] = @ + 1]
      /\ lessons' = Append(lessons, [goal |-> g, lesson |-> s])
  BY DEF Ends
<1>4. /\ lessons' \in Seq(Lesson) /\ Drawn(lessons', g, s)
      /\ \A h : h # g => \A t : Drawn(lessons, h, t) => Drawn(lessons', h, t)
      /\ Cardinality(That(lessons', s)) = Cardinality(That(lessons, s)) + 1
      /\ \A t : t # s => That(lessons', t) = That(lessons, t)
  <2> DEFINE e == [goal |-> g, lesson |-> s]
  <2>1. e \in Lesson /\ g = e.goal /\ s = e.lesson /\ lessons' = Append(lessons, e)
    BY <1>1, <1>3 DEF Lesson
  <2> HIDE DEF e
  <2>2. /\ Append(lessons, e) \in Seq(Lesson)
        /\ Drawn(Append(lessons, e), e.goal, e.lesson)
        /\ \A h : h # e.goal => \A t : Drawn(lessons, h, t) => Drawn(Append(lessons, e), h, t)
        /\ Cardinality(That(Append(lessons, e), e.lesson))
             = Cardinality(That(lessons, e.lesson)) + 1
        /\ \A t : t # e.lesson => That(Append(lessons, e), t) = That(lessons, t)
    BY <1>1, <2>1, LessonAdded
  <2> QED
    BY <2>1, <2>2
<1>5. Accounted(goals, lessons, totals)
  BY AccountedMeans DEF GoalInv
<1>6. /\ totals' \in [EndStatuses -> Nat]
      /\ totals'[s] = totals[s] + 1 /\ \A t \in EndStatuses \ {s} : totals'[t] = totals[t]
  <2>1. \A t \in EndStatuses : totals[t] \in Nat
    BY <1>1
  <2> QED
    BY <1>1, <1>3, <2>1
<1>7. GoalTypes'
  BY <1>2, <1>4, <1>6 DEF GoalTypes
<1>8. CountedIn(totals', lessons')
  <2>1. \A t \in EndStatuses : totals[t] = Cardinality(That(lessons, t))
    BY <1>5 DEF Accounted, CountedIn
  <2>2. ASSUME NEW t \in EndStatuses PROVE totals'[t] = Cardinality(That(lessons', t))
    <3>1. CASE t = s
      BY <1>4, <1>6, <2>1, <3>1
    <3>2. CASE t # s
      BY <1>4, <1>6, <2>1, <3>2
    <3> QED
      BY <3>1, <3>2
  <2> QED
    BY <2>2 DEF CountedIn
<1>9. ASSUME NEW h \in DOMAIN goals PROVE AllDone(goals'[h]) /\ Drawn(lessons', h, goals'[h].status)
  <2>1. CASE h = g
    BY <1>2, <1>4, <2>1
  <2>2. CASE h # g
    <3>1. AllDone(goals[h]) /\ Drawn(lessons, h, goals[h].status)
      BY <1>5 DEF Accounted
    <3> QED
      BY <1>2, <1>4, <2>2, <3>1
  <2> QED
    BY <2>1, <2>2
<1>10. Accounted(goals', lessons', totals')
  BY <1>2, <1>8, <1>9 DEF Accounted
<1> QED
  BY <1>7, <1>10, AccountedMeans DEF GoalInv

(* A new goal is pending, and there are no lessons about it to look at.      *)
LEMMA GoalAdded ==
    ASSUME GoalInv, NEW r \in Goal, r.status = "PENDING", goals' = Append(goals, r),
           UNCHANGED <<lessons, totals>>
    PROVE  GoalInv'
<1>1. /\ goals \in Seq(Goal) /\ Len(goals) \in Nat /\ DOMAIN goals = 1 .. Len(goals)
  BY LenProperties DEF GoalInv, GoalTypes
<1>2. /\ goals' \in Seq(Goal) /\ DOMAIN goals' = 1 .. Len(goals) + 1
      /\ goals'[Len(goals) + 1] = r /\ \A h \in DOMAIN goals : goals'[h] = goals[h]
  <2>1. /\ Append(goals, r) \in Seq(Goal) /\ Len(Append(goals, r)) = Len(goals) + 1
        /\ Append(goals, r)[Len(goals) + 1] = r
        /\ \A h \in 1 .. Len(goals) : Append(goals, r)[h] = goals[h]
    BY <1>1, AppendProperties
  <2> QED
    BY <1>1, <2>1, LenProperties
<1>3. GoalTypes'
  BY <1>2 DEF GoalInv, GoalTypes
<1>4. Accounted(goals, lessons, totals)
  BY AccountedMeans DEF GoalInv
<1>5. ASSUME NEW h \in DOMAIN goals' PROVE AllDone(goals'[h]) /\ Drawn(lessons, h, goals'[h].status)
  <2>1. CASE h = Len(goals) + 1
    BY <1>2, <2>1 DEF AllDone, Drawn, EndStatuses
  <2>2. CASE h # Len(goals) + 1
    <3>1. h \in DOMAIN goals
      BY <1>1, <1>2, <2>2
    <3> QED
      BY <1>2, <1>4, <3>1 DEF Accounted
  <2> QED
    BY <2>1, <2>2
<1>6. Accounted(goals', lessons', totals')
  BY <1>4, <1>5 DEF Accounted
<1> QED
  BY <1>3, <1>6, AccountedMeans DEF GoalInv

LEMMA GoalFields ==
    ASSUME GoalInv, NEW g \in DOMAIN goals
    PROVE  /\ goals[g] \in Goal /\ goals[g].status \in GoalStatuses
           /\ goals[g].actions \in Seq(ActionStatuses) /\ g \in Nat
           /\ goals[g].subGoals \subseteq Nat /\ AllDone(goals[g])
<1>1. /\ goals \in Seq(Goal) /\ Len(goals) \in Nat /\ DOMAIN goals = 1 .. Len(goals)
  BY LenProperties DEF GoalInv, GoalTypes
<1>2. goals[g] \in Goal /\ g \in Nat
  BY <1>1, ElementOfSeq
<1>3. AllDone(goals[g])
  BY AccountedMeans DEF GoalInv, Accounted
<1> QED
  BY <1>2, <1>3 DEF Goal

LEMMA NewGoalTyped ==
    ASSUME NEW p \in GoalPriorities \cup {2}, NEW d \in BOOLEAN
    PROVE  NewGoal(p, d) \in Goal /\ NewGoal(p, d).status = "PENDING"
<1>1. <<>> \in Seq(ActionStatuses)
  BY EmptySeq
<1> QED
  BY <1>1 DEF NewGoal, Goal, GoalStatuses

LEMMA AddSubGoalKept == ASSUME GoalInv, NEW parent \in Nat, AddSubGoal(parent) PROVE GoalInv'
<1> DEFINE new   == NewGoal(2, FALSE)
           grown == Append(goals, new)
<1>1. new \in Goal /\ new.status = "PENDING"
  BY NewGoalTyped
<1>2. /\ UNCHANGED <<lessons, totals>>
      /\ goals' = IF parent \in DOMAIN grown
                  THEN [grown EXCEPT ![parent].subGoals = @ \cup {Len(grown)}] ELSE grown
  BY DEF AddSubGoal
<1> HIDE DEF new
<1>3. /\ goals \in Seq(Goal) /\ Len(goals) \in Nat
      /\ DOMAIN grown = 1 .. Len(goals) + 1 /\ Len(grown) = Len(goals) + 1
  <2>1. goals \in Seq(Goal)
    BY DEF GoalInv, GoalTypes
  <2> QED
    BY <1>1, <2>1, AppendProperties, LenProperties
<1>4. CASE parent \notin DOMAIN grown
  BY <1>1, <1>2, <1>4, GoalAdded
<1>5. CASE parent = Len(goals) + 1
  <2> DEFINE own == [new EXCEPT !.subGoals = new.subGoals \cup {parent}]
  <2>1. own \in Goal /\ own.status = "PENDING"
    BY <1>1 DEF Goal
  <2>2. grown[parent] = new /\ parent \in DOMAIN grown
    BY <1>1, <1>3, <1>5, AppendProperties
  <2>3. goals' = [grown EXCEPT ![parent] = own]
    BY <1>2, <1>3, <1>5, <2>2
  <2> HIDE DEF own
  <2>4. [grown EXCEPT ![parent] = own] = Append(goals, own)
    <3> DEFINE alone == Append(goals, own)
               set == [grown EXCEPT ![parent] = own]
    <3>1. /\ grown \in Seq(Goal) /\ parent \in 1 .. Len(grown)
          /\ \A h \in 1 .. Len(goals) : grown[h] = goals[h]
      BY <1>1, <1>3, <1>5, AppendProperties
    <3> HIDE DEF grown
    <3>2. /\ set \in Seq(Goal) /\ Len(set) = Len(grown)
          /\ \A h \in 1 .. Len(grown) : set[h] = IF h = parent THEN own ELSE grown[h]
      BY <2>1, <3>1, ExceptSeq
    <3>3. /\ alone \in Seq(Goal) /\ Len(alone) = Len(goals) + 1 /\ alone[Len(goals) + 1] = own
          /\ \A h \in 1 .. Len(goals) : alone[h] = goals[h]
      BY <1>3, <2>1, AppendProperties
    <3> HIDE DEF alone, set
    <3>4. Len(set) = Len(alone) /\ \A h \in 1 .. Len(set) : set[h] = alone[h]
      BY <1>3, <1>5, <3>1, <3>2, <3>3
    <3>5. set = alone
      BY <3>2, <3>3, <3>4, SeqEqual
    <3> QED
      BY <3>5 DEF set, alone
  <2> QED
    BY <1>2, <2>1, <2>3, <2>4, GoalAdded
<1>6. CASE parent \in DOMAIN goals
  <2> DEFINE n == Len(grown)
             subs == goals[parent].subGoals \cup {n}
             r == [goals[parent] EXCEPT !.subGoals = subs]
             linked == [goals EXCEPT ![parent] = r]
  <2>1. /\ goals \in Seq(Goal) /\ Len(goals) \in Nat /\ DOMAIN goals = 1 .. Len(goals)
    BY LenProperties DEF GoalInv, GoalTypes
  <2>2. /\ grown \in Seq(Goal) /\ n = Len(goals) + 1 /\ DOMAIN grown = 1 .. n /\ grown[n] = new
        /\ \A h \in 1 .. Len(goals) : grown[h] = goals[h]
    BY <1>1, <2>1, AppendProperties, LenProperties
  <2>3. n \in Nat /\ subs \subseteq Nat
    BY <1>6, <2>1, <2>2, GoalFields
  <2>4. goals' = [grown EXCEPT ![parent] = r]
    <3>1. parent \in DOMAIN grown /\ grown[parent] = goals[parent]
      BY <1>6, <2>1, <2>2
    <3> QED
      BY <1>2, <3>1
  <2> HIDE DEF n, subs
  <2>5. /\ r \in Goal /\ r.status = goals[parent].status /\ AllDone(r)
    <3>1. goals[parent] \in Goal /\ AllDone(goals[parent])
      BY <1>6, GoalFields
    <3>2. r \in Goal /\ r.status = goals[parent].status /\ r.actions = goals[parent].actions
          /\ r.done = goals[parent].done /\ r.outOf = goals[parent].outOf
      BY <2>3, <3>1 DEF Goal
    <3> HIDE DEF r
    <3> QED
      BY <3>1, <3>2 DEF AllDone
  <2> HIDE DEF r, grown
  <2>6. /\ goals' \in Seq(Goal) /\ DOMAIN goals' = 1 .. n
        /\ \A h \in 1 .. n : goals'[h] = IF h = parent THEN r ELSE grown[h]
    <3>1. parent \in 1 .. Len(grown)
      BY <1>6, <2>1, <2>2 DEF n
    <3>2. /\ [grown EXCEPT ![parent] = r] \in Seq(Goal)
          /\ Len([grown EXCEPT ![parent] = r]) = Len(grown)
          /\ \A h \in 1 .. Len(grown) :
                [grown EXCEPT ![parent] = r][h] = IF h = parent THEN r ELSE grown[h]
      BY <2>2, <2>5, <3>1, ExceptSeq
    <3> QED
      BY <2>4, <3>2, LenProperties DEF n
  <2>7. GoalTypes'
    BY <1>2, <2>6 DEF GoalInv, GoalTypes
  <2>8. Accounted(goals, lessons, totals)
    BY AccountedMeans DEF GoalInv
  <2>9. ASSUME NEW h \in DOMAIN goals'
        PROVE  AllDone(goals'[h]) /\ Drawn(lessons, h, goals'[h].status)
    <3>1. CASE h = parent
      BY <1>6, <2>5, <2>6, <2>8, <3>1 DEF Accounted
    <3>2. CASE h = n /\ h # parent
      BY <1>1, <2>2, <2>6, <3>2 DEF AllDone, Drawn, EndStatuses
    <3>3. CASE h \in 1 .. Len(goals) /\ h # parent
      <4>1. goals'[h] = goals[h]
        BY <2>1, <2>2, <2>6, <3>3
      <4> QED
        BY <2>1, <2>8, <3>3, <4>1 DEF Accounted
    <3> QED
      BY <2>1, <2>2, <2>6, <3>1, <3>2, <3>3
  <2>10. Accounted(goals', lessons', totals')
    BY <1>2, <2>8, <2>9 DEF Accounted
  <2> QED
    BY <2>7, <2>10, AccountedMeans DEF GoalInv
<1>7. DOMAIN goals = 1 .. Len(goals)
  BY <1>3, LenProperties
<1> QED
  BY <1>3, <1>4, <1>5, <1>6, <1>7

LEMMA BreakKept ==
    ASSUME GoalInv, NEW g \in DOMAIN goals, NEW n \in Nat, BreakIntoActions(g, n) PROVE GoalInv'
<1> DEFINE more == [i \in 1 .. n |-> "PENDING"]
           actions == goals[g].actions \o more
           r == [goals[g] EXCEPT !.actions = actions, !.status = "IN_PROGRESS"]
<1>1. goals' = [goals EXCEPT ![g] = r] /\ UNCHANGED <<lessons, totals>>
  BY DEF BreakIntoActions
<1>2. actions \in Seq(ActionStatuses)
  <2>1. more \in Seq(ActionStatuses)
    BY SeqDef DEF ActionStatuses
  <2> HIDE DEF more
  <2> QED
    BY <2>1, GoalFields, ConcatProperties
<1> HIDE DEF actions
<1>3. r \in Goal /\ r.status = "IN_PROGRESS"
  BY <1>2, GoalFields DEF Goal, GoalStatuses
<1> HIDE DEF r
<1>4. AllDone(r) /\ r.status \notin EndStatuses
  BY <1>3 DEF AllDone, EndStatuses
<1> QED
  BY <1>1, <1>3, <1>4, OneGoalKept

(* The goal is completed when every action is.                               *)
LEMMA CompleteKept ==
    ASSUME GoalInv, NEW g \in DOMAIN goals, NEW i, CompleteAction(g, i) PROVE GoalInv'
<1> DEFINE old == goals[g]
           actions == [old.actions EXCEPT ![i] = "COMPLETED"]
           done == Cardinality(CompletedIn(actions))
           all == done = Len(actions)
           ended == IF all THEN "COMPLETED" ELSE old.status
           r == [old EXCEPT !.actions = actions, !.done = done, !.outOf = Len(actions),
                            !.status = ended]
<1>1. /\ i \in DOMAIN old.actions
      /\ goals' = [goals EXCEPT ![g] = r]
      /\ IF all THEN Ends(g, "COMPLETED") ELSE UNCHANGED <<lessons, totals>>
  BY DEF CompleteAction
<1>2. /\ old.actions \in Seq(ActionStatuses) /\ Len(old.actions) \in Nat
      /\ DOMAIN old.actions = 1 .. Len(old.actions)
  BY GoalFields, LenProperties
<1>3. /\ actions \in Seq(ActionStatuses) /\ Len(actions) = Len(old.actions)
      /\ DOMAIN actions = 1 .. Len(actions) /\ actions[i] = "COMPLETED"
      /\ \A j \in DOMAIN old.actions : j # i => actions[j] = old.actions[j]
  <2>1. "COMPLETED" \in ActionStatuses
    BY DEF ActionStatuses
  <2> QED
    BY <1>1, <1>2, <2>1, ExceptSeq
<1> HIDE DEF actions
<1>4. actions # <<>>
  BY <1>1, <1>2, <1>3
<1>5. /\ IsFiniteSet(CompletedIn(actions)) /\ done \in Nat
      /\ all <=> CompletedIn(actions) = DOMAIN actions
  <2>1. IsFiniteSet(DOMAIN actions) /\ Cardinality(DOMAIN actions) = Len(actions)
    <3>1. Len(actions) \in Nat
      BY <1>2, <1>3
    <3>2. /\ IsFiniteSet(1 .. Len(actions))
          /\ Cardinality(1 .. Len(actions)) = IF 1 > Len(actions) THEN 0 ELSE Len(actions) - 1 + 1
      BY <3>1, FS_Interval
    <3> QED
      BY <1>3, <3>1, <3>2
  <2>2. CompletedIn(actions) \in SUBSET DOMAIN actions
    BY DEF CompletedIn
  <2>3. /\ IsFiniteSet(CompletedIn(actions))
        /\ Cardinality(DOMAIN actions) = Cardinality(CompletedIn(actions))
              => DOMAIN actions = CompletedIn(actions)
    BY <2>1, <2>2, FS_Subset
  <2> QED
    BY <2>1, <2>3, FS_CardinalityType
<1>6. Len(actions) \in Nat
  BY <1>2, <1>3
<1> HIDE DEF done
<1>7. /\ old \in Goal /\ old.status \in GoalStatuses /\ AllDone(old)
  BY GoalFields
<1>8. ended \in GoalStatuses
  BY <1>7 DEF GoalStatuses
<1> HIDE DEF ended, all
<1>9. /\ r \in Goal /\ r.status = ended /\ r.actions = actions
      /\ r.done = done /\ r.outOf = Len(actions)
  BY <1>3, <1>5, <1>6, <1>7, <1>8 DEF Goal
<1> HIDE DEF r
<1>10. CASE all
  <2>1. r.status = "COMPLETED" /\ done = Len(actions) /\ CompletedIn(actions) = DOMAIN actions
    BY <1>5, <1>9, <1>10 DEF ended, all
  <2>2. AllDone(r)
    BY <1>4, <1>9, <2>1 DEF AllDone
  <2>3. "COMPLETED" \in EndStatuses
    BY DEF EndStatuses
  <2> QED
    BY <1>1, <1>9, <1>10, <2>1, <2>2, <2>3, GoalEndKept
<1>11. CASE ~all
  <2>1. r.status = old.status
    BY <1>9, <1>11 DEF ended
  <2>2. old.status # "COMPLETED"
    <3> SUFFICES ASSUME old.status = "COMPLETED" PROVE FALSE
      OBVIOUS
    <3>1. CompletedIn(old.actions) = DOMAIN old.actions
      BY <1>7 DEF AllDone
    <3>2. CompletedIn(actions) = DOMAIN actions
      BY <1>1, <1>2, <1>3, <3>1 DEF CompletedIn
    <3> QED
      BY <1>5, <1>11, <3>2 DEF all
  <2>3. AllDone(r)
    BY <2>1, <2>2 DEF AllDone
  <2> QED
    BY <1>1, <1>9, <1>11, <2>1, <2>3, OneGoalKept
<1> QED
  BY <1>10, <1>11

LEMMA FailKept == ASSUME GoalInv, NEW g \in DOMAIN goals, FailGoal(g) PROVE GoalInv'
<1> DEFINE r == [goals[g] EXCEPT !.status = "FAILED"]
<1>1. goals' = [goals EXCEPT ![g] = r] /\ Ends(g, "FAILED")
  BY DEF FailGoal
<1>2. r \in Goal /\ r.status = "FAILED"
  BY GoalFields DEF Goal, GoalStatuses
<1> HIDE DEF r
<1>3. AllDone(r) /\ "FAILED" \in EndStatuses
  BY <1>2 DEF AllDone, EndStatuses
<1> QED
  BY <1>1, <1>2, <1>3, GoalEndKept

LEMMA TickKept == ASSUME GoalInv, Tick PROVE GoalInv'
<1>1. UNCHANGED <<lessons, totals>>
  BY DEF Tick
<1>2. CASE goals' = goals
  BY <1>1, <1>2 DEF GoalInv, GoalTypes, GoalsAccounted, LessonsOf
<1>3. CASE goals' # goals
  <2>0. PICK g \in Active : \E i : goals' = [goals EXCEPT ![g].actions[i] = "IN_PROGRESS"]
    BY <1>3 DEF Tick, Selected
  <2>1. PICK i : goals' = [goals EXCEPT ![g].actions[i] = "IN_PROGRESS"]
    BY <2>0
  <2>2. g \in DOMAIN goals /\ goals[g].status \in {"PENDING", "IN_PROGRESS"}
    BY DEF Active
  <2> DEFINE actions == [goals[g].actions EXCEPT ![i] = "IN_PROGRESS"]
             r == [goals[g] EXCEPT !.actions = actions]
  <2>3. goals' = [goals EXCEPT ![g] = r]
    BY <2>1
  <2>4. actions \in Seq(ActionStatuses)
    <3>1. goals[g].actions \in Seq(ActionStatuses)
      BY <2>2, GoalFields
    <3>2. "IN_PROGRESS" \in ActionStatuses
      BY DEF ActionStatuses
    <3>3. CASE i \in 1 .. Len(goals[g].actions)
      BY <3>1, <3>2, <3>3, ExceptSeq
    <3>4. CASE i \notin 1 .. Len(goals[g].actions)
      <4>1. DOMAIN goals[g].actions = 1 .. Len(goals[g].actions)
        BY <3>1, LenProperties
      <4>2. goals[g].actions \in [1 .. Len(goals[g].actions) -> ActionStatuses]
        BY <3>1, LenProperties
      <4>3. actions = goals[g].actions
        BY <3>4, <4>2
      <4> QED
        BY <3>1, <4>3
    <3> QED
      BY <3>3, <3>4
  <2> HIDE DEF actions
  <2>5. r \in Goal /\ r.status = goals[g].status
    BY <2>2, <2>4, GoalFields DEF Goal
  <2> HIDE DEF r
  <2>6. AllDone(r) /\ r.status \notin EndStatuses
    BY <2>2, <2>5 DEF AllDone, EndStatuses
  <2> QED
    BY <1>1, <2>2, <2>3, <2>5, <2>6, OneGoalKept
<1> QED
  BY <1>2, <1>3

LEMMA GoalKept == GoalInv /\ [GoalNext]_goalVars => GoalInv'
<1> SUFFICES ASSUME GoalInv, [GoalNext]_goalVars PROVE GoalInv'
  OBVIOUS
<1>1. CASE UNCHANGED goalVars
  BY <1>1 DEF goalVars, GoalInv, GoalTypes, GoalsAccounted, LessonsOf
<1>2. ASSUME NEW p \in GoalPriorities, NEW d \in BOOLEAN, CreateGoal(p, d) PROVE GoalInv'
  <2>1. NewGoal(p, d) \in Goal /\ NewGoal(p, d).status = "PENDING"
    BY NewGoalTyped
  <2>2. goals' = Append(goals, NewGoal(p, d)) /\ UNCHANGED <<lessons, totals>>
    BY <1>2 DEF CreateGoal
  <2> QED
    BY <2>1, <2>2, GoalAdded
<1>3. 0 .. MaxActions \subseteq Nat /\ 1 .. MaxGoals \subseteq Nat
  BY GoalAssumption
<1>4. CASE \E parent \in 1 .. MaxGoals : AddSubGoal(parent)
  BY <1>3, <1>4, AddSubGoalKept
<1>5. CASE \E g \in DOMAIN goals, n \in 0 .. MaxActions : BreakIntoActions(g, n)
  BY <1>3, <1>5, BreakKept
<1>6. CASE \E g \in DOMAIN goals, i \in 1 .. MaxActions : CompleteAction(g, i)
  BY <1>6, CompleteKept
<1>7. CASE \E g \in DOMAIN goals : FailGoal(g)
  BY <1>7, FailKept
<1> QED
  BY <1>1, <1>2, <1>4, <1>5, <1>6, <1>7, TickKept DEF GoalNext

(* For any goals, actions and priorities, in whatever order goals are broken *)
(* down, completed, failed and taken up again: a goal reported completed has *)
(* every action completed, the last lesson about a goal that ended says how, *)
(* and the totals count the lessons.                                         *)
THEOREM GoalsAddUp == GoalSpec => []GoalsAccounted
<1>1. GoalSpec => []GoalInv
  BY GoalInitial, GoalKept, PTL DEF GoalSpec
<1>2. GoalInv => GoalsAccounted
  BY DEF GoalInv
<1> QED
  BY <1>1, <1>2, PTL

-----------------------------------------------------------------------------
(* The trading bot                                                         *)

BotTypes ==
    /\ botCash \in Int
    /\ {held, dbHeld, paperHeld, liveNet, restored} \subseteq [Watchlist -> Int]

BotInv == BotTypes /\ PositionsExplained

(* A trade of a coin that moves its holding by as much as the paper account  *)
(* and the live trades together keeps the position explained.                *)
LEMMA MoveKept ==
    ASSUME BotInv, NEW c \in Watchlist, NEW h \in Int, NEW k \in Int, NEW l \in Int,
           botCash' \in Int, restored' = restored,
           held' = [held EXCEPT ![c] = h], dbHeld' = [dbHeld EXCEPT ![c] = h],
           paperHeld' = [paperHeld EXCEPT ![c] = k], liveNet' = [liveNet EXCEPT ![c] = l],
           h - held[c] = (k - paperHeld[c]) + (l - liveNet[c])
    PROVE  BotInv'
<1>1. /\ held \in [Watchlist -> Int] /\ dbHeld \in [Watchlist -> Int]
      /\ paperHeld \in [Watchlist -> Int] /\ liveNet \in [Watchlist -> Int]
      /\ restored \in [Watchlist -> Int]
  BY DEF BotInv, BotTypes
<1>2. /\ held' \in [Watchlist -> Int] /\ dbHeld' \in [Watchlist -> Int]
      /\ paperHeld' \in [Watchlist -> Int] /\ liveNet' \in [Watchlist -> Int]
  BY <1>1
<1>3. ASSUME NEW x \in Watchlist PROVE held'[x] = restored'[x] + paperHeld'[x] + liveNet'[x]
  <2>1. held[x] = restored[x] + paperHeld[x] + liveNet[x]
    BY DEF BotInv, PositionsExplained
  <2>2. CASE x = c
    <3>1. /\ held'[x] = h /\ paperHeld'[x] = k /\ liveNet'[x] = l /\ restored'[x] = restored[c]
          /\ held[c] = restored[c] + paperHeld[c] + liveNet[c]
      BY <1>1, <2>1, <2>2
    <3>2. {held[c], paperHeld[c], liveNet[c], restored[c]} \subseteq Int
      BY <1>1
    <3> QED
      BY <3>1, <3>2
  <2>3. CASE x # c
    BY <1>1, <2>1, <2>3
  <2> QED
    BY <2>2, <2>3
<1> QED
  BY <1>1, <1>2, <1>3 DEF BotInv, BotTypes, PositionsExplained

LEMMA TradeKept ==
    ASSUME BotInv, NEW c \in Watchlist, NEW p \in Prices, NEW q \in Int, restored' = restored,
           NoTrade \/ BotBuy(c, p, q) \/ BotSell(c, p, q)
    PROVE  BotInv'
<1>1. /\ held \in [Watchlist -> Int] /\ paperHeld \in [Watchlist -> Int]
      /\ dbHeld \in [Watchlist -> Int] /\ liveNet \in [Watchlist -> Int]
      /\ held[c] \in Int /\ paperHeld[c] \in Int /\ liveNet[c] \in Int /\ botCash \in Int
      /\ p \in Int /\ p > 0
  BY TradingAssumption DEF BotInv, BotTypes
<1>2. CASE NoTrade
  BY <1>2 DEF NoTrade, BotInv, BotTypes, PositionsExplained
<1>3. CASE PaperBuy(c, p, q) /\ ~NoTrade
  <2> DEFINE n == Min({q, botCash \div p})
  <2>1. n \in Int
    <3>1. botCash \div p \in Int
      BY <1>1
    <3> QED
      BY <3>1, MinOfTwo
  <2>2. /\ botCash' = botCash - n * p /\ UNCHANGED liveNet
        /\ paperHeld' = [paperHeld EXCEPT ![c] = paperHeld[c] + n]
        /\ held' = [held EXCEPT ![c] = held[c] + n]
        /\ dbHeld' = [dbHeld EXCEPT ![c] = held[c] + n]
    BY <1>3 DEF PaperBuy, Hold
  <2> HIDE DEF n
  <2>3. liveNet' = [liveNet EXCEPT ![c] = liveNet[c]]
    BY <1>1, <2>2
  <2>4. /\ botCash' \in Int /\ held[c] + n \in Int /\ paperHeld[c] + n \in Int
        /\ (held[c] + n) - held[c]
              = ((paperHeld[c] + n) - paperHeld[c]) + (liveNet[c] - liveNet[c])
    BY <1>1, <2>1, <2>2
  <2> QED
    BY <1>1, <2>2, <2>3, <2>4, MoveKept
<1>4. CASE PaperSell(c, p, q) /\ ~NoTrade
  <2> DEFINE n == Min({q, paperHeld[c]})
  <2>1. n \in Int
    BY <1>1, MinOfTwo
  <2>2. /\ botCash' = botCash + n * p /\ UNCHANGED liveNet
        /\ paperHeld' = [paperHeld EXCEPT ![c] = paperHeld[c] - n]
        /\ held' = [held EXCEPT ![c] = held[c] - n]
        /\ dbHeld' = [dbHeld EXCEPT ![c] = held[c] - n]
    BY <1>4 DEF PaperSell, Hold
  <2> HIDE DEF n
  <2>3. liveNet' = [liveNet EXCEPT ![c] = liveNet[c]]
    BY <1>1, <2>2
  <2>4. /\ botCash' \in Int /\ held[c] - n \in Int /\ paperHeld[c] - n \in Int
        /\ (held[c] - n) - held[c]
              = ((paperHeld[c] - n) - paperHeld[c]) + (liveNet[c] - liveNet[c])
    BY <1>1, <2>1, <2>2
  <2> QED
    BY <1>1, <2>2, <2>3, <2>4, MoveKept
<1>5. CASE LiveBuy(c, q)
  <2>1. /\ UNCHANGED <<botCash, paperHeld>>
        /\ liveNet' = [liveNet EXCEPT ![c] = liveNet[c] + q]
        /\ held' = [held EXCEPT ![c] = held[c] + q]
        /\ dbHeld' = [dbHeld EXCEPT ![c] = held[c] + q]
    BY <1>5 DEF LiveBuy, Hold
  <2>2. paperHeld' = [paperHeld EXCEPT ![c] = paperHeld[c]]
    BY <1>1, <2>1
  <2>3. /\ held[c] + q \in Int /\ liveNet[c] + q \in Int
        /\ (held[c] + q) - held[c]
              = (paperHeld[c] - paperHeld[c]) + ((liveNet[c] + q) - liveNet[c])
    BY <1>1
  <2> QED
    BY <1>1, <2>1, <2>2, <2>3, MoveKept
<1>6. CASE LiveSell(c, q)
  <2> DEFINE n == Min({q, held[c]})
  <2>1. n \in Int
    BY <1>1, MinOfTwo
  <2>2. /\ UNCHANGED <<botCash, paperHeld>>
        /\ liveNet' = [liveNet EXCEPT ![c] = liveNet[c] - n]
        /\ held' = [held EXCEPT ![c] = held[c] - n]
        /\ dbHeld' = [dbHeld EXCEPT ![c] = held[c] - n]
    BY <1>6 DEF LiveSell, Hold
  <2> HIDE DEF n
  <2>3. paperHeld' = [paperHeld EXCEPT ![c] = paperHeld[c]]
    BY <1>1, <2>2
  <2>4. /\ held[c] - n \in Int /\ liveNet[c] - n \in Int
        /\ (held[c] - n) - held[c]
              = (paperHeld[c] - paperHeld[c]) + ((liveNet[c] - n) - liveNet[c])
    BY <1>1, <2>1
  <2> QED
    BY <1>1, <2>2, <2>3, <2>4, MoveKept
<1> QED
  BY <1>2, <1>3, <1>4, <1>5, <1>6 DEF BotBuy, BotSell

LEMMA BotInitial == BotInit => BotInv
<1> SUFFICES ASSUME BotInit PROVE BotInv
  OBVIOUS
<1>1. BotTypes
  BY TradingAssumption DEF BotInit, BotTypes
<1>2. PositionsExplained
  BY DEF BotInit, PositionsExplained
<1> QED
  BY <1>1, <1>2 DEF BotInv

LEMMA ScanStepKept ==
    ASSUME BotInv, NEW c \in Watchlist, NEW p \in Prices,
           StopOut(c, p) \/ Analyse(c, p) \/ SaveInto(c, p)
    PROVE  BotInv'
<1>1. restored' = restored
  BY DEF StopOut, Analyse, SaveInto
<1>2. held[c] \in Int /\ p \in Nat \ {0} /\ DcaAmount \in Nat
  BY TradingAssumption DEF BotInv, BotTypes
<1>3. CASE StopOut(c, p)
  <2>1. NoTrade \/ BotSell(c, p, held[c])
    BY <1>3 DEF StopOut
  <2> QED
    BY <1>1, <1>2, <2>1, TradeKept
<1>4. CASE Analyse(c, p)
  <2>1. /\ (held[c] + 1) \div 2 \in Int
        /\ OrderSizes(c, p) \subseteq Int
    <3>1. (held[c] + 1) \div 2 \in Int
      BY <1>2
    <3>2. OrderSizes(c, p) \subseteq Nat
      BY DEF OrderSizes
    <3> QED
      BY <3>1, <3>2
  <2>2. \/ NoTrade
        \/ \E q \in OrderSizes(c, p) : BotBuy(c, p, q)
        \/ \E q \in {held[c], (held[c] + 1) \div 2} : BotSell(c, p, q)
    BY <1>4 DEF Analyse, ActOn
  <2>3. NoTrade \/ \E q \in Int : BotBuy(c, p, q) \/ BotSell(c, p, q)
    BY <1>2, <2>1, <2>2
  <2>4. 0 \in Int
    OBVIOUS
  <2> QED
    BY <1>1, <2>3, <2>4, TradeKept
<1>5. CASE SaveInto(c, p)
  <2>1. DcaAmount \div p \in Int
    BY <1>2
  <2>2. NoTrade \/ BotBuy(c, p, DcaAmount \div p)
    BY <1>5 DEF SaveInto
  <2> QED
    BY <1>1, <2>1, <2>2, TradeKept
<1> QED
  BY <1>3, <1>4, <1>5

LEMMA BotRestartKept == ASSUME BotInv, BotRestart PROVE BotInv'
<1>1. /\ held' = dbHeld /\ restored' = dbHeld /\ UNCHANGED dbHeld /\ botCash' = StartCash
      /\ paperHeld' = [c \in Watchlist |-> 0] /\ liveNet' = [c \in Watchlist |-> 0]
  BY DEF BotRestart
<1>2. dbHeld \in [Watchlist -> Int]
  BY DEF BotInv, BotTypes
<1>3. BotTypes'
  BY <1>1, <1>2, TradingAssumption DEF BotTypes
<1>4. ASSUME NEW c \in Watchlist PROVE held'[c] = restored'[c] + paperHeld'[c] + liveNet'[c]
  <2>1. dbHeld[c] \in Int
    BY <1>2
  <2>2. dbHeld[c] = dbHeld[c] + 0 + 0
    BY <2>1
  <2> QED
    BY <1>1, <2>2
<1> QED
  BY <1>3, <1>4 DEF BotInv, PositionsExplained

LEMMA BotKept == BotInv /\ [BotNext]_botVars => BotInv'
<1> SUFFICES ASSUME BotInv, [BotNext]_botVars PROVE BotInv'
  OBVIOUS
<1>1. CASE UNCHANGED <<botCash, paperHeld, held, dbHeld, botHistory>>
  BY <1>1 DEF BotInv, BotTypes, PositionsExplained, botHistory
<1>2. ASSUME \/ ScanBegin \/ Saving \/ Resume \/ DayPasses
             \/ \E c \in Watchlist : Skip(c) \/ AddSavings(c)
             \/ \E m \in BotModes : SetMode(m)
             \/ UNCHANGED botVars
      PROVE  UNCHANGED <<botCash, paperHeld, held, dbHeld, botHistory>>
  BY <1>2 DEF ScanBegin, Saving, Resume, DayPasses, Skip, AddSavings, SetMode,
              botVars, account, portfolio, botHistory
<1> QED
  BY <1>1, <1>2, ScanStepKept, BotRestartKept DEF BotNext

(* For any coins, prices, amounts and limits: in any mixture of modes, stop- *)
(* losses, savings schedules and restarts, what the portfolio holds is what  *)
(* it was restored with and what was traded since, on paper and live.        *)
THEOREM PositionsAddUp == BotSpec => []PositionsExplained
<1>1. BotSpec => []BotInv
  BY BotInitial, BotKept, PTL DEF BotSpec
<1>2. BotInv => PositionsExplained
  BY DEF BotInv
<1> QED
  BY <1>1, <1>2, PTL

-----------------------------------------------------------------------------
(* The knowledge gate                                                      *)

ReviewEntry == [id : Nat, fact : Claims]

GateInv ==
    /\ pendingReview \in Seq(ReviewEntry) /\ pendingFile \in Seq(Claims)
    /\ rejectedFile \in Seq(Claims) /\ nextPendingId \in Nat
    /\ PendingOnDisk

LEMMA FactsOfType ==
    ASSUME NEW s \in Seq(ReviewEntry)
    PROVE  FactsOf(s) \in Seq(Claims)
<1>1. Len(s) \in Nat /\ DOMAIN s = 1 .. Len(s) /\ \A i \in DOMAIN s : s[i] \in ReviewEntry
  BY LenProperties, ElementOfSeq
<1>2. \A i \in 1 .. Len(s) : s[i].fact \in Claims
  BY <1>1 DEF ReviewEntry
<1> QED
  BY <1>1, <1>2, IsASeq DEF FactsOf

LEMMA FactsOfAppend ==
    ASSUME NEW s \in Seq(ReviewEntry), NEW e \in ReviewEntry
    PROVE  FactsOf(Append(s, e)) = Append(FactsOf(s), e.fact)
<1> DEFINE a == Append(s, e)
           b == Append(FactsOf(s), e.fact)
<1>1. Len(s) \in Nat /\ DOMAIN s = 1 .. Len(s)
  BY LenProperties
<1>2. /\ a \in Seq(ReviewEntry) /\ Len(a) = Len(s) + 1 /\ a[Len(s) + 1] = e
      /\ \A i \in 1 .. Len(s) : a[i] = s[i]
  BY AppendProperties
<1>3. FactsOf(s) \in Seq(Claims) /\ e.fact \in Claims /\ Len(FactsOf(s)) = Len(s)
      /\ \A i \in 1 .. Len(s) : FactsOf(s)[i] = s[i].fact
  <2>1. FactsOf(s) \in Seq(Claims) /\ DOMAIN FactsOf(s) = 1 .. Len(s)
    BY <1>1, FactsOfType DEF FactsOf
  <2> QED
    BY <1>1, <2>1, LenProperties DEF FactsOf, ReviewEntry
<1>4. /\ b \in Seq(Claims) /\ Len(b) = Len(s) + 1 /\ b[Len(s) + 1] = e.fact
      /\ \A i \in 1 .. Len(s) : b[i] = s[i].fact
  BY <1>3, AppendProperties
<1>5. DOMAIN a = 1 .. Len(s) + 1 /\ DOMAIN b = 1 .. Len(s) + 1
  BY <1>2, <1>4, LenProperties
<1> HIDE DEF a, b
<1>6. FactsOf(a) = [i \in 1 .. Len(s) + 1 |-> a[i].fact]
  BY <1>5 DEF FactsOf
<1>7. \A i \in 1 .. Len(s) + 1 : a[i].fact = b[i]
  BY <1>1, <1>2, <1>4
<1>8. b = [i \in 1 .. Len(s) + 1 |-> b[i]]
  BY <1>4, <1>5
<1>9. FactsOf(a) = b
  BY <1>6, <1>7, <1>8
<1> QED
  BY <1>9 DEF a, b

LEMMA QuarantineKeeps ==
    ASSUME GateInv, NEW f \in Claims, NEW confidence, Quarantine(f, confidence),
           nextPendingId' = nextPendingId + 1
    PROVE  GateInv'
<1>1. CASE confidence < 200
  <2>1. rejectedFile' = Append(rejectedFile, f) /\ UNCHANGED <<pendingReview, pendingFile>>
    BY <1>1 DEF Quarantine
  <2>2. rejectedFile' \in Seq(Claims)
    BY <2>1, AppendProperties DEF GateInv
  <2> QED
    BY <2>1, <2>2 DEF GateInv, PendingOnDisk, FactsOf
<1>2. CASE ~(confidence < 200)
  <2> DEFINE e == [id |-> nextPendingId, fact |-> f]
  <2>1. /\ pendingReview' = Append(pendingReview, e) /\ pendingFile' = Append(pendingFile, f)
        /\ UNCHANGED rejectedFile
    BY <1>2 DEF Quarantine
  <2>2. e \in ReviewEntry /\ e.fact = f
    BY DEF ReviewEntry, GateInv
  <2> HIDE DEF e
  <2>3. pendingReview' \in Seq(ReviewEntry) /\ pendingFile' \in Seq(Claims)
    BY <2>1, <2>2, AppendProperties DEF GateInv
  <2>4. FactsOf(pendingReview') = pendingFile'
    BY <2>1, <2>2, FactsOfAppend DEF GateInv, PendingOnDisk
  <2> QED
    BY <2>1, <2>3, <2>4 DEF GateInv, PendingOnDisk
<1> QED
  BY <1>1, <1>2

LEMMA ValidateKeeps ==
    ASSUME GateInv, NEW f \in Claims, NEW p \in Providers, NEW given, Validate(f, p, given)
    PROVE  GateInv'
<1>1. nextPendingId' = nextPendingId + 1
  BY DEF Validate
<1>2. \/ \E c : Quarantine(f, c)
      \/ UNCHANGED <<pendingReview, pendingFile, rejectedFile>>
  <2> DEFINE level     == IF given > 0 THEN given ELSE trust[p].level
             refuted   == Contradicts(f)
             illogical == Inconsistent(f)
             score     == Confidence(f, level, sourceAgreement[f] + 1, badAnswers[f])
             refusal   == IF refuted THEN (IF level >= 900 THEN 400 ELSE 100)
                          ELSE (IF level >= 800 THEN (4 * level) \div 10 ELSE 100)
  <2>1. \/ Quarantine(f, refusal)
        \/ IF score >= 500 THEN UNCHANGED <<pendingReview, pendingFile, rejectedFile>>
           ELSE Quarantine(f, score)
    BY Zenon DEF Validate
  <2> HIDE DEF refusal, score
  <2> QED
    BY <2>1
<1>3. CASE UNCHANGED <<pendingReview, pendingFile, rejectedFile>>
  BY <1>1, <1>3 DEF GateInv, PendingOnDisk, FactsOf
<1> QED
  BY <1>1, <1>2, <1>3, QuarantineKeeps

LEMMA PromotedKeeps ==
    ASSUME GateInv, NEW ids, Promoted(ids), UNCHANGED <<rejectedFile, nextPendingId>>
    PROVE  GateInv'
<1>1. Others(ids) \in SUBSET DOMAIN pendingReview
  BY DEF Others
<1>2. pendingReview' \in Seq(ReviewEntry) /\ pendingFile' = FactsOf(pendingReview')
  BY <1>1, PickedProperties DEF Promoted, GateInv
<1>3. pendingFile' \in Seq(Claims)
  BY <1>2, FactsOfType
<1> QED
  BY <1>2, <1>3 DEF GateInv, PendingOnDisk

LEMMA GateRestartKeeps ==
    ASSUME GateInv, GateRestart
    PROVE  GateInv'
<1> DEFINE n == Len(pendingFile)
<1>1. /\ pendingReview' = [i \in DOMAIN pendingFile |-> [id |-> i, fact |-> pendingFile[i]]]
      /\ nextPendingId' = n + 1 /\ UNCHANGED <<pendingFile, rejectedFile>>
  BY DEF GateRestart
<1>2. /\ n \in Nat /\ DOMAIN pendingFile = 1 .. n /\ \A i \in 1 .. n : pendingFile[i] \in Claims
      /\ pendingFile = [i \in 1 .. n |-> pendingFile[i]]
  BY LenProperties, ElementOfSeq DEF GateInv
<1>3. \A i \in 1 .. n : [id |-> i, fact |-> pendingFile[i]] \in ReviewEntry
  BY <1>2 DEF ReviewEntry
<1>4. pendingReview' \in Seq(ReviewEntry)
  BY <1>1, <1>2, <1>3, IsASeq
<1>5. FactsOf(pendingReview') = pendingFile
  BY <1>1, <1>2 DEF FactsOf
<1> QED
  BY <1>1, <1>2, <1>4, <1>5 DEF GateInv, PendingOnDisk

LEMMA GateKept == GateInv /\ [GateNext]_gateVars => GateInv'
<1> SUFFICES ASSUME GateInv, [GateNext]_gateVars PROVE GateInv'
  OBVIOUS
<1>1. CASE \E f \in Claims, p \in Providers, given \in {0, 400} : Validate(f, p, given)
  BY <1>1, ValidateKeeps
<1>2. CASE AutoPromoteCheck \/ \E f \in Claims : Promote(f)
  BY <1>2, PromotedKeeps DEF AutoPromoteCheck, Promote
<1>3. CASE GateRestart
  BY <1>3, GateRestartKeeps
<1>4. CASE LearnApproved \/ (\E f \in Claims : ReportBadAnswer(f)) \/ UNCHANGED gateVars
  <2>1. UNCHANGED <<pendingReview, pendingFile, rejectedFile, nextPendingId>>
    BY <1>4 DEF LearnApproved, ReportBadAnswer, gateVars, gateState
  <2> QED
    BY <2>1 DEF GateInv, PendingOnDisk, FactsOf
<1> QED
  BY <1>1, <1>2, <1>3, <1>4 DEF GateNext

(* For any facts, sources and trust: what is held back in memory is what the *)
(* file of pending facts holds, in its order, over verdicts, promotions and  *)
(* restarts (quarantineFact, promote, autoPromoteCheck, loadPendingReview).  *)
THEOREM HeldBackOnDisk == GateSpec => []PendingOnDisk
<1>1. GateInit => GateInv
  BY DEF GateInit, GateInv, PendingOnDisk, FactsOf
<1>2. GateInv => PendingOnDisk
  BY DEF GateInv
<1> QED
  BY <1>1, <1>2, GateKept, PTL DEF GateSpec

-----------------------------------------------------------------------------
(* The files of facts                                                      *)

FileLines == Seq(Lines \cup {Noise})
SyncStage == {"idle", "pulled", "opened", "merging", "pushing", "read", "looked"}
SyncState == [at : SyncStage, auto : BOOLEAN, text : FileLines, sha : FileLines]
Passes    == {"compact", "verify"}
TidyState == {NoTidy} \cup [at : {"read", "opened", "done"}, pass : Passes, text : FileLines]

FilesType ==
    /\ factsFile \in [Hosts -> FileLines] /\ remote \in FileLines
    /\ sync \in [Hosts -> SyncState] /\ tidy \in [Hosts -> TidyState]

(* The facts of a line that a pass does not take for a broken one. *)
Sound(pass, lines) == KnownIn(lines) \ (IF pass = "verify" THEN Broken ELSE {})

FileKept(h) ==
    \/ Present(h) \subseteq Present(h)'
    \/ sync[h].at \in {"pulled", "opened"} /\ sync'[h] # sync[h]
    \/ tidy[h].at = "opened" /\ tidy'[h] = NoTidy
    \/ /\ tidy[h].at \in {"read", "opened"} /\ tidy'[h] # tidy[h]
       /\ Sound(tidy[h].pass, tidy[h].text) \subseteq Present(h)'

(* Nothing is on a list of no lines. *)
LEMMA EmptyLines == <<>> \in FileLines /\ <<Noise>> \in FileLines
<1>1. <<>> \in FileLines
  BY EmptySeq DEF FileLines
<1>2. <<Noise>> = Append(<<>>, Noise)
  OBVIOUS
<1>3. Append(<<>>, Noise) \in FileLines
  BY <1>1, AppendProperties DEF FileLines
<1> QED
  BY <1>1, <1>2, <1>3

LEMMA LinesOf ==
    ASSUME NEW s \in FileLines
    PROVE  /\ Len(s) \in Nat /\ DOMAIN s = 1 .. Len(s)
           /\ \A i \in DOMAIN s : s[i] \in Lines \cup {Noise}
  BY LenProperties, ElementOfSeq DEF FileLines

LEMMA PartOfLines ==
    ASSUME NEW s \in FileLines, NEW m \in Nat \ {0}, NEW n \in Nat, n <= Len(s)
    PROVE  SubSeq(s, m, n) \in FileLines
<1>1. \A i \in m .. n : s[i] \in Lines \cup {Noise}
  BY LinesOf
<1> QED
  BY <1>1, SubSeqProperties DEF FileLines

LEMMA ConcatKeepsKnown ==
    ASSUME NEW s \in FileLines, NEW t \in FileLines
    PROVE  s \o t \in FileLines /\ KnownIn(s) \subseteq KnownIn(s \o t)
<1>1. /\ s \o t \in FileLines /\ Len(s \o t) = Len(s) + Len(t)
      /\ \A i \in 1 .. Len(s) : (s \o t)[i] = s[i]
  BY ConcatProperties DEF FileLines
<1>2. /\ DOMAIN s = 1 .. Len(s) /\ DOMAIN (s \o t) = 1 .. Len(s \o t)
      /\ Len(s) \in Nat /\ Len(t) \in Nat
  BY <1>1, LinesOf
<1> QED
  BY <1>1, <1>2 DEF KnownIn, ToSet

(* What is appended, whole or joined to noise, takes nothing away. *)
LEMMA AppendedKeepsKnown ==
    ASSUME NEW s \in FileLines, NEW t \in FileLines, NEW u \in Appended(s, t)
    PROVE  u \in FileLines /\ KnownIn(s) \subseteq KnownIn(u)
<1>1. CASE u = s \o t
  BY <1>1, ConcatKeepsKnown
<1>2. CASE t # <<>> /\ u = s \o Tail(t)
  <2>1. Tail(t) \in FileLines
    BY <1>2, HeadTailProperties DEF FileLines
  <2> QED
    BY <1>2, <2>1, ConcatKeepsKnown
<1> QED
  BY <1>1, <1>2 DEF Appended

(* What is written over a file is in it, whatever stays behind it. *)
LEMMA OverKeepsKnown ==
    ASSUME NEW s \in FileLines, NEW t \in FileLines, NEW u \in Over(s, t)
    PROVE  u \in FileLines /\ KnownIn(s) \subseteq KnownIn(u)
<1>1. CASE s = <<>>
  <2>1. u = t
    BY <1>1 DEF Over
  <2>2. KnownIn(s) = {}
    BY <1>1 DEF KnownIn, ToSet
  <2> QED
    BY <2>1, <2>2
<1>2. CASE u = s
  BY <1>2
<1> DEFINE beyond == {SubSeq(t, k, Len(t)) : k \in 2 .. Len(t) + 1}
<1>3. ASSUME NEW rest \in beyond, NEW a \in FileLines, KnownIn(s) \subseteq KnownIn(a), u = a \o rest
      PROVE  u \in FileLines /\ KnownIn(s) \subseteq KnownIn(u)
  <2>1. PICK k \in 2 .. Len(t) + 1 : rest = SubSeq(t, k, Len(t))
    BY <1>3
  <2>2. Len(t) \in Nat
    BY LinesOf
  <2>3. rest \in FileLines
    BY <2>1, <2>2, PartOfLines
  <2>4. a \o rest \in FileLines /\ KnownIn(a) \subseteq KnownIn(a \o rest)
    BY <1>3, <2>3, ConcatKeepsKnown
  <2> QED
    BY <1>3, <2>4
<1>4. CASE s # <<>>
  <2>1. s \o <<Noise>> \in FileLines /\ KnownIn(s) \subseteq KnownIn(s \o <<Noise>>)
    BY EmptyLines, ConcatKeepsKnown
  <2>2. Over(s, t) = {s} \cup {s \o rest : rest \in beyond} \cup {s \o <<Noise>> \o rest : rest \in beyond}
    BY <1>4 DEF Over
  <2> HIDE DEF beyond
  <2>3. CASE \E rest \in beyond : u = s \o rest
    BY <1>3, <2>3
  <2>4. CASE \E rest \in beyond : u = s \o <<Noise>> \o rest
    BY <1>3, <2>1, <2>4
  <2> QED
    BY <1>2, <2>2, <2>3, <2>4
<1> QED
  BY <1>1, <1>4

LEMMA TornLines ==
    ASSUME NEW s \in FileLines, NEW t \in Torn(s)
    PROVE  t \in FileLines
<1>1. CASE t = s
  BY <1>1
<1>2. ASSUME NEW cut \in {<<>>, <<Noise>>}, NEW n \in 0 .. Len(s) - 1,
             t = SubSeq(s, 1, n) \o cut
      PROVE  t \in FileLines
  <2>1. cut \in FileLines /\ Len(s) \in Nat
    BY EmptyLines, LinesOf
  <2>2. SubSeq(s, 1, n) \in FileLines
    BY <2>1, PartOfLines
  <2> QED
    BY <1>2, <2>1, <2>2, ConcatKeepsKnown
<1> QED
  BY <1>1, <1>2 DEF Torn

(* What a download was decoded to is lines again. *)
LEMMA DecodedLines ==
    ASSUME NEW s \in FileLines, NEW t \in Decoded(s)
    PROVE  t \in FileLines
<1>1. t \in [1 .. Len(s) -> Lines \cup {Noise}] /\ Len(s) \in Nat
  BY LinesOf DEF Decoded
<1>2. t = [i \in 1 .. Len(s) |-> t[i]] /\ \A i \in 1 .. Len(s) : t[i] \in Lines \cup {Noise}
  BY <1>1
<1>3. [i \in 1 .. Len(s) |-> t[i]] \in FileLines
  BY <1>1, <1>2, IsASeq DEF FileLines
<1> QED
  BY <1>2, <1>3

(* A line that has a place among those picked is in what was picked. *)
LEMMA PickedLines ==
    ASSUME NEW s \in FileLines, NEW I \in SUBSET DOMAIN s
    PROVE  Picked(s, I) \in FileLines /\ \A i \in I : s[i] \in ToSet(Picked(s, I))
<1>1. s \in Seq(Lines \cup {Noise})
  BY DEF FileLines
<1>2. /\ Picked(s, I) \in Seq(Lines \cup {Noise})
      /\ \A m \in I : \E i \in DOMAIN Picked(s, I) : Picked(s, I)[i] = s[m]
  BY <1>1, PickedElements
<1> QED
  BY <1>2 DEF FileLines, ToSet

(* The first of every kind stays. *)
LEMMA FirstsKept ==
    ASSUME NEW s \in FileLines
    PROVE  FirstOfKind(s) \in FileLines /\ ToSet(s) \subseteq ToSet(FirstOfKind(s))
<1> DEFINE I == {i \in DOMAIN s : \A j \in 1 .. i - 1 : s[j] # s[i]}
<1>1. Picked(s, I) \in FileLines /\ \A i \in I : s[i] \in ToSet(Picked(s, I))
  BY PickedLines
<1>2. ASSUME NEW l \in ToSet(s) PROVE \E i \in I : s[i] = l
  <2> DEFINE P == {i \in DOMAIN s : s[i] = l}
  <2>1. P \in SUBSET Nat /\ P # {} /\ DOMAIN s = 1 .. Len(s) /\ Len(s) \in Nat
    BY LinesOf DEF ToSet
  <2>2. PICK i \in P : \A j \in P : i <= j
    <3> HIDE DEF P
    <3> QED
      BY <2>1, LeastOf
  <2>3. i \in DOMAIN s /\ s[i] = l /\ i \in Nat
    BY <2>1, <2>2
  <2>4. ASSUME NEW j \in 1 .. i - 1 PROVE s[j] # s[i]
    <3>1. j \in DOMAIN s /\ ~(i <= j)
      BY <2>1, <2>3
    <3> QED
      BY <2>2, <2>3, <3>1
  <2> QED
    BY <2>3, <2>4
<1> HIDE DEF I
<1>3. ToSet(s) \subseteq ToSet(Picked(s, I))
  BY <1>1, <1>2
<1> QED
  BY <1>1, <1>3 DEF FirstOfKind, I

(* No sound fact goes when the doubles or the broken lines do. *)
LEMMA CleanedKeepsSound ==
    ASSUME NEW pass \in Passes, NEW s \in FileLines
    PROVE  Cleaned(pass, s) \in FileLines /\ Sound(pass, s) \subseteq KnownIn(Cleaned(pass, s))
<1>1. CASE pass = "compact"
  BY <1>1, FirstsKept DEF Cleaned, KnownIn, Sound
<1>2. CASE pass = "verify"
  <2> DEFINE I == {i \in DOMAIN s : s[i] \in Lines \ Broken}
  <2>1. Picked(s, I) \in FileLines /\ \A i \in I : s[i] \in ToSet(Picked(s, I))
    BY PickedLines
  <2>2. \A i \in DOMAIN s : s[i] \in Lines \cup {Noise}
    BY LinesOf
  <2>3. KnownIn(s) \ Broken \subseteq KnownIn(Picked(s, I))
    BY <2>1, <2>2 DEF KnownIn, ToSet
  <2>4. Cleaned(pass, s) = Picked(s, I)
    BY <1>2 DEF Cleaned
  <2> QED
    BY <1>2, <2>1, <2>3, <2>4 DEF Sound
<1> QED
  BY <1>1, <1>2 DEF Passes

LEMMA GoesOfType ==
    ASSUME FilesType, NEW h \in Hosts, NEW at \in SyncStage
    PROVE  Goes(h, at) \in SyncState /\ Goes(h, at).at = at
<1>1. sync[h].auto \in BOOLEAN
  BY DEF FilesType, SyncState
<1>2. Goes(h, at) \in SyncState
  BY <1>1, EmptyLines DEF Goes, NoSync, SyncState, SyncStage
<1>3. Goes(h, at).at = at
  BY DEF Goes, NoSync
<1> QED
  BY <1>2, <1>3

LEMMA WithText ==
    ASSUME NEW r \in SyncState, NEW t \in FileLines
    PROVE  [r EXCEPT !.text = t] \in SyncState /\ [r EXCEPT !.text = t].at = r.at
  BY DEF SyncState

LEMMA IdleStates == NoSync \in SyncState /\ NoSync.at = "idle" /\ NoTidy \in TidyState
  BY EmptyLines DEF NoSync, TidyState, SyncState, SyncStage

(* A file, an mk_sync and a maintenance of h that are what they are, or next. *)
PresentIn(s, r, q) ==
    KnownIn(s)
    \cup (IF r.at = "opened" THEN KnownIn(r.text) ELSE {})
    \cup (IF q.at = "opened" THEN KnownIn(Cleaned(q.pass, q.text)) ELSE {})

Explained(h, s, r, q) ==
    \/ Present(h) \subseteq PresentIn(s, r, q)
    \/ sync[h].at \in {"pulled", "opened"} /\ r # sync[h]
    \/ tidy[h].at = "opened" /\ q = NoTidy
    \/ /\ tidy[h].at \in {"read", "opened"} /\ q # tidy[h]
       /\ Sound(tidy[h].pass, tidy[h].text) \subseteq PresentIn(s, r, q)

FileStep == FilesType' /\ \A g \in Hosts : FileKept(g)

(* A step of the programs of one device, and what they may lose. *)
LEMMA StepOf ==
    ASSUME FilesType, NEW h \in Hosts,
           NEW s \in FileLines, NEW r \in SyncState, NEW q \in TidyState,
           factsFile' = [factsFile EXCEPT ![h] = s], sync' = [sync EXCEPT ![h] = r],
           tidy' = [tidy EXCEPT ![h] = q], remote' \in FileLines,
           Explained(h, s, r, q)
    PROVE  FileStep
<1>1. FilesType'
  BY DEF FilesType
<1>2. factsFile'[h] = s /\ sync'[h] = r /\ tidy'[h] = q
  BY DEF FilesType
<1>3. Present(h)' = PresentIn(s, r, q)
  BY <1>2 DEF Present, PresentIn
<1>4. FileKept(h)
  BY <1>2, <1>3 DEF Explained, FileKept
<1>5. ASSUME NEW g \in Hosts \ {h} PROVE FileKept(g)
  <2>1. factsFile'[g] = factsFile[g] /\ sync'[g] = sync[g] /\ tidy'[g] = tidy[g]
    BY DEF FilesType
  <2>2. Present(g)' = Present(g)
    BY <2>1 DEF Present
  <2> QED
    BY <2>2 DEF FileKept
<1> QED
  BY <1>1, <1>4, <1>5 DEF FileStep

LEMMA AsItIs ==
    ASSUME FilesType, NEW h \in Hosts
    PROVE  /\ factsFile[h] \in FileLines /\ sync[h] \in SyncState /\ tidy[h] \in TidyState
           /\ remote \in FileLines /\ sync[h].text \in FileLines
           /\ (UNCHANGED factsFile => factsFile' = [factsFile EXCEPT ![h] = factsFile[h]])
           /\ (UNCHANGED sync => sync' = [sync EXCEPT ![h] = sync[h]])
           /\ (UNCHANGED tidy => tidy' = [tidy EXCEPT ![h] = tidy[h]])
  BY DEF FilesType, SyncState

(* What leaves the file as long as it is, or makes it longer, loses nothing. *)
LEMMA OnlySync ==
    ASSUME FilesType, NEW h \in Hosts, NEW r \in SyncState, NEW s \in FileLines,
           KnownIn(factsFile[h]) \subseteq KnownIn(s), sync[h].at # "opened" \/ r = sync[h],
           factsFile' = [factsFile EXCEPT ![h] = s], sync' = [sync EXCEPT ![h] = r],
           UNCHANGED tidy, remote' \in FileLines
    PROVE  FileStep
<1>1. tidy[h] \in TidyState /\ tidy' = [tidy EXCEPT ![h] = tidy[h]]
  BY AsItIs
<1>2. Present(h) \subseteq PresentIn(s, r, tidy[h])
  BY DEF Present, PresentIn
<1>3. Explained(h, s, r, tidy[h])
  BY <1>2 DEF Explained
<1> QED
  BY <1>1, <1>3, StepOf

LEMMA ExtendsTo ==
    ASSUME FilesType, NEW h \in Hosts, NEW t \in FileLines, Extends(h, t)
    PROVE  \E s \in FileLines : /\ factsFile' = [factsFile EXCEPT ![h] = s]
                                /\ KnownIn(factsFile[h]) \subseteq KnownIn(s)
<1>1. PICK s \in Appended(factsFile[h], t) : factsFile' = [factsFile EXCEPT ![h] = s]
  BY DEF Extends
<1>2. factsFile[h] \in FileLines
  BY AsItIs
<1>3. s \in FileLines /\ KnownIn(factsFile[h]) \subseteq KnownIn(s)
  BY <1>1, <1>2, AppendedKeepsKnown
<1> QED
  BY <1>1, <1>3

LEMMA LeftLines ==
    ASSUME FilesType, NEW h \in Hosts, NEW T \in SUBSET FileLines, Left(h, T)
    PROVE  \E s \in FileLines : /\ factsFile' = [factsFile EXCEPT ![h] = s]
                                /\ \E t \in T : KnownIn(t) \subseteq KnownIn(s)
<1> DEFINE U == {Over(t, factsFile[h]) : t \in T}
<1>0. PICK s \in UNION U : factsFile' = [factsFile EXCEPT ![h] = s]
  BY DEF Left
<1>1. PICK t \in T : s \in Over(t, factsFile[h])
  OBVIOUS
<1>2. factsFile[h] \in FileLines /\ t \in FileLines
  BY AsItIs
<1>3. s \in FileLines /\ KnownIn(t) \subseteq KnownIn(s)
  BY <1>1, <1>2, OverKeepsKnown
<1> QED
  BY <1>0, <1>3

LEMMA TaughtKeeps ==
    ASSUME FilesType, NEW h \in Hosts, NEW l \in Lines, Taught(h, l) \/ PushFact(h, l)
    PROVE  FileStep
<1>1. <<l>> \in FileLines
  <2>1. Append(<<>>, l) \in FileLines
    BY EmptyLines, AppendProperties DEF FileLines
  <2>2. Append(<<>>, l) = <<l>>
    OBVIOUS
  <2> QED
    BY <2>1, <2>2
<1>2. Extends(h, <<l>>) /\ UNCHANGED <<remote, tidy>>
  BY DEF Taught, PushFact
<1>3. PICK s \in FileLines : /\ factsFile' = [factsFile EXCEPT ![h] = s]
                             /\ KnownIn(factsFile[h]) \subseteq KnownIn(s)
  BY <1>1, <1>2, ExtendsTo
<1>4. remote' \in FileLines
  BY <1>2, AsItIs
<1>5. \E r \in SyncState : sync' = [sync EXCEPT ![h] = r] /\ (sync[h].at # "opened" \/ r = sync[h])
  <2>1. CASE Taught(h, l)
    BY <2>1, AsItIs DEF Taught
  <2>2. CASE PushFact(h, l)
    <3>1. Goes(h, "pushing") \in SyncState
      BY GoesOfType DEF SyncStage
    <3> QED
      BY <2>2, <3>1 DEF PushFact, Idle
  <2> QED
    BY <2>1, <2>2
<1> QED
  BY <1>2, <1>3, <1>4, <1>5, OnlySync

LEMMA PullKeeps ==
    ASSUME FilesType, NEW h \in Hosts, AutoSync(h) \/ Pull(h) \/ SmartMerge(h)
    PROVE  FileStep
<1>1. /\ UNCHANGED <<factsFile, remote, tidy>> /\ remote' \in FileLines
      /\ remote \in FileLines /\ sync[h] \in SyncState /\ factsFile[h] \in FileLines
      /\ factsFile' = [factsFile EXCEPT ![h] = factsFile[h]]
  BY AsItIs DEF AutoSync, Pull, SmartMerge
<1>2. sync[h].at # "opened"
  BY DEF AutoSync, Pull, SmartMerge, Idle, InPull
<1>3. \E r \in SyncState : sync' = [sync EXCEPT ![h] = r]
  <2>1. CASE AutoSync(h)
    <3> DEFINE r == [sync[h] EXCEPT !.auto = TRUE]
    <3>1. r \in SyncState
      BY <1>1 DEF SyncState
    <3>2. sync' = [sync EXCEPT ![h] = r]
      BY <2>1 DEF AutoSync
    <3> HIDE DEF r
    <3> QED
      BY <3>1, <3>2
  <2>2. CASE Pull(h)
    <3>1. CASE \E t \in Decoded(remote) :
                   sync' = [sync EXCEPT ![h] = [Goes(h, "pulled") EXCEPT !.text = t]]
      <4>1. PICK t \in Decoded(remote) :
                   sync' = [sync EXCEPT ![h] = [Goes(h, "pulled") EXCEPT !.text = t]]
        BY <3>1
      <4>2. t \in FileLines
        BY <1>1, DecodedLines
      <4>3. Goes(h, "pulled") \in SyncState
        BY GoesOfType DEF SyncStage
      <4>4. [Goes(h, "pulled") EXCEPT !.text = t] \in SyncState
        BY <4>2, <4>3, WithText
      <4> QED
        BY <4>1, <4>4
    <3>2. CASE sync' = [sync EXCEPT ![h] = AfterPull(h)]
      <4>1. AfterPull(h) \in SyncState
        BY GoesOfType DEF AfterPull, SyncStage
      <4> QED
        BY <3>2, <4>1
    <3> QED
      BY <2>2, <3>1, <3>2 DEF Pull
  <2>3. CASE SmartMerge(h)
    <3>1. PICK t \in Decoded(remote) :
            sync' = [sync EXCEPT ![h] = [Goes(h, "merging") EXCEPT
                       !.text = Picked(t, {i \in DOMAIN t : t[i] \in KnownIn(t) \ KnownIn(factsFile[h])})]]
      BY <2>3 DEF SmartMerge
    <3>2. t \in FileLines
      BY <1>1, DecodedLines
    <3> DEFINE I == {i \in DOMAIN t : t[i] \in KnownIn(t) \ KnownIn(factsFile[h])}
               r == [Goes(h, "merging") EXCEPT !.text = Picked(t, I)]
    <3>3. Picked(t, I) \in FileLines
      BY <3>2, PickedLines
    <3>4. Goes(h, "merging") \in SyncState
      BY GoesOfType DEF SyncStage
    <3>5. r \in SyncState
      BY <3>3, <3>4, WithText
    <3>6. sync' = [sync EXCEPT ![h] = r]
      BY <3>1
    <3> HIDE DEF r
    <3> QED
      BY <3>5, <3>6
  <2> QED
    BY <2>1, <2>2, <2>3
<1> QED
  BY <1>1, <1>2, <1>3, OnlySync

(* A download may take any fact with it. *)
LEMMA DownloadKeeps ==
    ASSUME FilesType, NEW h \in Hosts, OpenLocalFile(h) \/ WriteLocalFile(h)
    PROVE  FileStep
<1>1. /\ UNCHANGED <<remote, tidy>> /\ remote' \in FileLines /\ sync[h] \in SyncState
      /\ sync[h].text \in FileLines
      /\ tidy[h] \in TidyState /\ tidy' = [tidy EXCEPT ![h] = tidy[h]]
      /\ sync[h].at \in {"pulled", "opened"}
  BY AsItIs DEF OpenLocalFile, WriteLocalFile
<1>2. \E s \in FileLines : factsFile' = [factsFile EXCEPT ![h] = s]
  <2>1. CASE OpenLocalFile(h)
    BY <2>1, EmptyLines DEF OpenLocalFile
  <2>2. CASE WriteLocalFile(h)
    <3>1. Left(h, {sync[h].text}) /\ {sync[h].text} \in SUBSET FileLines
      BY <1>1, <2>2 DEF WriteLocalFile
    <3> QED
      BY <3>1, LeftLines
  <2> QED
    BY <2>1, <2>2
<1>3. \E r \in SyncState : sync' = [sync EXCEPT ![h] = r] /\ r # sync[h]
  <2>1. CASE OpenLocalFile(h)
    <3> DEFINE r == [sync[h] EXCEPT !.at = "opened"]
    <3>1. r \in SyncState /\ r.at = "opened"
      BY <1>1 DEF SyncState, SyncStage
    <3>2. sync' = [sync EXCEPT ![h] = r] /\ sync[h].at = "pulled"
      BY <2>1 DEF OpenLocalFile
    <3> HIDE DEF r
    <3>3. r # sync[h]
      BY <3>1, <3>2
    <3> QED
      BY <3>1, <3>2, <3>3
  <2>2. CASE WriteLocalFile(h)
    <3>1. AfterPull(h) \in SyncState /\ AfterPull(h).at \in {"pushing", "idle"}
      BY GoesOfType DEF AfterPull, SyncStage
    <3>2. sync' = [sync EXCEPT ![h] = AfterPull(h)] /\ sync[h].at = "opened"
      BY <2>2 DEF WriteLocalFile
    <3>3. AfterPull(h) # sync[h]
      BY <3>1, <3>2
    <3> QED
      BY <3>1, <3>2, <3>3
  <2> QED
    BY <2>1, <2>2
<1>4. PICK s \in FileLines, r \in SyncState :
        /\ factsFile' = [factsFile EXCEPT ![h] = s]
        /\ sync' = [sync EXCEPT ![h] = r] /\ r # sync[h]
  BY <1>2, <1>3
<1>5. Explained(h, s, r, tidy[h])
  BY <1>1, <1>4 DEF Explained
<1> QED
  BY <1>1, <1>4, <1>5, StepOf

LEMMA AppendMergedKeeps ==
    ASSUME FilesType, NEW h \in Hosts, AppendMerged(h)
    PROVE  FileStep
<1>1. /\ Extends(h, sync[h].text) /\ sync[h].text \in FileLines /\ sync[h].at = "merging"
      /\ remote' \in FileLines /\ UNCHANGED tidy /\ sync' = [sync EXCEPT ![h] = NoSync]
  BY AsItIs DEF AppendMerged
<1>2. \E s \in FileLines : /\ factsFile' = [factsFile EXCEPT ![h] = s]
                           /\ KnownIn(factsFile[h]) \subseteq KnownIn(s)
  BY <1>1, ExtendsTo
<1>3. NoSync \in SyncState /\ sync[h].at # "opened"
  BY <1>1, IdleStates
<1> QED
  BY <1>1, <1>2, <1>3, OnlySync

LEMMA KilledKeeps ==
    ASSUME FilesType, NEW h \in Hosts, Killed(h)
    PROVE  FileStep
<1>1. /\ sync[h].text \in FileLines /\ NoSync \in SyncState /\ NoSync.at = "idle"
      /\ remote' \in FileLines /\ UNCHANGED tidy /\ sync' = [sync EXCEPT ![h] = NoSync]
  BY AsItIs, IdleStates DEF Killed
<1>2. CASE sync[h].at = "opened" /\ Left(h, Torn(sync[h].text))
  <2>1. Torn(sync[h].text) \in SUBSET FileLines
    BY <1>1, TornLines
  <2>2. PICK s \in FileLines : factsFile' = [factsFile EXCEPT ![h] = s]
    BY <1>2, <2>1, LeftLines
  <2>3. tidy[h] \in TidyState /\ tidy' = [tidy EXCEPT ![h] = tidy[h]]
    BY <1>1, AsItIs
  <2>4. Explained(h, s, NoSync, tidy[h])
    BY <1>1, <1>2 DEF Explained
  <2> QED
    BY <1>1, <2>2, <2>3, <2>4, StepOf
<1>3. CASE sync[h].at = "merging" /\ \E t \in Torn(sync[h].text) : Extends(h, t)
  <2>1. PICK t \in Torn(sync[h].text) : Extends(h, t)
    BY <1>3
  <2>2. t \in FileLines
    BY <1>1, TornLines
  <2>3. \E s \in FileLines : /\ factsFile' = [factsFile EXCEPT ![h] = s]
                             /\ KnownIn(factsFile[h]) \subseteq KnownIn(s)
    BY <2>1, <2>2, ExtendsTo
  <2> QED
    BY <1>1, <1>3, <2>3, OnlySync
<1>4. CASE sync[h].at \notin {"opened", "merging"} /\ UNCHANGED factsFile
  <2>1. factsFile[h] \in FileLines /\ factsFile' = [factsFile EXCEPT ![h] = factsFile[h]]
    BY <1>4, AsItIs
  <2> QED
    BY <1>1, <1>4, <2>1, OnlySync
<1> QED
  BY <1>2, <1>3, <1>4 DEF Killed

LEMMA PushKeeps ==
    ASSUME FilesType, NEW h \in Hosts, PushRead(h) \/ PushLook(h) \/ PushPut(h)
    PROVE  FileStep
<1>1. /\ UNCHANGED <<factsFile, tidy>> /\ remote \in FileLines /\ factsFile[h] \in FileLines
      /\ sync[h] \in SyncState /\ sync[h].text \in FileLines
      /\ factsFile' = [factsFile EXCEPT ![h] = factsFile[h]]
  BY AsItIs DEF PushRead, PushLook, PushPut
<1>2. remote' \in FileLines /\ sync[h].at # "opened"
  BY <1>1 DEF PushRead, PushLook, PushPut, Idle
<1>3. Goes(h, "idle") \in SyncState /\ Goes(h, "read") \in SyncState
  BY GoesOfType DEF SyncStage
<1>4. \E r \in SyncState : sync' = [sync EXCEPT ![h] = r]
  <2>1. CASE PushRead(h)
    <3>1. [Goes(h, "read") EXCEPT !.text = factsFile[h]] \in SyncState
      BY <1>1, <1>3, WithText
    <3> QED
      BY <1>3, <2>1, <3>1 DEF PushRead
  <2>2. CASE PushLook(h)
    <3>1. PICK sha \in {remote, <<>>} : sync' = [sync EXCEPT ![h].at = "looked", ![h].sha = sha]
      BY <2>2 DEF PushLook
    <3> DEFINE r == [sync[h] EXCEPT !.at = "looked", !.sha = sha]
    <3>2. sha \in FileLines
      BY <1>1, EmptyLines
    <3>3. r \in SyncState
      BY <1>1, <3>2 DEF SyncState, SyncStage
    <3>4. sync' = [sync EXCEPT ![h] = r]
      BY <3>1 DEF FilesType
    <3> HIDE DEF r
    <3> QED
      BY <3>3, <3>4
  <2>3. CASE PushPut(h)
    BY <1>3, <2>3 DEF PushPut
  <2> QED
    BY <2>1, <2>2, <2>3
<1> QED
  BY <1>1, <1>2, <1>4, OnlySync

LEMMA TidyFields ==
    ASSUME NEW q \in TidyState, q.at # "idle"
    PROVE  /\ q.pass \in Passes /\ q.text \in FileLines
           /\ Cleaned(q.pass, q.text) \in FileLines
           /\ Sound(q.pass, q.text) \subseteq KnownIn(Cleaned(q.pass, q.text))
<1>1. q.pass \in Passes /\ q.text \in FileLines
  BY DEF TidyState, NoTidy
<1> QED
  BY <1>1, CleanedKeepsSound

LEMMA PassDoneIs ==
    ASSUME NEW pass \in Passes
    PROVE  PassDone(pass) \in TidyState /\ PassDone(pass).at = "done"
  BY EmptyLines DEF PassDone, TidyState

(* Reading for a pass, and an end when nothing is open, lose nothing. *)
LEMMA ReadForTidyKeeps ==
    ASSUME FilesType, NEW h \in Hosts, Compact(h) \/ Verify(h)
    PROVE  FileStep
<1>1. /\ remote' \in FileLines /\ factsFile[h] \in FileLines /\ sync[h] \in SyncState
      /\ factsFile' = [factsFile EXCEPT ![h] = factsFile[h]]
      /\ sync' = [sync EXCEPT ![h] = sync[h]] /\ tidy[h].at # "opened"
  BY AsItIs DEF Compact, Verify
<1>2. PICK pass \in Passes : Reads(h, pass)
  BY DEF Compact, Verify, Passes
<1>3. \E q \in TidyState : tidy' = [tidy EXCEPT ![h] = q]
  BY <1>1, <1>2, PassDoneIs DEF Reads, TidyState
<1>4. PICK q \in TidyState : tidy' = [tidy EXCEPT ![h] = q]
  BY <1>3
<1>5. Explained(h, factsFile[h], sync[h], q)
  BY <1>1 DEF Explained, Present, PresentIn
<1> QED
  BY <1>1, <1>4, <1>5, StepOf

(* What a pass has read and takes for sound comes back. *)
LEMMA RewriteKeeps ==
    ASSUME FilesType, NEW h \in Hosts, OpenRewrite(h) \/ WriteBack(h)
    PROVE  FileStep
<1>1. /\ remote' \in FileLines /\ sync[h] \in SyncState /\ tidy[h] \in TidyState
      /\ sync' = [sync EXCEPT ![h] = sync[h]] /\ tidy[h].at \in {"read", "opened"}
  BY AsItIs DEF OpenRewrite, WriteBack
<1>2. /\ tidy[h].pass \in Passes /\ tidy[h].text \in FileLines
      /\ Cleaned(tidy[h].pass, tidy[h].text) \in FileLines
      /\ Sound(tidy[h].pass, tidy[h].text) \subseteq KnownIn(Cleaned(tidy[h].pass, tidy[h].text))
  BY <1>1, TidyFields
<1>3. CASE OpenRewrite(h)
  <2> DEFINE q == [tidy[h] EXCEPT !.at = "opened"]
  <2>1. /\ q \in TidyState /\ q.at = "opened"
        /\ q.pass = tidy[h].pass /\ q.text = tidy[h].text
    BY <1>1 DEF TidyState, NoTidy
  <2>2. /\ factsFile' = [factsFile EXCEPT ![h] = <<>>] /\ tidy' = [tidy EXCEPT ![h] = q]
        /\ tidy[h].at = "read"
    BY <1>3 DEF OpenRewrite
  <2> HIDE DEF q
  <2>3. Sound(tidy[h].pass, tidy[h].text) \subseteq PresentIn(<<>>, sync[h], q)
    BY <1>2, <2>1 DEF PresentIn
  <2>4. Explained(h, <<>>, sync[h], q)
    BY <2>1, <2>2, <2>3 DEF Explained
  <2> QED
    BY <1>1, <2>1, <2>2, <2>4, EmptyLines, StepOf
<1>4. CASE WriteBack(h)
  <2> DEFINE c == Cleaned(tidy[h].pass, tidy[h].text)
             q == PassDone(tidy[h].pass)
  <2>1. q \in TidyState /\ q.at = "done"
    BY <1>2, PassDoneIs
  <2>2. Left(h, {c}) /\ tidy' = [tidy EXCEPT ![h] = q] /\ tidy[h].at = "opened"
    BY <1>4 DEF WriteBack
  <2>3. c \in FileLines /\ Sound(tidy[h].pass, tidy[h].text) \subseteq KnownIn(c)
    BY <1>2
  <2> HIDE DEF c, q
  <2>4. PICK s \in FileLines : /\ factsFile' = [factsFile EXCEPT ![h] = s]
                               /\ \E t \in {c} : KnownIn(t) \subseteq KnownIn(s)
    <3>1. {c} \in SUBSET FileLines
      BY <2>3
    <3> QED
      BY <2>2, <3>1, LeftLines
  <2>5. Sound(tidy[h].pass, tidy[h].text) \subseteq PresentIn(s, sync[h], q)
    BY <2>3, <2>4 DEF PresentIn
  <2>6. Explained(h, s, sync[h], q)
    BY <2>1, <2>2, <2>5 DEF Explained
  <2> QED
    BY <1>1, <2>1, <2>2, <2>4, <2>6, StepOf
<1> QED
  BY <1>3, <1>4

(* A stop in the middle of a rewrite may take any fact with it. *)
LEMMA TidyEndsKeeps ==
    ASSUME FilesType, NEW h \in Hosts, TidyEnds(h)
    PROVE  FileStep
<1>1. /\ remote' \in FileLines /\ sync[h] \in SyncState /\ tidy[h] \in TidyState
      /\ sync' = [sync EXCEPT ![h] = sync[h]] /\ NoTidy \in TidyState
      /\ tidy' = [tidy EXCEPT ![h] = NoTidy]
  BY AsItIs, IdleStates DEF TidyEnds
<1>2. CASE tidy[h].at = "opened" /\ Left(h, Torn(Cleaned(tidy[h].pass, tidy[h].text)))
  <2>1. Cleaned(tidy[h].pass, tidy[h].text) \in FileLines
    BY <1>1, <1>2, TidyFields
  <2>2. Torn(Cleaned(tidy[h].pass, tidy[h].text)) \in SUBSET FileLines
    BY <2>1, TornLines
  <2>3. PICK s \in FileLines : factsFile' = [factsFile EXCEPT ![h] = s]
    BY <1>2, <2>2, LeftLines
  <2>4. Explained(h, s, sync[h], NoTidy)
    BY <1>2 DEF Explained
  <2> QED
    BY <1>1, <2>3, <2>4, StepOf
<1>3. CASE tidy[h].at # "opened" /\ UNCHANGED factsFile
  <2>1. factsFile[h] \in FileLines /\ factsFile' = [factsFile EXCEPT ![h] = factsFile[h]]
    BY <1>3, AsItIs
  <2>2. Explained(h, factsFile[h], sync[h], NoTidy)
    BY <1>3 DEF Explained, Present, PresentIn
  <2> QED
    BY <1>1, <2>1, <2>2, StepOf
<1> QED
  BY <1>2, <1>3 DEF TidyEnds

LEMMA FilesStep == FilesType /\ [FilesNext]_filesVars => FileStep
<1> SUFFICES ASSUME FilesType, [FilesNext]_filesVars PROVE FileStep
  OBVIOUS
<1>1. CASE UNCHANGED filesVars
  BY <1>1 DEF filesVars, FilesType, FileStep, FileKept, Present
<1>2. ASSUME NEW h \in Hosts,
             \/ \E l \in Lines : Taught(h, l) \/ PushFact(h, l)
             \/ AutoSync(h) \/ Pull(h) \/ OpenLocalFile(h) \/ WriteLocalFile(h)
             \/ SmartMerge(h) \/ AppendMerged(h)
             \/ PushRead(h) \/ PushLook(h) \/ PushPut(h) \/ Killed(h)
             \/ Compact(h) \/ Verify(h) \/ OpenRewrite(h) \/ WriteBack(h) \/ TidyEnds(h)
      PROVE  FileStep
  BY <1>2, TaughtKeeps, PullKeeps, DownloadKeeps, AppendMergedKeeps, KilledKeeps, PushKeeps,
     ReadForTidyKeeps, RewriteKeeps, TidyEndsKeeps
<1> QED
  BY <1>1, <1>2 DEF FilesNext

(* On any devices and with files of any length: over every interleaving of   *)
(* teaching, synchronising, maintenance and stops, a fact is lost only to a   *)
(* download, to a rewrite stopped while the file is open, to the check that   *)
(* takes its line for a broken one, or to a rewrite that had not read it.     *)
THEOREM FourWaysToLose == FilesSpec => LossesExplained
<1>1. FilesInit => FilesType
  BY EmptyLines, IdleStates DEF FilesInit, FilesType
<1>2. FilesType /\ [FilesNext]_filesVars => FilesType'
  BY FilesStep DEF FileStep
<1>3. FilesType /\ [FilesNext]_filesVars =>
      [\A h \in Hosts :
          \/ Present(h) \subseteq Present(h)'
          \/ sync[h].at \in {"pulled", "opened"} /\ sync'[h] # sync[h]
          \/ tidy[h].at = "opened" /\ tidy'[h] = NoTidy
          \/ /\ tidy[h].at \in {"read", "opened"} /\ tidy'[h] # tidy[h]
             /\ KnownIn(tidy[h].text) \ (IF tidy[h].pass = "verify" THEN Broken ELSE {})
                    \subseteq Present(h)'
      ]_filesVars
  BY FilesStep DEF FileStep, FileKept, Sound
<1> QED
  BY <1>1, <1>2, <1>3, PTL DEF FilesSpec, LossesExplained

-----------------------------------------------------------------------------
(* Reminders                                                               *)

Reminder   == [id : Nat, trigger : Nat, period : Nat, serial : Nat]
Occurrence == [serial : Nat, trigger : Nat]

(* A list on which no two reminders share a number, and none has been handed *)
(* out for an occurrence still to come more often than saves have failed.    *)
SoundList(s, n, out, u) ==
    /\ s \in Seq(Reminder)
    /\ \A i, j \in DOMAIN s : i # j => s[i].id # s[j].id /\ s[i].serial # s[j].serial
    /\ \A i \in DOMAIN s : s[i].serial <= n
    /\ \A i \in DOMAIN s : \A k \in DOMAIN out :
          k.serial = s[i].serial /\ s[i].trigger <= k.trigger => out[k] <= u

ReminderInv ==
    /\ now \in Nat /\ serials \in Nat /\ unsaved \in Nat /\ nextTaskId \in Nat
    /\ handedOut \in [DOMAIN handedOut -> Nat] /\ DOMAIN handedOut \subseteq Occurrence
    /\ \A k \in DOMAIN handedOut : k.serial <= serials /\ handedOut[k] <= 1 + unsaved
    /\ SoundList(tasks, serials, handedOut, unsaved)
    /\ SoundList(scheduleFile, serials, handedOut, unsaved)
    /\ \A i \in DOMAIN tasks : tasks[i].id < nextTaskId

LEMMA ReminderAt ==
    ASSUME NEW s \in Seq(Reminder)
    PROVE  /\ Len(s) \in Nat /\ DOMAIN s = 1 .. Len(s)
           /\ \A i \in DOMAIN s : /\ s[i] \in Reminder
                                  /\ s[i].id \in Nat /\ s[i].trigger \in Nat
                                  /\ s[i].period \in Nat /\ s[i].serial \in Nat
<1>1. Len(s) \in Nat /\ DOMAIN s = 1 .. Len(s) /\ \A i \in DOMAIN s : s[i] \in Reminder
  BY LenProperties, ElementOfSeq
<1> QED
  BY <1>1 DEF Reminder

(* Taking reminders off a list leaves it sound. *)
LEMMA SoundPicked ==
    ASSUME NEW s, NEW n, NEW out, NEW u, SoundList(s, n, out, u), NEW I \in SUBSET DOMAIN s
    PROVE  /\ SoundList(Picked(s, I), n, out, u)
           /\ \A i \in DOMAIN Picked(s, I) : \E m \in I : Picked(s, I)[i] = s[m]
<1> DEFINE p == Picked(s, I)
<1>1. s \in Seq(Reminder)
  BY DEF SoundList
<1>2. p \in Seq(Reminder) /\ \A i \in DOMAIN p : \E m \in I : p[i] = s[m]
  BY <1>1, PickedElements
<1>3. \A i, j \in DOMAIN p : i < j => \E m, o \in I : m < o /\ p[i] = s[m] /\ p[j] = s[o]
  BY <1>1, PickedInOrder
<1>4. DOMAIN p = 1 .. Len(p) /\ Len(p) \in Nat /\ DOMAIN s = 1 .. Len(s) /\ Len(s) \in Nat
  BY <1>1, <1>2, LenProperties
<1> HIDE DEF p
<1>5. \A i, j \in DOMAIN p : i # j => \E m, o \in I : m # o /\ p[i] = s[m] /\ p[j] = s[o]
  <2> SUFFICES ASSUME NEW i \in DOMAIN p, NEW j \in DOMAIN p, i # j
               PROVE  \E m, o \in I : m # o /\ p[i] = s[m] /\ p[j] = s[o]
    OBVIOUS
  <2>1. i < j \/ j < i
    BY <1>4
  <2>2. \A m \in I : m \in Int
    BY <1>4
  <2> QED
    BY <1>3, <2>1, <2>2
<1>6. SoundList(p, n, out, u)
  BY <1>2, <1>5 DEF SoundList
<1> QED
  BY <1>2, <1>6 DEF p

(* A list stays sound when the occurrences it waits for are handed out no    *)
(* more often than before.                                                   *)
LEMMA SoundLater ==
    ASSUME NEW s, NEW n \in Nat, NEW m \in Nat, n <= m, NEW out, NEW u, SoundList(s, n, out, u)
    PROVE  SoundList(s, m, out, u)
<1>1. \A i \in DOMAIN s : s[i].serial \in Nat
  BY ReminderAt DEF SoundList
<1> QED
  BY <1>1 DEF SoundList

LEMMA AddKeeps ==
    ASSUME ReminderInv, NEW o \in Offsets, NEW p \in Periods, NEW saved \in BOOLEAN,
           AddReminder(o, p, saved)
    PROVE  ReminderInv'
<1> DEFINE t == [id |-> nextTaskId, trigger |-> now + o, period |-> p, serial |-> serials + 1]
           s == Append(tasks, t)
           n == Len(tasks)
<1>1. /\ serials' = serials + 1 /\ tasks' = s /\ nextTaskId' = nextTaskId + 1
      /\ UNCHANGED <<now, handedOut, unsaved>>
      /\ scheduleFile' = s \/ UNCHANGED scheduleFile
  BY DEF AddReminder, SaveToDisk
<1>2. /\ t \in Reminder /\ t.id = nextTaskId /\ t.serial = serials + 1
      /\ serials + 1 \in Nat /\ nextTaskId + 1 \in Nat
  BY ReminderAssumption DEF Reminder, ReminderInv
<1> HIDE DEF t
<1>3. tasks \in Seq(Reminder)
  BY DEF ReminderInv, SoundList
<1>4. /\ n \in Nat /\ DOMAIN tasks = 1 .. n
      /\ \A i \in DOMAIN tasks : tasks[i].id \in Nat /\ tasks[i].serial \in Nat
  BY <1>3, ReminderAt
<1>5. /\ s \in Seq(Reminder) /\ Len(s) = n + 1 /\ s[n + 1] = t
      /\ \A i \in 1 .. n : s[i] = tasks[i]
  BY <1>2, <1>3, AppendProperties
<1>6. DOMAIN s = 1 .. n + 1
  BY <1>5, ReminderAt
<1>7. \A i \in 1 .. n : tasks[i].serial <= serials /\ tasks[i].id < nextTaskId
  BY <1>4 DEF ReminderInv, SoundList
<1> HIDE DEF s, n
<1>8. SoundList(tasks, serials + 1, handedOut, unsaved)
      /\ SoundList(scheduleFile, serials + 1, handedOut, unsaved)
  BY <1>2, SoundLater DEF ReminderInv
<1>9. \A i \in 1 .. n + 1 : s[i].serial <= serials + 1 /\ s[i].id < nextTaskId + 1
  <2> SUFFICES ASSUME NEW i \in 1 .. n + 1
               PROVE  s[i].serial <= serials + 1 /\ s[i].id < nextTaskId + 1
    OBVIOUS
  <2>1. CASE i = n + 1
    BY <1>2, <1>5, <2>1 DEF ReminderInv
  <2>2. CASE i \in 1 .. n
    <3>1. s[i] = tasks[i] /\ serials \in Nat /\ nextTaskId \in Nat
      BY <1>5, <2>2 DEF ReminderInv
    <3>2. tasks[i].serial <= serials /\ tasks[i].id < nextTaskId
          /\ tasks[i].serial \in Nat /\ tasks[i].id \in Nat
      BY <1>4, <1>7, <2>2
    <3> QED
      BY <3>1, <3>2
  <2> QED
    BY <1>4, <2>1, <2>2
<1>10. \A i, j \in 1 .. n + 1 : i # j => s[i].id # s[j].id /\ s[i].serial # s[j].serial
  <2>1. \A i \in 1 .. n : s[i].id # t.id /\ s[i].serial # t.serial
    BY <1>2, <1>4, <1>5, <1>7 DEF ReminderInv
  <2>2. \A i, j \in 1 .. n : i # j => s[i].id # s[j].id /\ s[i].serial # s[j].serial
    BY <1>4, <1>5, <1>8 DEF SoundList
  <2>3. \A i \in 1 .. n + 1 : i \in 1 .. n \/ i = n + 1
    BY <1>4
  <2> QED
    BY <1>5, <2>1, <2>2, <2>3
<1>11. \A i \in 1 .. n + 1 : \A k \in DOMAIN handedOut :
          k.serial = s[i].serial /\ s[i].trigger <= k.trigger => handedOut[k] <= unsaved
  <2>1. \A k \in DOMAIN handedOut : k.serial # serials + 1
    BY DEF ReminderInv, Occurrence
  <2>2. \A i \in 1 .. n + 1 : i \in 1 .. n \/ i = n + 1
    BY <1>4
  <2> QED
    BY <1>2, <1>4, <1>5, <1>8, <2>1, <2>2 DEF SoundList
<1>12. SoundList(s, serials + 1, handedOut, unsaved)
  BY <1>5, <1>6, <1>9, <1>10, <1>11 DEF SoundList
<1>13. \A k \in DOMAIN handedOut : k.serial <= serials + 1
  BY DEF ReminderInv, Occurrence
<1> QED
  BY <1>1, <1>2, <1>6, <1>8, <1>9, <1>12, <1>13 DEF ReminderInv

LEMMA RemoveKeeps ==
    ASSUME ReminderInv, NEW i, NEW saved \in BOOLEAN, RemoveTask(i, saved)
    PROVE  ReminderInv'
<1> DEFINE I == {j \in DOMAIN tasks : tasks[j].id # tasks[i].id}
<1>1. /\ tasks' = Picked(tasks, I) /\ (scheduleFile' = Picked(tasks, I) \/ UNCHANGED scheduleFile)
      /\ UNCHANGED <<nextTaskId, now, serials, handedOut, unsaved>>
  BY DEF RemoveTask, SaveToDisk
<1>2. I \in SUBSET DOMAIN tasks
  OBVIOUS
<1> HIDE DEF I
<1>3. /\ SoundList(Picked(tasks, I), serials, handedOut, unsaved)
      /\ \A j \in DOMAIN Picked(tasks, I) : \E m \in I : Picked(tasks, I)[j] = tasks[m]
  BY <1>2, SoundPicked DEF ReminderInv
<1>4. \A j \in DOMAIN tasks' : tasks'[j].id < nextTaskId
  BY <1>1, <1>2, <1>3 DEF ReminderInv
<1> QED
  BY <1>1, <1>3, <1>4 DEF ReminderInv

LEMMA LoadKeeps ==
    ASSUME ReminderInv, LoadFromDisk
    PROVE  ReminderInv'
<1> DEFINE Ids == {scheduleFile[i].id : i \in DOMAIN scheduleFile}
           Z   == {0} \cup Ids
<1>1. /\ tasks' = scheduleFile /\ nextTaskId' = 1 + Max(Z)
      /\ UNCHANGED <<scheduleFile, now, serials, handedOut, unsaved>>
  BY DEF LoadFromDisk
<1>2. /\ DOMAIN scheduleFile = 1 .. Len(scheduleFile) /\ Len(scheduleFile) \in Nat
      /\ \A i \in DOMAIN scheduleFile : scheduleFile[i].id \in Nat
  BY ReminderAt DEF ReminderInv, SoundList
<1>3. Z \in SUBSET Nat /\ Z # {} /\ Ids \in SUBSET Nat
  BY <1>2
<1>4. IsFiniteSet(Ids)
  <2>1. IsFiniteSet(DOMAIN scheduleFile)
    <3>1. Len(scheduleFile) \in Int /\ 1 \in Int
      BY <1>2
    <3>2. IsFiniteSet(1 .. Len(scheduleFile))
      BY ONLY <3>1, FS_Interval
    <3> QED
      BY <1>2, <3>2
  <2> DEFINE f == [i \in DOMAIN scheduleFile |-> scheduleFile[i].id]
  <2>2. f \in Surjection(DOMAIN scheduleFile, Ids)
    BY DEF Surjection
  <2> HIDE DEF f, Ids
  <2> QED
    BY <2>1, <2>2, FS_Surjection
<1>5. \A i \in DOMAIN scheduleFile : scheduleFile[i].id \in Z
  OBVIOUS
<1>6. PICK b \in Nat : \A x \in Ids : x <= b
  <2> HIDE DEF Ids
  <2> QED
    BY <1>3, <1>4, FiniteBounded
<1>7. \A x \in Z : x <= b
  BY <1>6
<1> HIDE DEF Z
<1>8. Max(Z) \in Z /\ \A y \in Z : y <= Max(Z)
  BY <1>3, <1>7, MaxOf
<1>9. Max(Z) \in Nat /\ \A i \in DOMAIN scheduleFile : scheduleFile[i].id < 1 + Max(Z)
  <2> DEFINE m == Max(Z)
  <2>1. m \in Nat
    BY <1>3, <1>8
  <2>2. \A i \in DOMAIN scheduleFile : scheduleFile[i].id <= m
    BY <1>5, <1>8
  <2> HIDE DEF m
  <2>3. \A i \in DOMAIN scheduleFile : scheduleFile[i].id < 1 + m
    BY <1>2, <2>1, <2>2
  <2> QED
    BY <2>1, <2>3 DEF m
<1> QED
  BY <1>1, <1>9 DEF ReminderInv

LEMMA CheckKeeps ==
    ASSUME ReminderInv, NEW saved \in BOOLEAN, CheckDueTasks(saved)
    PROVE  ReminderInv'
<1> DEFINE due == {i \in DOMAIN tasks : IsDue(tasks[i])}
           out == {Key(tasks[i]) : i \in due}
           u   == IF saved THEN unsaved ELSE unsaved + 1
           was(k) == IF k \in DOMAIN handedOut THEN handedOut[k] ELSE 0
<1>1. /\ tasks' = After(tasks) /\ unsaved' = u
      /\ scheduleFile' = IF saved THEN After(tasks) ELSE scheduleFile
      /\ DOMAIN handedOut' = DOMAIN handedOut \cup out
      /\ \A k \in DOMAIN handedOut' : handedOut'[k] = was(k) + (IF k \in out THEN 1 ELSE 0)
      /\ UNCHANGED <<nextTaskId, now, serials>>
  BY DEF CheckDueTasks, SaveToDisk
<1>2. handedOut' = [k \in DOMAIN handedOut' |-> handedOut'[k]]
  BY DEF CheckDueTasks
<1>3. tasks \in Seq(Reminder) /\ now \in Nat /\ unsaved \in Nat /\ serials \in Nat
  BY DEF ReminderInv, SoundList
<1>4. \A i \in DOMAIN tasks : /\ tasks[i] \in Reminder
                              /\ tasks[i].id \in Nat /\ tasks[i].trigger \in Nat
                              /\ tasks[i].period \in Nat /\ tasks[i].serial \in Nat
  BY <1>3, ReminderAt
<1>5. \A k \in out : \E i \in due : k.serial = tasks[i].serial /\ k.trigger = tasks[i].trigger
                                    /\ k \in Occurrence
  BY <1>4 DEF Key, Occurrence
<1>6. \A k \in DOMAIN handedOut' : was(k) \in Nat /\ was(k) <= 1 + unsaved
  BY <1>3 DEF ReminderInv
<1>7. u \in Nat /\ unsaved <= u /\ (saved \/ u = unsaved + 1)
  BY <1>3
<1>8. \A k \in out : was(k) <= unsaved
  <2> SUFFICES ASSUME NEW k \in out, k \in DOMAIN handedOut PROVE handedOut[k] <= unsaved
    BY <1>3
  <2>1. PICK i \in due : k.serial = tasks[i].serial /\ k.trigger = tasks[i].trigger
    BY <1>5
  <2>2. i \in DOMAIN tasks /\ tasks[i].trigger <= k.trigger
    BY <1>4, <2>1
  <2> QED
    BY <2>1, <2>2 DEF ReminderInv, SoundList
<1> HIDE DEF was, u, out
<1>9. handedOut' \in [DOMAIN handedOut' -> Nat] /\ DOMAIN handedOut' \subseteq Occurrence
  <2>1. \A k \in DOMAIN handedOut' : handedOut'[k] \in Nat
    BY <1>1, <1>6
  <2>2. DOMAIN handedOut' \subseteq Occurrence
    BY <1>1, <1>5 DEF ReminderInv
  <2> QED
    BY <1>2, <2>1, <2>2
<1>10. \A k \in DOMAIN handedOut' : k.serial <= serials /\ handedOut'[k] <= 1 + u
  <2> SUFFICES ASSUME NEW k \in DOMAIN handedOut'
               PROVE  k.serial <= serials /\ handedOut'[k] <= 1 + u
    OBVIOUS
  <2>1. k.serial <= serials
    BY <1>1, <1>5 DEF ReminderInv, SoundList
  <2>2. CASE k \in out
    BY <1>1, <1>3, <1>6, <1>7, <1>8, <2>1, <2>2
  <2>3. CASE k \notin out
    BY <1>1, <1>3, <1>6, <1>7, <2>1, <2>3
  <2> QED
    BY <2>2, <2>3
<1> DEFINE moved == [i \in DOMAIN tasks |->
                       IF IsDue(tasks[i]) THEN [tasks[i] EXCEPT !.trigger = @ + tasks[i].period]
                       ELSE tasks[i]]
           I == {i \in DOMAIN tasks : tasks[i].period > 0 \/ ~IsDue(tasks[i])}
<1>11. \A i \in DOMAIN tasks :
          /\ moved[i] \in Reminder /\ moved[i].id = tasks[i].id /\ moved[i].serial = tasks[i].serial
          /\ moved[i].trigger = IF IsDue(tasks[i]) THEN tasks[i].trigger + tasks[i].period
                                ELSE tasks[i].trigger
  BY <1>4 DEF Reminder
<1>12. moved \in Seq(Reminder) /\ DOMAIN moved = DOMAIN tasks
  <2>1. DOMAIN tasks = 1 .. Len(tasks) /\ Len(tasks) \in Nat
    BY <1>3, ReminderAt
  <2> QED
    BY <1>11, <2>1, IsASeq
<1>13. I \in SUBSET DOMAIN moved /\ After(tasks) = Picked(moved, I)
  BY <1>12 DEF After
<1>14. \A i \in I : IsDue(tasks[i]) => tasks[i].trigger < moved[i].trigger
  <2> SUFFICES ASSUME NEW i \in I, IsDue(tasks[i])
               PROVE  tasks[i].trigger < moved[i].trigger
    OBVIOUS
  <2>1. i \in DOMAIN tasks /\ tasks[i].period > 0
    OBVIOUS
  <2> HIDE DEF moved
  <2>2. moved[i].trigger = tasks[i].trigger + tasks[i].period
    BY <1>11, <2>1
  <2> QED
    BY <1>4, <2>1, <2>2
<1>15. \A i \in I : i \in DOMAIN tasks
  OBVIOUS
<1> HIDE DEF moved, I
<1> DEFINE p == Picked(moved, I)
<1>16. p \in Seq(Reminder) /\ \A i \in DOMAIN p : \E m \in I : p[i] = moved[m]
  BY <1>12, <1>13, PickedElements
<1>17. \A i, j \in DOMAIN p : i # j => \E m, o \in I : m # o /\ p[i] = moved[m] /\ p[j] = moved[o]
  <2>1. \A i, j \in DOMAIN p : i < j => \E m, o \in I : m < o /\ p[i] = moved[m] /\ p[j] = moved[o]
    BY <1>12, <1>13, PickedInOrder
  <2>2. DOMAIN p = 1 .. Len(p) /\ Len(p) \in Nat /\ DOMAIN moved = 1 .. Len(moved)
        /\ Len(moved) \in Nat
    BY <1>12, <1>16, ReminderAt
  <2> HIDE DEF p
  <2> SUFFICES ASSUME NEW i \in DOMAIN p, NEW j \in DOMAIN p, i # j
               PROVE  \E m, o \in I : m # o /\ p[i] = moved[m] /\ p[j] = moved[o]
    OBVIOUS
  <2>3. i < j \/ j < i
    BY <2>2
  <2>4. \A m \in I : m \in Int
    BY <1>13, <2>2
  <2> QED
    BY <2>1, <2>3, <2>4
<1> HIDE DEF p
<1>18. \A i \in DOMAIN p : \A k \in DOMAIN handedOut' :
          k.serial = p[i].serial /\ p[i].trigger <= k.trigger => handedOut'[k] <= unsaved
  <2> SUFFICES ASSUME NEW i \in DOMAIN p, NEW k \in DOMAIN handedOut',
                      k.serial = p[i].serial, p[i].trigger <= k.trigger
               PROVE  handedOut'[k] <= unsaved
    OBVIOUS
  <2>1. PICK m \in I : p[i] = moved[m]
    BY <1>16
  <2>2. m \in DOMAIN tasks /\ k.serial = tasks[m].serial /\ moved[m].trigger <= k.trigger
    BY <1>11, <1>15, <2>1
  <2>3. k \in Occurrence /\ k.trigger \in Nat
    BY <1>9 DEF Occurrence
  <2>4. tasks[m].trigger <= moved[m].trigger /\ moved[m].trigger \in Nat
    BY <1>4, <1>11, <2>2
  <2>5. k \notin out
    <3> SUFFICES ASSUME k \in out PROVE FALSE
      OBVIOUS
    <3>1. PICK j \in due : k.serial = tasks[j].serial /\ k.trigger = tasks[j].trigger
      BY <1>5
    <3>2. j = m
      BY <2>2, <3>1 DEF ReminderInv, SoundList
    <3>3. IsDue(tasks[m]) /\ k.trigger = tasks[m].trigger
      BY <3>1, <3>2
    <3>4. tasks[m].trigger < moved[m].trigger
      BY <1>14, <3>3
    <3> QED
      BY <1>4, <2>2, <2>4, <3>3, <3>4
  <2>6. k \in DOMAIN handedOut /\ handedOut'[k] = handedOut[k]
    <3>1. k \in DOMAIN handedOut
      BY <1>1, <2>5
    <3>2. handedOut[k] \in Nat /\ was(k) = handedOut[k]
      BY <3>1 DEF ReminderInv, was
    <3> QED
      BY <1>1, <2>5, <3>1, <3>2
  <2>7. tasks[m].trigger <= k.trigger
    BY <1>4, <2>2, <2>3, <2>4
  <2> QED
    BY <2>2, <2>6, <2>7 DEF ReminderInv, SoundList
<1>19. \A k \in DOMAIN handedOut' : handedOut'[k] \in Nat
  BY <1>9
<1>20. \A i \in DOMAIN p : p[i].serial <= serials /\ p[i].id < nextTaskId
  BY <1>11, <1>15, <1>16 DEF ReminderInv, SoundList
<1>21. \A i, j \in DOMAIN p : i # j => p[i].id # p[j].id /\ p[i].serial # p[j].serial
  BY <1>11, <1>15, <1>17 DEF ReminderInv, SoundList
<1>22. SoundList(p, serials, handedOut', u)
  <2>1. \A i \in DOMAIN p : \A k \in DOMAIN handedOut' :
          k.serial = p[i].serial /\ p[i].trigger <= k.trigger => handedOut'[k] <= u
    BY <1>3, <1>7, <1>18, <1>19
  <2> QED
    BY <1>16, <1>20, <1>21, <2>1 DEF SoundList
<1>23. saved \/ SoundList(scheduleFile, serials, handedOut', u)
  <2> SUFFICES ASSUME ~saved PROVE SoundList(scheduleFile, serials, handedOut', u)
    OBVIOUS
  <2>1. u = unsaved + 1
    BY <1>7
  <2>2. ASSUME NEW i \in DOMAIN scheduleFile, NEW k \in DOMAIN handedOut',
               k.serial = scheduleFile[i].serial, scheduleFile[i].trigger <= k.trigger
        PROVE  handedOut'[k] <= u
    <3>1. was(k) \in Nat /\ was(k) <= unsaved
      BY <1>3, <2>2 DEF ReminderInv, SoundList, was
    <3> QED
      BY <1>1, <1>3, <2>1, <3>1
  <2> QED
    BY <2>2 DEF ReminderInv, SoundList
<1>24. tasks' = p /\ (scheduleFile' = p \/ (scheduleFile' = scheduleFile /\ ~saved))
  BY <1>1, <1>13 DEF p
<1> QED
  BY <1>1, <1>3, <1>7, <1>9, <1>10, <1>20, <1>22, <1>23, <1>24 DEF ReminderInv

LEMMA ReminderKept == ReminderInv /\ [ReminderNext]_reminderVars => ReminderInv'
<1> SUFFICES ASSUME ReminderInv, [ReminderNext]_reminderVars PROVE ReminderInv'
  OBVIOUS
<1>1. CASE \E saved \in BOOLEAN, o \in Offsets, p \in Periods : AddReminder(o, p, saved)
  BY <1>1, AddKeeps
<1>2. CASE \E saved \in BOOLEAN, i \in 1 .. MaxReminders : RemoveTask(i, saved)
  BY <1>2, RemoveKeeps
<1>3. CASE \E saved \in BOOLEAN : CheckDueTasks(saved)
  BY <1>3, CheckKeeps
<1>4. CASE LoadFromDisk
  BY <1>4, LoadKeeps
<1>5. CASE TimePasses \/ UNCHANGED reminderVars
  <2>1. /\ now' \in Nat
        /\ UNCHANGED <<tasks, scheduleFile, nextTaskId, serials, handedOut, unsaved>>
    BY <1>5 DEF TimePasses, reminderVars, ReminderInv
  <2> QED
    BY <2>1 DEF ReminderInv
<1> QED
  BY <1>1, <1>2, <1>3, <1>4, <1>5 DEF ReminderNext

(* For any offsets and periods: over restarts, late checks, removals and     *)
(* saves that fail in any order, no occurrence of a reminder is handed out   *)
(* again except for a check that could not be saved, and no two reminders    *)
(* have one number (checkDueTasks, removeTask, loadFromDisk).                *)
THEOREM NoReminderTwice == ReminderSpec => []HandedOutOnce
<1>1. ReminderInit => ReminderInv
  <2> SUFFICES ASSUME ReminderInit PROVE ReminderInv
    OBVIOUS
  <2>1. /\ tasks = <<>> /\ scheduleFile = <<>> /\ DOMAIN handedOut = {}
        /\ DOMAIN tasks = {} /\ <<>> \in Seq(Reminder)
    BY EmptySeq DEF ReminderInit
  <2>2. handedOut \in [DOMAIN handedOut -> Nat]
    BY DEF ReminderInit
  <2> QED
    BY <2>1, <2>2 DEF ReminderInit, ReminderInv, SoundList
<1>2. ReminderInv => HandedOutOnce
  BY DEF ReminderInv, SoundList, HandedOutOnce
<1> QED
  BY <1>1, <1>2, ReminderKept, PTL DEF ReminderSpec

-----------------------------------------------------------------------------
(* The memory of several devices                                           *)

Turn     == [time : Nat, from : Speakers]
EverSaid == {t \in Turn : \E d \in Speakers : t \in said[d]}

Ascends(s) == \A i, j \in DOMAIN s : i < j => s[i].time < s[j].time

(* Of all that was ever said, s has the latest. *)
HasLatest(s, all) ==
    /\ Ascends(s)
    /\ \A t \in all \ Range(s) : Len(s) = MaxTurnsKept /\ t.time < s[1].time

(* Trimmed, s would. *)
WouldHaveLatest(s, all) ==
    /\ Ascends(s)
    /\ \A t \in all \ Range(s) :
          MaxTurnsKept <= Len(s) /\ t.time < s[Len(s) - MaxTurnsKept + 1].time

MemoryInv ==
    /\ time \in Nat /\ said \in [Speakers -> SUBSET Turn] /\ turns \in [Speakers -> Seq(Turn)]
    /\ \A d \in Speakers : Range(turns[d]) \subseteq said[d] /\ HasLatest(turns[d], said[d])
    /\ \A t, u \in EverSaid : t.time < time /\ (t.time = u.time => t = u)
    /\ \A c \in contexts : /\ c.to \in Speakers /\ c.turns \in Seq(Turn)
                           /\ Range(c.turns) \subseteq EverSaid

LEMMA TurnsOf ==
    ASSUME NEW s \in Seq(Turn)
    PROVE  /\ Len(s) \in Nat /\ DOMAIN s = 1 .. Len(s)
           /\ \A i \in DOMAIN s : s[i] \in Turn /\ s[i].time \in Nat
<1>1. Len(s) \in Nat /\ DOMAIN s = 1 .. Len(s) /\ \A i \in DOMAIN s : s[i] \in Turn
  BY LenProperties, ElementOfSeq
<1> QED
  BY <1>1 DEF Turn

(* Trimming leaves the end of the list. *)
LEMMA TrimmedEnd ==
    ASSUME NEW s \in Seq(Turn)
    PROVE  /\ Trimmed(s) \in Seq(Turn)
           /\ Len(Trimmed(s)) = IF Len(s) > MaxTurnsKept THEN MaxTurnsKept ELSE Len(s)
           /\ \A i \in 1 .. Len(Trimmed(s)) :
                 Trimmed(s)[i] = s[i + (Len(s) - Len(Trimmed(s)))]
<1>1. Len(s) \in Nat /\ MaxTurnsKept \in Nat /\ MaxTurnsKept # 0
  BY TurnsOf, MemoryAssumption
<1>2. CASE Len(s) > MaxTurnsKept
  <2> DEFINE a == Len(s) - MaxTurnsKept + 1
             t == SubSeq(s, a, Len(s))
  <2>1. a \in 1 .. Len(s) /\ Len(s) \in 1 .. Len(s) /\ a <= Len(s) + 1
    BY <1>1, <1>2
  <2>2. /\ t \in Seq(Turn) /\ Len(t) = Len(s) - a + 1
        /\ \A i \in 1 .. Len(s) - a + 1 : t[i] = s[a + i - 1]
    <3> HIDE DEF a
    <3>1. a \in Int /\ \A i \in a .. Len(s) : s[i] \in Turn
      BY <1>1, <2>1, TurnsOf
    <3>2. t = [i \in 1 .. Len(s) - a + 1 |-> s[i + a - 1]]
      BY <1>1, <2>1 DEF t
    <3>3. \A i \in 1 .. Len(s) - a + 1 : i + a - 1 = a + i - 1 /\ a + i - 1 \in a .. Len(s)
      BY <1>1, <2>1
    <3>4. Len(s) - a + 1 \in Nat
      BY <1>1, <2>1
    <3> HIDE DEF t
    <3>5. t \in Seq(Turn) /\ DOMAIN t = 1 .. Len(s) - a + 1
      BY <3>1, <3>2, <3>3, <3>4, IsASeq
    <3>6. Len(t) = Len(s) - a + 1
      BY <3>4, <3>5, TurnsOf
    <3>7. ASSUME NEW i \in 1 .. Len(s) - a + 1 PROVE t[i] = s[a + i - 1]
      BY <3>2, <3>3
    <3> QED
      BY <3>5, <3>6, <3>7
  <2>3. Trimmed(s) = t
    BY <1>2 DEF Trimmed
  <2>4. Len(s) - a + 1 = MaxTurnsKept
    BY <1>1
  <2>5. \A i \in 1 .. MaxTurnsKept : a + i - 1 = i + (Len(s) - MaxTurnsKept)
    BY <1>1
  <2> HIDE DEF a, t
  <2> QED
    BY <1>2, <2>2, <2>3, <2>4, <2>5
<1>3. CASE ~(Len(s) > MaxTurnsKept)
  <2>1. Trimmed(s) = s
    BY <1>3 DEF Trimmed
  <2>2. \A i \in 1 .. Len(s) : i + (Len(s) - Len(s)) = i
    BY <1>1
  <2> QED
    BY <1>3, <2>1, <2>2
<1> QED
  BY <1>2, <1>3

(* What has the latest once trimmed has it, trimmed. *)
LEMMA TrimmedHasLatest ==
    ASSUME NEW s \in Seq(Turn), NEW all, WouldHaveLatest(s, all)
    PROVE  /\ Trimmed(s) \in Seq(Turn) /\ Range(Trimmed(s)) \subseteq Range(s)
           /\ HasLatest(Trimmed(s), all)
<1> DEFINE t == Trimmed(s)
           gap == Len(s) - Len(t)
<1>1. /\ Len(s) \in Nat /\ DOMAIN s = 1 .. Len(s) /\ MaxTurnsKept \in Nat /\ MaxTurnsKept # 0
      /\ \A i \in DOMAIN s : s[i].time \in Nat
  BY TurnsOf, MemoryAssumption
<1>2. /\ t \in Seq(Turn) /\ Len(t) = IF Len(s) > MaxTurnsKept THEN MaxTurnsKept ELSE Len(s)
      /\ \A i \in 1 .. Len(t) : t[i] = s[i + gap]
  BY TrimmedEnd
<1>3. DOMAIN t = 1 .. Len(t) /\ Len(t) \in Nat
  BY <1>2, TurnsOf
<1> HIDE DEF t
<1>4. gap \in Nat /\ \A i \in 1 .. Len(t) : i + gap \in 1 .. Len(s)
  BY <1>1, <1>2, <1>3
<1>5. Range(t) \subseteq Range(s)
  BY <1>1, <1>2, <1>3, <1>4 DEF Range
<1>6. Ascends(t)
  <2> SUFFICES ASSUME NEW i \in 1 .. Len(t), NEW j \in 1 .. Len(t), i < j
               PROVE  t[i].time < t[j].time
    BY <1>3 DEF Ascends
  <2>1. i + gap < j + gap /\ i + gap \in 1 .. Len(s) /\ j + gap \in 1 .. Len(s)
    BY <1>3, <1>4
  <2>2. t[i] = s[i + gap] /\ t[j] = s[j + gap]
    BY <1>2
  <2> HIDE DEF gap
  <2> QED
    BY <1>1, <2>1, <2>2 DEF WouldHaveLatest, Ascends
<1>full. (MaxTurnsKept <= Len(s) \/ gap # 0) => Len(t) = MaxTurnsKept
  <2>1. Len(t) = IF Len(s) > MaxTurnsKept THEN MaxTurnsKept ELSE Len(s)
    BY <1>2
  <2> QED
    BY <1>1, <1>3, <2>1
<1>7. ASSUME NEW x \in all \ Range(t) PROVE Len(t) = MaxTurnsKept /\ x.time < t[1].time
  <2>1. CASE x \notin Range(s)
    <3>1. MaxTurnsKept <= Len(s) /\ x.time < s[Len(s) - MaxTurnsKept + 1].time
      BY <2>1 DEF WouldHaveLatest
    <3>2. Len(t) = MaxTurnsKept
      BY <1>full, <3>1
    <3>3. t[1] = s[Len(s) - MaxTurnsKept + 1]
      <4>1. 1 \in 1 .. Len(t) /\ 1 + gap = Len(s) - MaxTurnsKept + 1
        BY <1>1, <3>2
      <4> QED
        BY <1>2, <4>1
    <3> QED
      BY <3>1, <3>2, <3>3
  <2>2. CASE x \in Range(s)
    <3>1. PICK i \in 1 .. Len(s) : s[i] = x
      BY <1>1, <2>2 DEF Range
    <3>2. i <= gap
      <4> SUFFICES ASSUME ~(i <= gap) PROVE FALSE
        OBVIOUS
      <4>1. i - gap \in 1 .. Len(t) /\ (i - gap) + gap = i
        BY <1>1, <1>3, <1>4
      <4>2. t[i - gap] = x
        BY <1>2, <3>1, <4>1
      <4> QED
        BY <1>3, <4>1, <4>2 DEF Range
    <3>3. Len(t) = MaxTurnsKept /\ 1 \in 1 .. Len(t)
      <4>1. gap # 0
        BY <1>4, <3>1, <3>2
      <4>2. Len(t) = MaxTurnsKept
        BY <1>full, <4>1
      <4>3. 1 \in 1 .. MaxTurnsKept
        BY <1>1
      <4> QED
        BY <4>2, <4>3
    <3>4. t[1] = s[1 + gap] /\ 1 + gap \in 1 .. Len(s) /\ i < 1 + gap
      BY <1>2, <1>4, <3>2, <3>3
    <3>5. s[i].time < s[1 + gap].time
      BY <1>1, <3>4 DEF WouldHaveLatest, Ascends
    <3> QED
      BY <3>1, <3>3, <3>4, <3>5
  <2> QED
    BY <2>1, <2>2
<1> QED
  BY <1>2, <1>5, <1>6, <1>7 DEF HasLatest, t

(* Turns of different times, put in order, are the same turns.               *)
LEMMA ByTimeOrders ==
    ASSUME NEW s \in Seq(Turn), \A t, u \in Range(s) : t.time = u.time => t = u
    PROVE  ByTime(s) \in Seq(Turn) /\ Ascends(ByTime(s)) /\ Range(ByTime(s)) = Range(s)
<1> DEFINE T == {s[i].time : i \in DOMAIN s}
           k == Ascending(T)
           b == ByTime(s)
<1>1. /\ Len(s) \in Nat /\ DOMAIN s = 1 .. Len(s)
      /\ \A i \in DOMAIN s : s[i] \in Turn /\ s[i].time \in Nat
  BY TurnsOf
<1>2. T \in SUBSET Nat
  BY <1>1
<1>3. IsFiniteSet(T)
  <2> DEFINE f == [i \in DOMAIN s |-> s[i].time]
  <2>1. IsFiniteSet(DOMAIN s)
    BY <1>1, FS_Interval
  <2>2. f \in Surjection(DOMAIN s, T)
    BY DEF Surjection
  <2> HIDE DEF f, T
  <2> QED
    BY <2>1, <2>2, FS_Surjection
<1>4. b = [n \in DOMAIN k |-> s[CHOOSE i \in DOMAIN s : s[i].time = k[n]]]
  BY DEF ByTime
<1>5. \A i \in DOMAIN s : s[i].time \in T
  OBVIOUS
<1>6. \A m \in T : \E i \in DOMAIN s : s[i].time = m
  OBVIOUS
<1> HIDE DEF T
<1>7. PICK n \in Nat :
         /\ DOMAIN k = 1 .. n /\ \A i \in 1 .. n : k[i] \in T
         /\ \A i, j \in 1 .. n : i < j => k[i] < k[j]
         /\ \A m \in T : \E i \in 1 .. n : k[i] = m
  BY <1>2, <1>3, AscendingLists
<1> HIDE DEF k, b
<1>8. ASSUME NEW j \in 1 .. n
      PROVE  b[j] \in Range(s) /\ b[j].time = k[j] /\ b[j] \in Turn
  <2> DEFINE i == CHOOSE i \in DOMAIN s : s[i].time = k[j]
  <2>1. i \in DOMAIN s /\ s[i].time = k[j]
    BY <1>6, <1>7
  <2>2. b[j] = s[i]
    BY <1>4, <1>7
  <2> HIDE DEF i
  <2> QED
    BY <1>1, <2>1, <2>2 DEF Range
<1>9. b \in Seq(Turn) /\ DOMAIN b = 1 .. n
  <2>1. DOMAIN b = 1 .. n /\ b = [j \in 1 .. n |-> b[j]]
    BY <1>4, <1>7
  <2> QED
    BY <1>8, <2>1, IsASeq
<1>10. Ascends(b)
  BY <1>7, <1>8, <1>9 DEF Ascends
<1>11. Range(b) \subseteq Range(s)
  BY <1>8, <1>9 DEF Range
<1>12. ASSUME NEW x \in Range(s) PROVE x \in Range(b)
  <2>1. PICK i \in DOMAIN s : s[i] = x
    BY DEF Range
  <2>2. PICK j \in 1 .. n : k[j] = x.time
    BY <1>5, <1>7, <2>1
  <2>3. b[j] = x
    BY <1>8, <2>2
  <2> QED
    BY <1>9, <2>3 DEF Range
<1> QED
  BY <1>9, <1>10, <1>11, <1>12 DEF b

(* A list in order that holds another full one has as many turns, and the    *)
(* other starts before its own end does.                                     *)
LEMMA HoldsAnother ==
    ASSUME NEW s \in Seq(Turn), NEW b \in Seq(Turn), Ascends(s), Ascends(b),
           Range(s) \subseteq Range(b), Len(s) = MaxTurnsKept
    PROVE  /\ MaxTurnsKept <= Len(b)
           /\ s[1].time <= b[Len(b) - MaxTurnsKept + 1].time
<1> DEFINE n == Len(s)
           k == [i \in 1 .. n |-> CHOOSE j \in 1 .. Len(b) : b[j] = s[i]]
<1>1. /\ n \in Nat /\ n # 0 /\ DOMAIN s = 1 .. n /\ Len(b) \in Nat /\ DOMAIN b = 1 .. Len(b)
      /\ \A i \in DOMAIN b : b[i].time \in Nat
  BY TurnsOf, MemoryAssumption
<1>2. ASSUME NEW i \in 1 .. n PROVE k[i] \in 1 .. Len(b) /\ b[k[i]] = s[i]
  <2>1. \E j \in 1 .. Len(b) : b[j] = s[i]
    BY <1>1 DEF Range
  <2> QED
    BY <2>1
<1> HIDE DEF k
<1>3. ASSUME NEW i \in 1 .. n, NEW j \in 1 .. n, i < j PROVE k[i] < k[j]
  <2>1. b[k[i]].time < b[k[j]].time
    BY <1>1, <1>2, <1>3 DEF Ascends
  <2>2. ASSUME ~(k[i] < k[j]) PROVE FALSE
    <3>1. k[j] = k[i] \/ k[j] < k[i]
      BY <1>1, <1>2, <2>2
    <3>2. k[j] < k[i] => b[k[j]].time < b[k[i]].time
      BY <1>1, <1>2 DEF Ascends
    <3>3. b[k[i]].time \in Nat /\ b[k[j]].time \in Nat
      BY <1>1, <1>2
    <3> QED
      BY <2>1, <3>1, <3>2, <3>3
  <2> QED
    BY <2>2
<1>4. \A i \in 1 .. n : k[i] \in Nat
  BY <1>1, <1>2
<1>5. \A i \in 1 .. n : k[1] + i - 1 <= k[i]
  BY <1>1, <1>3, <1>4, AscendsByOne
<1>6. /\ k[1] + n - 1 <= k[n] /\ k[n] <= Len(b) /\ k[1] \in 1 .. Len(b) /\ k[n] \in Nat
      /\ b[k[1]] = s[1]
  BY <1>1, <1>2, <1>5
<1> DEFINE m == Len(b) - n + 1
<1>7. m \in 1 .. Len(b) /\ k[1] <= m /\ n <= Len(b)
  BY <1>1, <1>6
<1> HIDE DEF m
<1>8. b[k[1]].time <= b[m].time
  <2>1. CASE k[1] = m
    BY <1>1, <1>7, <2>1
  <2>2. CASE k[1] < m
    BY <1>1, <1>6, <1>7, <2>2 DEF Ascends
  <2> QED
    BY <1>1, <1>6, <1>7, <2>1, <2>2
<1> QED
  BY <1>6, <1>7, <1>8 DEF m

LEMMA AddTurnKeeps ==
    ASSUME MemoryInv, NEW d \in Speakers, AddTurn(d)
    PROVE  MemoryInv'
<1> DEFINE t == [time |-> time, from |-> d]
           s == Append(turns[d], t)
           n == Len(turns[d])
           all == said[d] \cup {t}
<1>1. /\ time' = time + 1 /\ turns' = [turns EXCEPT ![d] = Trimmed(s)]
      /\ said' = [said EXCEPT ![d] = all] /\ UNCHANGED contexts
  BY DEF AddTurn
<1>2. t \in Turn /\ t.time = time /\ time \in Nat
  BY DEF Turn, MemoryInv
<1> HIDE DEF t
<1>3. /\ turns[d] \in Seq(Turn) /\ Range(turns[d]) \subseteq said[d] /\ said[d] \subseteq EverSaid
      /\ HasLatest(turns[d], said[d])
  BY DEF MemoryInv, EverSaid
<1>4. /\ n \in Nat /\ DOMAIN turns[d] = 1 .. n
      /\ \A i \in DOMAIN turns[d] : turns[d][i].time \in Nat
  BY <1>3, TurnsOf
<1>5. /\ s \in Seq(Turn) /\ Len(s) = n + 1 /\ s[n + 1] = t
      /\ \A i \in 1 .. n : s[i] = turns[d][i]
  BY <1>2, <1>3, AppendProperties
<1>6. DOMAIN s = 1 .. n + 1
  BY <1>5, TurnsOf
<1> HIDE DEF s, n
<1>7. Range(s) \subseteq all /\ Range(turns[d]) \cup {t} \subseteq Range(s)
  BY <1>3, <1>4, <1>5, <1>6 DEF Range
<1>8. \A i \in 1 .. n : s[i].time < time /\ s[i].time \in Nat
  <2>1. \A i \in 1 .. n : s[i] \in EverSaid /\ s[i].time \in Nat
    BY <1>3, <1>4, <1>5 DEF Range
  <2> QED
    BY <2>1 DEF MemoryInv
<1>9. Ascends(s)
  <2> SUFFICES ASSUME NEW i \in 1 .. n + 1, NEW j \in 1 .. n + 1, i < j
               PROVE  s[i].time < s[j].time
    BY <1>6 DEF Ascends
  <2>1. i \in 1 .. n /\ (j \in 1 .. n \/ j = n + 1)
    BY <1>4
  <2>2. CASE j = n + 1
    BY <1>2, <1>5, <1>8, <2>1, <2>2
  <2>3. CASE j \in 1 .. n
    BY <1>3, <1>4, <1>5, <2>1, <2>3 DEF HasLatest, Ascends
  <2> QED
    BY <2>1, <2>2, <2>3
<1>10. ASSUME NEW x \in all \ Range(s)
       PROVE  MaxTurnsKept <= Len(s) /\ x.time < s[Len(s) - MaxTurnsKept + 1].time
  <2>1. x \in said[d] \ Range(turns[d])
    BY <1>7
  <2>2. n = MaxTurnsKept /\ x.time < turns[d][1].time
    BY <1>3, <2>1 DEF HasLatest, n
  <2>3. MaxTurnsKept \in Nat /\ MaxTurnsKept # 0
    BY MemoryAssumption
  <2>4. Len(s) - MaxTurnsKept + 1 = 2 /\ 1 \in 1 .. n /\ 1 \in 1 .. n + 1 /\ 2 \in 1 .. n + 1
    BY <1>5, <2>2, <2>3
  <2>5. s[1] = turns[d][1] /\ s[1].time < s[2].time
    BY <1>5, <1>6, <1>9, <2>4 DEF Ascends
  <2>6. x.time \in Nat /\ s[1].time \in Nat /\ s[2].time \in Nat
    <3>1. x \in Turn
      BY <2>1 DEF MemoryInv
    <3>2. s[1] \in Turn /\ s[2] \in Turn
      BY <1>5, <1>6, <2>4, TurnsOf
    <3> QED
      BY <3>1, <3>2 DEF Turn
  <2>7. MaxTurnsKept <= Len(s)
    BY <1>4, <1>5, <2>2
  <2> QED
    BY <2>2, <2>4, <2>5, <2>6, <2>7
<1>11. WouldHaveLatest(s, all)
  BY <1>9, <1>10 DEF WouldHaveLatest
<1>12. /\ Trimmed(s) \in Seq(Turn) /\ Range(Trimmed(s)) \subseteq Range(s)
       /\ HasLatest(Trimmed(s), all)
  BY <1>5, <1>11, TrimmedHasLatest
<1>13. all \subseteq Turn
  BY <1>2 DEF MemoryInv
<1> HIDE DEF all
<1>14. /\ time' \in Nat /\ said' \in [Speakers -> SUBSET Turn]
       /\ turns' \in [Speakers -> Seq(Turn)]
  BY <1>1, <1>2, <1>12, <1>13 DEF MemoryInv
<1>15. ASSUME NEW e \in Speakers
       PROVE  Range(turns'[e]) \subseteq said'[e] /\ HasLatest(turns'[e], said'[e])
  <2>1. CASE e = d
    <3>1. turns'[d] = Trimmed(s) /\ said'[d] = all
      BY <1>1 DEF MemoryInv
    <3> QED
      BY <1>7, <1>12, <2>1, <3>1
  <2>2. CASE e # d
    <3>1. turns'[e] = turns[e] /\ said'[e] = said[e]
      BY <1>1, <2>2 DEF MemoryInv
    <3> QED
      BY <3>1 DEF MemoryInv
  <2> QED
    BY <2>1, <2>2
<1>16. EverSaid' = EverSaid \cup {t}
  BY <1>1, <1>2 DEF EverSaid, MemoryInv, all
<1>17. \A x, y \in EverSaid' : x.time < time' /\ (x.time = y.time => x = y)
  <2>1. \A x, y \in EverSaid : x.time < time /\ (x.time = y.time => x = y)
    BY DEF MemoryInv
  <2>2. \A x \in EverSaid : x.time \in Nat
    BY DEF EverSaid, Turn
  <2> QED
    BY <1>1, <1>2, <1>16, <2>1, <2>2
<1>18. \A c \in contexts' : /\ c.to \in Speakers /\ c.turns \in Seq(Turn)
                            /\ Range(c.turns) \subseteq EverSaid'
  BY <1>1, <1>16 DEF MemoryInv
<1> QED
  BY <1>14, <1>15, <1>17, <1>18 DEF MemoryInv, HasLatest, Ascends

LEMMA SendKeeps ==
    ASSUME MemoryInv, NEW d \in Speakers, NEW p \in Speakers, SendContext(d, p)
    PROVE  MemoryInv'
<1> DEFINE c == [to |-> p, turns |-> turns[d]]
<1>1. contexts' = contexts \cup {c} /\ UNCHANGED <<time, turns, said>>
  BY DEF SendContext
<1>2. c.to \in Speakers /\ c.turns \in Seq(Turn) /\ Range(c.turns) \subseteq EverSaid
  BY DEF MemoryInv, EverSaid
<1> HIDE DEF c
<1>3. EverSaid' = EverSaid
  BY <1>1 DEF EverSaid
<1>4. \A x \in contexts' : /\ x.to \in Speakers /\ x.turns \in Seq(Turn)
                           /\ Range(x.turns) \subseteq EverSaid'
  BY <1>1, <1>2, <1>3 DEF MemoryInv
<1> QED
  BY <1>1, <1>3, <1>4 DEF MemoryInv, HasLatest, Ascends

LEMMA MergeKeeps ==
    ASSUME MemoryInv, NEW c \in contexts, MergeRemoteContext(c)
    PROVE  MemoryInv'
<1> DEFINE d   == c.to
           I   == {i \in DOMAIN c.turns : c.turns[i] \notin Range(turns[d])}
           new == Picked(c.turns, I)
           s   == turns[d] \o new
           b   == ByTime(s)
           all == said[d] \cup Range(c.turns)
<1>1. /\ turns' = [turns EXCEPT ![d] = Trimmed(b)] /\ said' = [said EXCEPT ![d] = all]
      /\ UNCHANGED <<time, contexts>>
  BY DEF MergeRemoteContext, Merged
<1>2. /\ d \in Speakers /\ c.turns \in Seq(Turn) /\ Range(c.turns) \subseteq EverSaid
      /\ turns[d] \in Seq(Turn) /\ Range(turns[d]) \subseteq said[d]
      /\ said[d] \subseteq EverSaid /\ EverSaid \subseteq Turn
      /\ HasLatest(turns[d], said[d])
  BY DEF MemoryInv, EverSaid
<1>3. /\ new \in Seq(Turn)
      /\ \A i \in DOMAIN new : \E m \in I : new[i] = c.turns[m]
      /\ \A m \in I : \E i \in DOMAIN new : new[i] = c.turns[m]
  <2>1. I \in SUBSET DOMAIN c.turns
    OBVIOUS
  <2> HIDE DEF I
  <2> QED
    BY <1>2, <2>1, PickedElements
<1>4. Range(turns[d]) \cup Range(new) = Range(turns[d]) \cup Range(c.turns)
  <2>1. Range(new) \subseteq Range(c.turns)
    BY <1>3 DEF Range
  <2>2. ASSUME NEW x \in Range(c.turns), x \notin Range(turns[d]) PROVE x \in Range(new)
    <3>1. PICK i \in DOMAIN c.turns : c.turns[i] = x
      BY DEF Range
    <3>2. i \in I
      BY <2>2, <3>1
    <3> QED
      BY <1>3, <3>1, <3>2 DEF Range
  <2> QED
    BY <2>1, <2>2
<1> HIDE DEF new, d
<1>5. s \in Seq(Turn) /\ Range(s) = Range(turns[d]) \cup Range(new)
  <2>1. /\ s \in Seq(Turn) /\ Len(s) = Len(turns[d]) + Len(new)
        /\ \A i \in 1 .. Len(turns[d]) : s[i] = turns[d][i]
        /\ \A i \in 1 .. Len(new) : s[Len(turns[d]) + i] = new[i]
    BY <1>2, <1>3, ConcatProperties
  <2>2. /\ DOMAIN s = 1 .. Len(turns[d]) + Len(new) /\ DOMAIN turns[d] = 1 .. Len(turns[d])
        /\ DOMAIN new = 1 .. Len(new) /\ Len(turns[d]) \in Nat /\ Len(new) \in Nat
    BY <1>2, <1>3, <2>1, TurnsOf
  <2> HIDE DEF s
  <2>3. ASSUME NEW i \in DOMAIN s PROVE s[i] \in Range(turns[d]) \cup Range(new)
    <3>1. CASE i <= Len(turns[d])
      BY <2>1, <2>2, <3>1 DEF Range
    <3>2. CASE ~(i <= Len(turns[d]))
      <4>1. i - Len(turns[d]) \in 1 .. Len(new) /\ i = Len(turns[d]) + (i - Len(turns[d]))
        <5> DEFINE p == Len(turns[d])
                   q == Len(new)
        <5>1. p \in Nat /\ q \in Nat /\ i \in 1 .. p + q /\ ~(i <= p)
          BY <2>2, <3>2
        <5> HIDE DEF p, q
        <5>2. i - p \in 1 .. q /\ i = p + (i - p)
          BY <5>1
        <5> QED
          BY <5>2 DEF p, q
      <4> QED
        BY <2>1, <2>2, <4>1 DEF Range
    <3> QED
      BY <3>1, <3>2
  <2>4. \A i \in DOMAIN turns[d] : i \in DOMAIN s
    BY <2>2
  <2>5. \A i \in DOMAIN new : Len(turns[d]) + i \in DOMAIN s
    BY <2>2
  <2> QED
    BY <2>1, <2>2, <2>3, <2>4, <2>5 DEF Range
<1>6. Range(s) = Range(turns[d]) \cup Range(c.turns)
  BY <1>4, <1>5
<1> HIDE DEF s
<1>7. \A x, y \in Range(s) : x.time = y.time => x = y
  <2>1. Range(s) \subseteq EverSaid
    BY <1>2, <1>6
  <2> QED
    BY <2>1 DEF MemoryInv
<1>8. b \in Seq(Turn) /\ Ascends(b) /\ Range(b) = Range(s)
  BY <1>5, <1>7, ByTimeOrders
<1> HIDE DEF b
<1>9. ASSUME NEW x \in all \ Range(b)
      PROVE  MaxTurnsKept <= Len(b) /\ x.time < b[Len(b) - MaxTurnsKept + 1].time
  <2>1. x \in said[d] \ Range(turns[d])
    BY <1>6, <1>8
  <2>2. Len(turns[d]) = MaxTurnsKept /\ x.time < turns[d][1].time /\ Ascends(turns[d])
    BY <1>2, <2>1 DEF HasLatest
  <2>3. Range(turns[d]) \subseteq Range(b)
    BY <1>6, <1>8
  <2>4. /\ MaxTurnsKept <= Len(b)
        /\ turns[d][1].time <= b[Len(b) - MaxTurnsKept + 1].time
    BY <1>2, <1>8, <2>2, <2>3, HoldsAnother
  <2> DEFINE m == Len(b) - MaxTurnsKept + 1
  <2>5. 1 \in DOMAIN turns[d] /\ m \in DOMAIN b
    BY <1>2, <1>8, <2>2, <2>4, TurnsOf, MemoryAssumption
  <2> HIDE DEF m
  <2>6. x.time \in Nat /\ turns[d][1].time \in Nat /\ b[m].time \in Nat
    <3>1. x \in Turn
      BY <1>2, <2>1
    <3> QED
      BY <1>2, <1>8, <2>5, <3>1, TurnsOf DEF Turn
  <2>7. turns[d][1].time <= b[m].time
    BY <2>4 DEF m
  <2>8. x.time < b[m].time
    BY <2>2, <2>6, <2>7
  <2> QED
    BY <2>4, <2>8 DEF m
<1>10. WouldHaveLatest(b, all)
  BY <1>8, <1>9 DEF WouldHaveLatest
<1>11. /\ Trimmed(b) \in Seq(Turn) /\ Range(Trimmed(b)) \subseteq Range(b)
       /\ HasLatest(Trimmed(b), all)
  BY <1>8, <1>10, TrimmedHasLatest
<1>12. all \subseteq Turn /\ Range(b) \subseteq all /\ all \subseteq EverSaid
       /\ said[d] \subseteq all
  BY <1>2, <1>6, <1>8
<1> HIDE DEF all
<1>13. said' \in [Speakers -> SUBSET Turn] /\ turns' \in [Speakers -> Seq(Turn)]
  BY <1>1, <1>2, <1>11, <1>12 DEF MemoryInv
<1>14. ASSUME NEW e \in Speakers
       PROVE  Range(turns'[e]) \subseteq said'[e] /\ HasLatest(turns'[e], said'[e])
  <2>1. CASE e = d
    <3>1. turns'[d] = Trimmed(b) /\ said'[d] = all
      BY <1>1, <1>2 DEF MemoryInv
    <3> QED
      BY <1>11, <1>12, <2>1, <3>1
  <2>2. CASE e # d
    <3>1. turns'[e] = turns[e] /\ said'[e] = said[e]
      BY <1>1, <2>2 DEF MemoryInv
    <3> QED
      BY <3>1 DEF MemoryInv
  <2> QED
    BY <2>1, <2>2
<1>15. EverSaid' = EverSaid
  <2>1. \A e \in Speakers : said[e] \subseteq said'[e] /\ said'[e] \subseteq EverSaid
    BY <1>1, <1>2, <1>12 DEF MemoryInv, EverSaid
  <2> QED
    BY <2>1 DEF EverSaid
<1> QED
  BY <1>1, <1>13, <1>14, <1>15 DEF MemoryInv, HasLatest, Ascends

LEMMA MemoryKept == MemoryInv /\ [MemoryNext]_memoryVars => MemoryInv'
<1> SUFFICES ASSUME MemoryInv, [MemoryNext]_memoryVars PROVE MemoryInv'
  OBVIOUS
<1>1. CASE \E d \in Speakers : AddTurn(d)
  BY <1>1, AddTurnKeeps
<1>2. CASE \E d, p \in Speakers : SendContext(d, p)
  BY <1>2, SendKeeps
<1>3. CASE \E c \in contexts : MergeRemoteContext(c)
  BY <1>3, MergeKeeps
<1>4. CASE UNCHANGED memoryVars \/ \E d, p \in Speakers : ContextSynced(d, p)
  <2>1. UNCHANGED <<time, turns, contexts, said>>
    BY <1>4 DEF memoryVars, ContextSynced
  <2> QED
    BY <2>1 DEF MemoryInv, EverSaid, HasLatest, Ascends
<1> QED
  BY <1>1, <1>2, <1>3, <1>4 DEF MemoryNext

(* With any devices and any number of turns kept: whatever contexts are      *)
(* lost, late or merged twice, a device keeps in order the latest turns of   *)
(* all it ever had (addTurn, mergeRemoteContext).                            *)
THEOREM LatestStay == MemorySpec => []LatestTurnsKept
<1>1. MemoryInit => MemoryInv
  <2> SUFFICES ASSUME MemoryInit PROVE MemoryInv
    OBVIOUS
  <2>1. <<>> \in Seq(Turn) /\ Range(<<>>) = {} /\ DOMAIN <<>> = {}
    BY EmptySeq DEF Range
  <2>2. \A d \in Speakers : turns[d] = <<>> /\ said[d] = {}
    BY DEF MemoryInit
  <2>3. EverSaid = {}
    BY <2>2 DEF EverSaid
  <2>4. \A d \in Speakers : Range(turns[d]) \subseteq said[d] /\ HasLatest(turns[d], said[d])
    BY <2>1, <2>2 DEF HasLatest, Ascends
  <2> QED
    BY <2>1, <2>3, <2>4 DEF MemoryInit, MemoryInv
<1>2. MemoryInv => LatestTurnsKept
  BY DEF MemoryInv, HasLatest, Ascends, LatestTurnsKept
<1> QED
  BY <1>1, <1>2, MemoryKept, PTL DEF MemorySpec

-----------------------------------------------------------------------------
(* The order in which services are started                                 *)

SvcStatuses == {"STOPPED", "RUNNING", "RESTARTING", "CRASHED", "DISABLED"}

SvcTypes ==
    /\ registered \subseteq Services
    /\ dependencies \in [Services -> SUBSET Services]
    /\ status \in [Services -> SvcStatuses]
    /\ enabled \in [Services -> BOOLEAN]
    /\ startAll \in {"none", "started", "circular"}

SvcInv == SvcTypes /\ StartAllComplete

Each(seq)      == {seq[i] : i \in 1 .. Len(seq)}
EachOnce(seq)      == \A i, j \in 1 .. Len(seq) : i # j => seq[i] # seq[j]
Before(seq, i) == {seq[j] : j \in 1 .. i - 1}

(* An order under way: each service once, after those it depends on, and     *)
(* waiting are exactly those that have nothing left to wait for.             *)
Orders == {q \in [order : Seq(EnabledServices), ready : Seq(EnabledServices)] :
              /\ EachOnce(q.order) /\ EachOnce(q.ready) /\ Each(q.order) \cap Each(q.ready) = {}
              /\ \A i \in 1 .. Len(q.order) : Known(q.order[i]) \subseteq Before(q.order, i)
              /\ \A t \in EnabledServices :
                    t \in Each(q.order) \cup Each(q.ready) <=> Known(t) \subseteq Each(q.order)}

LEMMA EnabledFinite ==
    ASSUME SvcTypes
    PROVE  /\ IsFiniteSet(EnabledServices) /\ Cardinality(EnabledServices) \in Nat
           /\ EnabledServices \in SUBSET Nat /\ EnabledServices \subseteq Services
<1>1. EnabledServices \subseteq Services /\ EnabledServices \in SUBSET Nat
  BY ServiceAssumption DEF EnabledServices, SvcTypes
<1> QED
  BY <1>1, ServiceAssumption, FS_Subset, FS_CardinalityType

LEMMA EachOf ==
    /\ \A S : \A s \in Seq(S) : Each(s) \subseteq S
    /\ \A S : \A s, t \in Seq(S) : Each(s \o t) = Each(s) \cup Each(t)
    /\ \A S : \A s \in Seq(S), x \in S : Each(Append(s, x)) = Each(s) \cup {x}
    /\ Each(<<>>) = {}
<1>1. \A S : \A s \in Seq(S) : Each(s) \subseteq S
  BY ElementOfSeq DEF Each
<1>2. ASSUME NEW S, NEW s \in Seq(S), NEW t \in Seq(S)
      PROVE  Each(s \o t) = Each(s) \cup Each(t)
  <2>1. /\ Len(s) \in Nat /\ Len(t) \in Nat /\ Len(s \o t) = Len(s) + Len(t)
        /\ \A i \in 1 .. Len(s) + Len(t) :
              (s \o t)[i] = IF i <= Len(s) THEN s[i] ELSE t[i - Len(s)]
    BY LenProperties, ConcatProperties
  <2>2. \A i \in 1 .. Len(s) : i \in 1 .. Len(s \o t) /\ (s \o t)[i] = s[i]
    BY <2>1
  <2>3. \A i \in 1 .. Len(t) : Len(s) + i \in 1 .. Len(s \o t) /\ (s \o t)[Len(s) + i] = t[i]
    BY <2>1
  <2>4. \A i \in 1 .. Len(s \o t) : \/ i \in 1 .. Len(s) /\ (s \o t)[i] = s[i]
                                    \/ i - Len(s) \in 1 .. Len(t) /\ (s \o t)[i] = t[i - Len(s)]
    BY <2>1
  <2>5. Each(s \o t) \subseteq Each(s) \cup Each(t)
    BY <2>4 DEF Each
  <2>6. Each(s) \subseteq Each(s \o t)
    BY <2>2 DEF Each
  <2>7. Each(t) \subseteq Each(s \o t)
    BY <2>3 DEF Each
  <2> QED
    BY <2>5, <2>6, <2>7
<1>3. ASSUME NEW S, NEW s \in Seq(S), NEW x \in S
      PROVE  Each(Append(s, x)) = Each(s) \cup {x}
  <2>1. /\ Len(s) \in Nat /\ Len(Append(s, x)) = Len(s) + 1
        /\ \A i \in 1 .. Len(s) : Append(s, x)[i] = s[i]
        /\ Append(s, x)[Len(s) + 1] = x
    BY LenProperties, AppendProperties
  <2>2. /\ \A i \in 1 .. Len(s) : i \in 1 .. Len(Append(s, x))
        /\ Len(s) + 1 \in 1 .. Len(Append(s, x))
        /\ \A i \in 1 .. Len(Append(s, x)) : i \in 1 .. Len(s) \/ i = Len(s) + 1
    BY <2>1
  <2> QED
    BY <2>1, <2>2 DEF Each
<1>4. Each(<<>>) = {}
  <2>1. Len(<<>>) = 0
    BY EmptySeq
  <2> QED
    BY <2>1 DEF Each
<1> QED
  BY <1>1, <1>2, <1>3, <1>4

(* Numbers in ascending order are each there once.                           *)
LEMMA AscendingEach ==
    ASSUME NEW S, NEW I \in SUBSET S, S \in SUBSET Nat, IsFiniteSet(S)
    PROVE  Ascending(I) \in Seq(S) /\ EachOnce(Ascending(I)) /\ Each(Ascending(I)) = I
<1> DEFINE n == Cardinality(I)
           k == Ascending(I)
<1>1. IsFiniteSet(I) /\ n \in Nat /\ I \in SUBSET Nat
  BY FS_Subset, FS_CardinalityType
<1>2. AscendingOver(I) # {}
  BY <1>1, AscendingExists
<1>3. /\ k \in [1 .. n -> I] /\ Range(k) = I
      /\ \A i, j \in 1 .. n : i < j => k[i] < k[j]
  BY <1>2 DEF AscendingOver, Ascending
<1> HIDE DEF n, k
<1>4. k \in Seq(S) /\ Len(k) = n
  <2>1. k = [i \in 1 .. n |-> k[i]] /\ \A i \in 1 .. n : k[i] \in S
    BY <1>3
  <2> QED
    BY <1>1, <2>1, IsASeq
<1>5. Each(k) = I
  BY <1>3, <1>4 DEF Each, Range
<1>6. ASSUME NEW i \in 1 .. n, NEW j \in 1 .. n, i # j PROVE k[i] # k[j]
  <2>1. i < j \/ j < i
    BY <1>1, <1>6
  <2>2. k[i] \in Nat /\ k[j] \in Nat
    BY <1>1, <1>3
  <2> QED
    BY <1>3, <2>1, <2>2
<1> QED
  BY <1>4, <1>5, <1>6 DEF EachOnce, k

(* As many places as there are members, when each is there once.             *)
LEMMA EachOnceCounts ==
    ASSUME NEW S, NEW s \in Seq(S), EachOnce(s)
    PROVE  IsFiniteSet(Each(s)) /\ Cardinality(Each(s)) = Len(s)
<1>1. Len(s) \in Nat /\ s \in [1 .. Len(s) -> S]
  BY LenProperties
<1>2. IsFiniteSet(1 .. Len(s)) /\ Cardinality(1 .. Len(s)) = Len(s)
  BY <1>1, FS_Interval
<1>3. ExistsBijection(1 .. Len(s), Each(s))
  <2>1. s \in Bijection(1 .. Len(s), Each(s))
    <3>1. s \in [1 .. Len(s) -> Each(s)]
      BY <1>1 DEF Each
    <3>2. \A i, j \in 1 .. Len(s) : s[i] = s[j] => i = j
      BY DEF EachOnce
    <3>3. \A x \in Each(s) : \E i \in 1 .. Len(s) : s[i] = x
      BY DEF Each
    <3> QED
      BY <3>1, <3>2, <3>3 DEF Bijection, Injection, Surjection, IsInjective
  <2> QED
    BY <2>1 DEF ExistsBijection
<1> QED
  BY <1>2, <1>3, FS_Bijection

(* The first that waits is put in order, and those it was the last obstacle  *)
(* of wait behind the others.                                                *)
LEMMA OrderedSound ==
    ASSUME SvcTypes, NEW q \in Orders
    PROVE  /\ NextOrdered(q) \in Orders
           /\ q.ready # <<>> => Len(NextOrdered(q).order) = Len(q.order) + 1
           /\ q.ready = <<>> => NextOrdered(q) = q
<1> DEFINE E == EnabledServices
<1>0. /\ q.order \in Seq(E) /\ q.ready \in Seq(E)
      /\ EachOnce(q.order) /\ EachOnce(q.ready) /\ Each(q.order) \cap Each(q.ready) = {}
      /\ \A i \in 1 .. Len(q.order) : Known(q.order[i]) \subseteq Before(q.order, i)
      /\ \A t \in E :
            t \in Each(q.order) \cup Each(q.ready) <=> Known(t) \subseteq Each(q.order)
  BY DEF Orders
<1>1. CASE q.ready = <<>>
  BY <1>1, EmptySeq DEF NextOrdered
<1>2. CASE q.ready # <<>>
  <2> DEFINE s == Head(q.ready)
             rest == Tail(q.ready)
             o == Append(q.order, s)
             new == Freed(s, o, q.ready)
             asc == Ascending(new)
             r == rest \o asc
  <2>1. /\ Len(q.ready) \in Nat \ {0} /\ s = q.ready[1] /\ s \in E
        /\ rest \in Seq(E) /\ Len(rest) = Len(q.ready) - 1
        /\ \A i \in 1 .. Len(rest) : rest[i] = q.ready[i + 1]
    BY <1>0, <1>2, HeadTailProperties, EmptySeq, ElementOfSeq
  <2>2. s \in Each(q.ready) /\ s \notin Each(q.order) /\ Known(s) \subseteq Each(q.order)
    <3>1. s \in Each(q.ready)
      BY <2>1 DEF Each
    <3> QED
      BY <1>0, <2>1, <3>1
  <2>3. EachOnce(rest) /\ s \notin Each(rest) /\ Each(q.ready) = {s} \cup Each(rest)
    <3>1. /\ \A i \in 1 .. Len(rest) : i + 1 \in 1 .. Len(q.ready) /\ i + 1 # 1
          /\ \A i, j \in 1 .. Len(rest) : i # j => i + 1 # j + 1
          /\ 1 \in 1 .. Len(q.ready)
          /\ \A i \in 1 .. Len(q.ready) : i = 1 \/ (i - 1 \in 1 .. Len(rest) /\ (i - 1) + 1 = i)
      BY <2>1
    <3>2. EachOnce(rest)
      BY <1>0, <2>1, <3>1 DEF EachOnce
    <3>3. s \notin Each(rest)
      BY <1>0, <2>1, <3>1 DEF EachOnce, Each
    <3>4. \A i \in 1 .. Len(q.ready) : i = 1 \/ q.ready[i] = rest[i - 1]
      BY <2>1, <3>1
    <3>5. Each(q.ready) = {s} \cup Each(rest)
      BY <2>1, <3>1, <3>4 DEF Each
    <3> QED
      BY <3>2, <3>3, <3>5
  <2> HIDE DEF s, rest
  <2>4. /\ o \in Seq(E) /\ Len(o) = Len(q.order) + 1 /\ Len(q.order) \in Nat
        /\ \A i \in 1 .. Len(q.order) : o[i] = q.order[i]
        /\ o[Len(q.order) + 1] = s /\ Each(o) = Each(q.order) \cup {s}
    BY <1>0, <2>1, AppendProperties, LenProperties, EachOf
  <2> HIDE DEF o
  <2>5. EachOnce(o)
    <3>1. \A i \in 1 .. Len(o) : i = Len(q.order) + 1 \/ i \in 1 .. Len(q.order)
      BY <2>4
    <3>2. \A i \in 1 .. Len(q.order) : o[i] # s
      BY <2>2, <2>4 DEF Each
    <3> QED
      BY <1>0, <2>4, <3>1, <3>2 DEF EachOnce
  <2>6. new \subseteq E /\ \A t \in E : t \in new <=> s \in Known(t) /\ Known(t) \subseteq Each(o)
    <3>1. Range(o) = Each(o)
      <4>1. DOMAIN o = 1 .. Len(o)
        BY <2>4, LenProperties
      <4> QED
        BY <4>1 DEF Range, Each
    <3> QED
      BY <3>1 DEF Freed
  <2> HIDE DEF new
  <2>7. asc \in Seq(E) /\ EachOnce(asc) /\ Each(asc) = new
    BY <2>6, EnabledFinite, AscendingEach
  <2> HIDE DEF asc
  <2>8. new \cap (Each(q.order) \cup Each(q.ready)) = {}
    BY <1>0, <2>2, <2>6
  <2>9. /\ r \in Seq(E) /\ Each(r) = Each(rest) \cup new
        /\ Len(r) = Len(rest) + Len(asc) /\ Len(rest) \in Nat /\ Len(asc) \in Nat
        /\ \A i \in 1 .. Len(rest) + Len(asc) :
              r[i] = IF i <= Len(rest) THEN rest[i] ELSE asc[i - Len(rest)]
    <3>1. Len(rest) \in Nat /\ Len(asc) \in Nat
      BY <2>1, <2>7, LenProperties
    <3>2. Each(r) = Each(rest) \cup Each(asc)
      BY <2>1, <2>7, EachOf
    <3> QED
      BY <2>1, <2>7, <3>1, <3>2, ConcatProperties
  <2> HIDE DEF r
  <2>10. EachOnce(r)
    <3>1. \A i \in 1 .. Len(r) : \/ i \in 1 .. Len(rest) /\ r[i] = rest[i]
                                 \/ /\ i - Len(rest) \in 1 .. Len(asc) /\ ~ (i <= Len(rest))
                                    /\ r[i] = asc[i - Len(rest)]
      BY <2>9
    <3>2. \A i, j \in 1 .. Len(r) : i # j => i - Len(rest) # j - Len(rest)
      BY <2>9
    <3>3. \A i \in 1 .. Len(rest), j \in 1 .. Len(asc) : rest[i] # asc[j]
      BY <2>3, <2>7, <2>8 DEF Each
    <3> QED
      BY <2>3, <2>7, <3>1, <3>2, <3>3 DEF EachOnce
  <2>11. Each(o) \cap Each(r) = {}
    BY <1>0, <2>2, <2>3, <2>4, <2>8, <2>9
  <2>12. \A i \in 1 .. Len(o) : Known(o[i]) \subseteq Before(o, i)
    <3>1. ASSUME NEW i \in 1 .. Len(q.order) PROVE Before(o, i) = Before(q.order, i)
      <4>1. \A j \in 1 .. i - 1 : j \in 1 .. Len(q.order)
        BY <2>4
      <4> QED
        BY <2>4, <4>1 DEF Before
    <3>2. Before(o, Len(q.order) + 1) = Each(q.order)
      <4>1. 1 .. (Len(q.order) + 1) - 1 = 1 .. Len(q.order)
        BY <2>4
      <4> QED
        BY <2>4, <4>1 DEF Before, Each
    <3>3. \A i \in 1 .. Len(o) : i \in 1 .. Len(q.order) \/ i = Len(q.order) + 1
      BY <2>4
    <3> QED
      BY <1>0, <2>2, <2>4, <3>1, <3>2, <3>3
  <2>13. \A t \in E : t \in Each(o) \cup Each(r) <=> Known(t) \subseteq Each(o)
    BY <1>0, <2>2, <2>3, <2>4, <2>6, <2>9
  <2>14. NextOrdered(q) = [order |-> o, ready |-> r]
    BY <1>2 DEF NextOrdered, o, r, asc, new, rest, s
  <2>15. NextOrdered(q) \in Orders
    <3> DEFINE t == NextOrdered(q)
    <3>1. /\ t \in [order : Seq(E), ready : Seq(E)] /\ t.order = o /\ t.ready = r
      BY <2>4, <2>9, <2>14
    <3> HIDE DEF t
    <3> QED
      BY <2>5, <2>10, <2>11, <2>12, <2>13, <3>1 DEF Orders, t
  <2> QED
    BY <1>2, <2>4, <2>14, <2>15
<1> QED
  BY <1>1, <1>2

(* With nothing in order, those wait that have no known dependency.          *)
LEMMA FirstSound ==
    ASSUME SvcTypes
    PROVE  [order |-> <<>>,
            ready |-> Ascending({s \in EnabledServices : Known(s) = {}})] \in Orders
<1> DEFINE free == {s \in EnabledServices : Known(s) = {}}
           r == Ascending(free)
<1>1. r \in Seq(EnabledServices) /\ EachOnce(r) /\ Each(r) = free
  BY EnabledFinite, AscendingEach
<1>2. <<>> \in Seq(EnabledServices) /\ Len(<<>>) = 0 /\ Each(<<>>) = {}
  BY EmptySeq, EachOf
<1>3. EachOnce(<<>>)
  BY <1>2 DEF EachOnce
<1> HIDE DEF r
<1>4. \A t \in EnabledServices : t \in Each(<<>>) \cup Each(r) <=> Known(t) \subseteq Each(<<>>)
  BY <1>1, <1>2
<1>5. [order |-> <<>>, ready |-> r] \in Orders
  BY <1>1, <1>2, <1>3, <1>4 DEF Orders
<1> QED
  BY <1>5 DEF r

(* compute_startup_order puts in order all that it can: what is left out is  *)
(* waiting for others that are.                                              *)
LEMMA OrderFound ==
    ASSUME SvcTypes
    PROVE  \E q \in Orders :
              /\ ComputeStartupOrder = q.order
              /\ q.ready = <<>> \/ Len(q.order) = Cardinality(EnabledServices)
<1> DEFINE n == Cardinality(EnabledServices)
           base == [order |-> <<>>,
                    ready |-> Ascending({s \in EnabledServices : Known(s) = {}})]
           turn[k \in 0 .. n] == IF k = 0 THEN base ELSE NextOrdered(turn[k - 1])
           g == [c \in Orders \X (1 .. n) |-> NextOrdered(c[1])]
<1>1. n \in Nat /\ base \in Orders
  BY EnabledFinite, FirstSound
<1>2. base.order = <<>>
  OBVIOUS
<1>3. ComputeStartupOrder = turn[n].order
  BY DEF ComputeStartupOrder
<1> HIDE DEF base
<1>4. g \in Rounds(Orders, n)
  BY OrderedSound DEF Rounds
<1>5. PICK f \in [0 .. n -> Orders] : f[0] = base /\ \A i \in 1 .. n : f[i] = g[<<f[i - 1], i>>]
  <2> HIDE DEF g, n, turn
  <2>1. Loops(Orders, n, base, g) # {}
    BY <1>1, <1>4, LoopExists
  <2> QED
    BY <2>1 DEF Loops
<1>6. \A i \in 0 .. n : f[i] = IF i = 0 THEN base ELSE NextOrdered(f[i - 1])
  <2>1. ASSUME NEW i \in 0 .. n, i # 0 PROVE f[i] = NextOrdered(f[i - 1])
    <3>1. i \in 1 .. n /\ f[i - 1] \in Orders
      BY <1>1, <2>1
    <3> QED
      BY <1>5, <3>1
  <2> QED
    BY <1>5, <2>1
<1>7. f = [i \in 0 .. n |-> IF i = 0 THEN base ELSE NextOrdered(f[i - 1])]
  BY <1>6
<1>8. turn = [i \in 0 .. n |-> IF i = 0 THEN base ELSE NextOrdered(turn[i - 1])]
  BY <1>7
<1> HIDE DEF turn, n, g
<1>9. turn[0] = base /\ \A i \in 1 .. n : i \in 0 .. n /\ turn[i] = NextOrdered(turn[i - 1])
  BY <1>1, <1>8
<1> DEFINE At  == [i \in 0 .. n |-> <<i, turn[i]>>]
           Fit == {<<i, q>> : i \in 0 .. n, q \in Orders}
           T   == {p \in Fit : p[2].ready = <<>> \/ Len(p[2].order) = p[1]}
<1>10. At[0] \in T
  <2>1. Len(<<>>) = 0 /\ 0 \in 0 .. n
    BY <1>1, EmptySeq
  <2>2. At[0] = <<0, base>>
    BY <1>9, <2>1
  <2> QED
    BY <1>1, <1>2, <2>1, <2>2
<1>11. ASSUME NEW i \in 1 .. n, At[i - 1] \in T PROVE At[i] \in T
  <2>1. /\ i \in 0 .. n /\ i - 1 \in 0 .. n
        /\ At[i - 1] = <<i - 1, turn[i - 1]>> /\ At[i] = <<i, NextOrdered(turn[i - 1])>>
    BY <1>1, <1>9
  <2>2. /\ turn[i - 1] \in Orders
        /\ turn[i - 1].ready = <<>> \/ Len(turn[i - 1].order) = i - 1
    BY <1>11, <2>1
  <2>3. /\ NextOrdered(turn[i - 1]) \in Orders
        /\ NextOrdered(turn[i - 1]).ready = <<>> \/ Len(NextOrdered(turn[i - 1]).order) = i
    <3>1. (i - 1) + 1 = i
      BY <1>1
    <3> QED
      BY <2>2, <3>1, OrderedSound
  <2> QED
    BY <2>1, <2>3
<1>12. At[n] \in T
  <2> HIDE DEF At, T, Fit
  <2>1. \A i \in 0 .. n : At[i] \in T
    BY <1>1, <1>10, <1>11, LoopStays
  <2>2. n \in 0 .. n
    BY <1>1
  <2> QED
    BY <2>1, <2>2
<1>13. turn[n] \in Orders /\ (turn[n].ready = <<>> \/ Len(turn[n].order) = n)
  <2>1. At[n] = <<n, turn[n]>>
    BY <1>1
  <2> QED
    BY <1>12, <2>1
<1> QED
  BY <1>3, <1>13 DEF n


(* Started in order, every service of a set that needs nothing from outside  *)
(* runs in the end.                                                          *)
LEMMA AllStarted ==
    ASSUME SvcTypes, NEW q \in Orders, NEW S \in SUBSET EnabledServices,
           \A s \in S : dependencies[s] \subseteq S
    PROVE  /\ StartedInOrder(q.order) \in [Services -> SvcStatuses]
           /\ \A s \in S \cap Each(q.order) : StartedInOrder(q.order)[s] = "RUNNING"
<1> DEFINE n == Len(q.order)
           W == [Services -> SvcStatuses]
           st[k \in 0 .. n] == IF k = 0 THEN status ELSE Started(st[k - 1], q.order[k])
           g == [c \in W \X (1 .. n) |-> Started(c[1], q.order[c[2]])]
<1>1. /\ q.order \in Seq(EnabledServices) /\ n \in Nat /\ status \in W
      /\ \A i \in 1 .. n : q.order[i] \in EnabledServices
      /\ \A i \in 1 .. n : Known(q.order[i]) \subseteq Before(q.order, i)
      /\ EnabledServices \subseteq Services
  BY LenProperties, ElementOfSeq, EnabledFinite DEF Orders, SvcTypes
<1>2. ASSUME NEW w \in W, NEW s \in Services
      PROVE  /\ Started(w, s) \in W
             /\ \A t \in Services : w[t] = "RUNNING" => Started(w, s)[t] = "RUNNING"
             /\ s \in EnabledServices /\ (\A d \in dependencies[s] : d \in registered /\ w[d] = "RUNNING")
                  => Started(w, s)[s] = "RUNNING"
  <2>1. "RUNNING" \in SvcStatuses
    BY DEF SvcStatuses
  <2> QED
    BY <1>2, <2>1 DEF Started, RunningIn, EnabledServices
<1>3. StartedInOrder(q.order) = st[n]
  BY DEF StartedInOrder
<1>4. g \in Rounds(W, n)
  BY <1>1, <1>2 DEF Rounds
<1>5. PICK f \in [0 .. n -> W] : f[0] = status /\ \A i \in 1 .. n : f[i] = g[<<f[i - 1], i>>]
  <2> HIDE DEF g, n, st, W
  <2>1. Loops(W, n, status, g) # {}
    BY <1>1, <1>4, LoopExists
  <2> QED
    BY <2>1 DEF Loops
<1>6. \A i \in 0 .. n : f[i] = IF i = 0 THEN status ELSE Started(f[i - 1], q.order[i])
  <2>1. ASSUME NEW i \in 0 .. n, i # 0 PROVE f[i] = Started(f[i - 1], q.order[i])
    <3>1. i \in 1 .. n /\ f[i - 1] \in W
      BY <1>1, <2>1
    <3> QED
      BY <1>5, <3>1
  <2> QED
    BY <1>5, <2>1
<1>7. f = [i \in 0 .. n |-> IF i = 0 THEN status ELSE Started(f[i - 1], q.order[i])]
  BY <1>6
<1>8. st = [i \in 0 .. n |-> IF i = 0 THEN status ELSE Started(st[i - 1], q.order[i])]
  BY <1>7
<1> HIDE DEF st, n, g, W
<1>9. st[0] = status /\ \A i \in 1 .. n : i \in 0 .. n /\ st[i] = Started(st[i - 1], q.order[i])
  BY <1>1, <1>8
<1> DEFINE At == [i \in 0 .. n |-> <<i, st[i]>>]
           Ran(i, w) == \A j \in 1 .. i : q.order[j] \in S => w[q.order[j]] = "RUNNING"
           Fit == {<<i, w>> : i \in 0 .. n, w \in W}
           T == {p \in Fit : Ran(p[1], p[2])}
<1>10. At[0] \in T
  <2>1. 0 \in 0 .. n /\ 1 .. 0 = {}
    BY <1>1
  <2>2. At[0] = <<0, status>>
    BY <1>9, <2>1
  <2> QED
    BY <1>1, <2>1, <2>2
<1>11. ASSUME NEW i \in 1 .. n, At[i - 1] \in T PROVE At[i] \in T
  <2> DEFINE w == st[i - 1]
             s == q.order[i]
  <2>1. /\ i \in 0 .. n /\ i - 1 \in 0 .. n
        /\ At[i - 1] = <<i - 1, w>> /\ At[i] = <<i, Started(w, s)>>
    BY <1>1, <1>9
  <2>2. w \in W /\ Ran(i - 1, w)
    BY <1>11, <2>1
  <2>3. s \in Services /\ s \in EnabledServices
    BY <1>1
  <2>4. /\ Started(w, s) \in W
        /\ \A t \in Services : w[t] = "RUNNING" => Started(w, s)[t] = "RUNNING"
    BY <1>2, <2>2, <2>3
  <2>5. ASSUME s \in S PROVE Started(w, s)[s] = "RUNNING"
    <3>1. ASSUME NEW d \in dependencies[s] PROVE d \in registered /\ w[d] = "RUNNING"
      <4>1. d \in S /\ d \in EnabledServices
        BY <2>5
      <4>2. d \in Known(s)
        BY <4>1 DEF Known
      <4>3. PICK j \in 1 .. i - 1 : q.order[j] = d
        BY <1>1, <4>2 DEF Before
      <4> QED
        BY <2>2, <4>1, <4>3 DEF EnabledServices
    <3> QED
      BY <1>2, <2>2, <2>3, <3>1
  <2>6. Ran(i, Started(w, s))
    <3>1. ASSUME NEW j \in 1 .. i, q.order[j] \in S
          PROVE  Started(w, s)[q.order[j]] = "RUNNING"
      <4>1. CASE j = i
        BY <2>5, <3>1, <4>1
      <4>2. CASE j # i
        <5>1. j \in 1 .. i - 1 /\ j \in 1 .. n
          BY <1>1, <4>2
        <5>2. w[q.order[j]] = "RUNNING" /\ q.order[j] \in Services
          BY <1>1, <2>2, <3>1, <5>1
        <5> QED
          BY <2>4, <5>2
      <4> QED
        BY <4>1, <4>2
    <3> QED
      BY <3>1
  <2> HIDE DEF w, s, Ran
  <2> QED
    BY <2>1, <2>4, <2>6
<1>12. At[n] \in T
  <2> HIDE DEF At, T, Fit
  <2>1. \A i \in 0 .. n : At[i] \in T
    BY <1>1, <1>10, <1>11, LoopStays
  <2>2. n \in 0 .. n
    BY <1>1
  <2> QED
    BY <2>1, <2>2
<1>13. st[n] \in W /\ Ran(n, st[n])
  <2>1. At[n] = <<n, st[n]>>
    BY <1>1
  <2> HIDE DEF Ran
  <2> QED
    BY <1>12, <2>1
<1> HIDE DEF T, Fit, At
<1>14. \A s \in S \cap Each(q.order) : st[n][s] = "RUNNING"
  BY <1>13 DEF Each, n
<1> QED
  BY <1>3, <1>13, <1>14 DEF W

(* No services wait for each other when all could be put in order: the first *)
(* of those in the circle would come after another of them.                  *)
LEMMA NoCircle ==
    ASSUME SvcTypes, NEW q \in Orders, Each(q.order) = EnabledServices
    PROVE  ~ Circular
<1>1. SUFFICES ASSUME NEW S \in (SUBSET EnabledServices) \ {{}},
                      \A s \in S : dependencies[s] \cap S # {}
               PROVE  FALSE
  BY DEF Circular
<1> DEFINE P == {i \in 1 .. Len(q.order) : q.order[i] \in S}
<1>2. Len(q.order) \in Nat
  BY LenProperties DEF Orders
<1>3. P # {} /\ P \in SUBSET Nat
  <2>1. PICK s \in S : TRUE
    BY <1>1
  <2>2. \E i \in 1 .. Len(q.order) : q.order[i] = s
    BY <1>1, <2>1 DEF Each
  <2> QED
    BY <1>2, <2>2
<1>4. PICK i \in P : \A j \in P : i <= j
  <2> HIDE DEF P
  <2> QED
    BY <1>3, LeastOf
<1>5. PICK d \in dependencies[q.order[i]] \cap S : TRUE
  BY <1>1
<1>6. d \in Known(q.order[i])
  BY <1>1, <1>5 DEF Known
<1>7. PICK j \in 1 .. i - 1 : q.order[j] = d
  <2>1. Known(q.order[i]) \subseteq Before(q.order, i)
    BY DEF Orders
  <2> QED
    BY <1>6, <2>1 DEF Before
<1>8. j \in P /\ j < i
  BY <1>2, <1>5, <1>7
<1> QED
  BY <1>2, <1>4, <1>8

LEMMA StartAllKeeps ==
    ASSUME SvcInv, StartAll
    PROVE  SvcInv'
<1>0. SvcTypes
  BY DEF SvcInv
<1>1. PICK q \in Orders : /\ ComputeStartupOrder = q.order
                          /\ q.ready = <<>> \/ Len(q.order) = Cardinality(EnabledServices)
  BY <1>0, OrderFound
<1> DEFINE E == EnabledServices
<1>2. /\ registered' = registered /\ dependencies' = dependencies /\ enabled' = enabled
      /\ startupOrder' = q.order
      /\ IF Len(q.order) = Cardinality(E)
           THEN startAll' = "started" /\ status' = StartedInOrder(q.order)
           ELSE startAll' = "circular" /\ status' = status
  BY <1>1 DEF StartAll
<1>3. /\ EnabledServices' = E /\ \A s : Known(s)' = Known(s)
      /\ Circular' = Circular /\ \A s : CanRun(s)' = CanRun(s)
  BY <1>2 DEF EnabledServices, Known, Circular, CanRun
<1>4. /\ q.order \in Seq(E) /\ EachOnce(q.order) /\ Each(q.order) \subseteq E
      /\ \A t \in E : t \in Each(q.order) \cup Each(q.ready) <=> Known(t) \subseteq Each(q.order)
  BY EachOf DEF Orders
<1>5. IsFiniteSet(E) /\ IsFiniteSet(Each(q.order)) /\ Cardinality(Each(q.order)) = Len(q.order)
  BY <1>0, <1>4, EnabledFinite, EachOnceCounts
<1>6. CASE Len(q.order) = Cardinality(E)
  <2>1. Each(q.order) = E
    BY <1>4, <1>5, <1>6, FS_Subset
  <2>2. ~ Circular
    BY <1>0, <2>1, NoCircle
  <2> DEFINE S == {s \in Services : CanRun(s)}
  <2>3. S \in SUBSET E /\ \A s \in S : dependencies[s] \subseteq S
    <3>1. ASSUME NEW s \in S PROVE s \in E /\ dependencies[s] \subseteq S
      <4>1. PICK C \in SUBSET E : s \in C /\ \A t \in C : dependencies[t] \subseteq C
        BY DEF CanRun
      <4>2. \A t \in C : t \in Services /\ CanRun(t)
        BY <1>0, <4>1, EnabledFinite DEF CanRun
      <4> QED
        BY <4>1, <4>2
    <3> QED
      BY <3>1
  <2> HIDE DEF S
  <2>4. /\ status' \in [Services -> SvcStatuses]
        /\ \A s \in S : status'[s] = "RUNNING" /\ s \in registered
    <3>1. \A s \in S : s \in Each(q.order) /\ s \in registered
      BY <2>1, <2>3 DEF EnabledServices
    <3>2. status' = StartedInOrder(q.order)
      BY <1>2, <1>6
    <3> QED
      BY <1>0, <2>3, <3>1, <3>2, AllStarted
  <2>5. S = {s \in Services : CanRun(s)'}
    BY <1>3 DEF S
  <2>6. StartAllComplete'
    BY <1>2, <1>3, <1>6, <2>2, <2>4, <2>5 DEF StartAllComplete, RunningIn
  <2> QED
    BY <1>2, <1>6, <2>4, <2>6 DEF SvcInv, SvcTypes
<1>7. CASE Len(q.order) # Cardinality(E)
  <2> DEFINE S == E \ Each(q.order)
  <2>1. q.ready = <<>> /\ S # {}
    <3>1. q.ready = <<>>
      BY <1>1, <1>7
    <3>2. Each(q.order) # E
      BY <1>5, <1>7
    <3> QED
      BY <1>4, <3>1, <3>2
  <2>2. Each(q.ready) = {}
    BY <2>1, EachOf
  <2>3. \A s \in S : dependencies[s] \cap S # {}
    BY <1>4, <2>2 DEF Known
  <2>4. Circular
    BY <2>1, <2>3 DEF Circular
  <2>5. StartAllComplete'
    BY <1>2, <1>3, <1>7, <2>4 DEF StartAllComplete
  <2> QED
    BY <1>2, <1>7, <2>5 DEF SvcInv, SvcTypes
<1> QED
  BY <1>6, <1>7

(* start_all starts whatever can run, and refuses only what waits in a       *)
(* circle: ServiceManager::start_all with compute_startup_order.             *)
THEOREM AllThatCanRun == SvcSpec => []StartAllComplete
<1>1. SvcInit => SvcInv
  BY ServiceAssumption DEF SvcInit, SvcInv, SvcTypes, SvcStatuses, StartAllComplete
<1>2. SvcInv /\ [SvcNext]_svcVars => SvcInv'
  <2> SUFFICES ASSUME SvcInv, [SvcNext]_svcVars PROVE SvcInv'
    OBVIOUS
  <2>0. SvcTypes /\ {"STOPPED", "RUNNING", "RESTARTING", "CRASHED", "DISABLED"} = SvcStatuses
    BY DEF SvcInv, SvcStatuses
  <2>1. CASE UNCHANGED svcVars
    BY <2>1 DEF svcVars, SvcInv, SvcTypes, StartAllComplete, Circular, CanRun, EnabledServices,
                RunningIn
  <2>2. CASE StartAll
    BY <2>2, StartAllKeeps
  <2>3. ASSUME SvcTypes', startAll' = "none" PROVE SvcInv'
    BY <2>3 DEF SvcInv, StartAllComplete
  <2>4. ASSUME NEW s \in Services, NEW D \in DependencySets[s], RegisterService(s, D) PROVE SvcInv'
    <3>1. D \in SUBSET Services
      BY ServiceAssumption
    <3>2. SvcTypes' /\ startAll' = "none"
      BY <2>0, <2>4, <3>1 DEF RegisterService, SvcTypes
    <3> QED
      BY <2>3, <3>2
  <2>5. ASSUME NEW s \in Services, UnregisterService(s) PROVE SvcInv'
    <3>1. SvcTypes' /\ startAll' = "none"
      BY <2>0, <2>5 DEF UnregisterService, SvcTypes
    <3> QED
      BY <2>3, <3>1
  <2>6. ASSUME NEW st \in [Services -> SvcStatuses], Restyled(st), enabled' \in [Services -> BOOLEAN]
        PROVE  SvcInv'
    <3>1. SvcTypes' /\ startAll' = "none"
      BY <2>0, <2>6 DEF Restyled, SvcTypes
    <3> QED
      BY <2>3, <3>1
  <2>7. \A st \in [Services -> SvcStatuses], s \in Services :
           Started(st, s) \in [Services -> SvcStatuses] /\ Stopped(st, s) \in [Services -> SvcStatuses]
    BY <2>0 DEF Started, Stopped
  <2>8. /\ status \in [Services -> SvcStatuses] /\ enabled \in [Services -> BOOLEAN]
        /\ \A s \in Services, v \in SvcStatuses :
              [status EXCEPT ![s] = v] \in [Services -> SvcStatuses]
    BY <2>0 DEF SvcTypes
  <2>9. ASSUME NEW s \in Services, StartService(s) \/ StopService(s) \/ RestartService(s)
        PROVE  SvcInv'
    BY <2>6, <2>7, <2>8, <2>9 DEF StartService, StopService, RestartService
  <2>10. ASSUME NEW s \in Services, HandleCrash(s) PROVE SvcInv'
    <3>1. "RESTARTING" \in SvcStatuses /\ "CRASHED" \in SvcStatuses /\ enabled' = enabled
      BY <2>0, <2>10 DEF HandleCrash
    <3>2. \E st \in [Services -> SvcStatuses] : Restyled(st)
      BY <2>7, <2>8, <2>10, <3>1 DEF HandleCrash
    <3> QED
      BY <2>6, <2>8, <3>1, <3>2
  <2>11. ASSUME NEW s \in Services, EnableService(s) \/ DisableService(s) PROVE SvcInv'
    <3>1. "DISABLED" \in SvcStatuses /\ enabled' \in [Services -> BOOLEAN]
      BY <2>0, <2>8, <2>11 DEF EnableService, DisableService
    <3>2. \E st \in [Services -> SvcStatuses] : Restyled(st)
      BY <2>8, <2>11, <3>1 DEF EnableService, DisableService
    <3> QED
      BY <2>6, <3>1, <3>2
  <2>12. CASE ShutdownAll
    <3> DEFINE st == [s \in Services |-> IF s \in Range(startupOrder) THEN Stopped(status, s)[s]
                                         ELSE status[s]]
    <3>1. st \in [Services -> SvcStatuses]
      BY <2>7, <2>8
    <3>2. Restyled(st) /\ enabled' = enabled
      BY <2>12 DEF ShutdownAll
    <3> HIDE DEF st
    <3> QED
      BY <2>6, <2>8, <3>1, <3>2
  <2> QED
    BY <2>1, <2>2, <2>4, <2>5, <2>9, <2>10, <2>11, <2>12 DEF SvcNext
<1>3. SvcInv => StartAllComplete
  BY DEF SvcInv
<1> QED
  BY <1>1, <1>2, <1>3, PTL DEF SvcSpec

-----------------------------------------------------------------------------
(* The space of the file system                                            *)

Walks == Seq(Names)
Node  == [type : {"FILE", "DIRECTORY", "MOUNT_POINT"}, size : Nat]

(* Nothing is without its parent: the tree loses whole branches only.        *)
Rooted(D) == \A r \in D, q \in Walks : q # Root /\ IsStrictPrefix(q, r) => q \in D

Forest(ns) ==
    /\ DOMAIN ns \subseteq Walks \ {Root} /\ Rooted(DOMAIN ns)
    /\ ns \in [DOMAIN ns -> Node]

(* What all nodes take, reachable or not, directories that once were files   *)
(* included, is covered: this is what counting fewer of them preserves.      *)
Covered(ns, used) == IsFiniteSet(Units(ns, DOMAIN ns)) /\ Space(ns, DOMAIN ns) <= used

FsInv == Forest(nodes) /\ usedSpace \in Int /\ Covered(nodes, usedSpace)

LEMMA WalksOfPaths == Paths \subseteq Walks \ {Root}
<1>1. ASSUME NEW d \in 1 .. MaxDepth, NEW p \in [1 .. d -> Names] PROVE p \in Walks \ {Root}
  <2>1. d \in Nat /\ d # 0 /\ p = [i \in 1 .. d |-> p[i]] /\ \A i \in 1 .. d : p[i] \in Names
    BY <1>1, FileSystemAssumption DEF FileSystemAssumption
  <2>2. p \in Seq(Names) /\ Len(p) = d
    BY <2>1, IsASeq
  <2> QED
    BY <2>1, <2>2, EmptySeq DEF Walks, Root
<1> QED
  BY <1>1 DEF Paths

LEMMA PrefixMeans ==
    ASSUME NEW q \in Walks, NEW r \in Walks
    PROVE  IsStrictPrefix(q, r) <=> Len(q) < Len(r) /\ \A i \in 1 .. Len(q) : q[i] = r[i]
<1>1. Len(q) \in Nat /\ Len(r) \in Nat
  BY LenProperties DEF Walks
<1>2. \A s \in Walks : \A n \in 0 .. Len(s) :
         /\ SubSeq(s, 1, n) \in Walks /\ Len(SubSeq(s, 1, n)) = n
         /\ \A i \in 1 .. n : SubSeq(s, 1, n)[i] = s[i]
  <2>1. ASSUME NEW s \in Walks, NEW n \in 0 .. Len(s)
        PROVE  /\ SubSeq(s, 1, n) \in Walks /\ Len(SubSeq(s, 1, n)) = n
               /\ \A i \in 1 .. n : SubSeq(s, 1, n)[i] = s[i]
    <3>1. Len(s) \in Nat /\ n \in Nat /\ \A i \in 1 .. n : i \in 1 .. Len(s)
      BY LenProperties DEF Walks
    <3>2. \A i \in 1 .. n : s[i] \in Names
      BY <3>1, ElementOfSeq DEF Walks
    <3>3. SubSeq(s, 1, n) = [i \in 1 .. n |-> s[i]]
      BY <3>1 DEF Walks
    <3> QED
      BY <3>1, <3>2, <3>3, IsASeq DEF Walks
  <2> QED
    BY <2>1
<1>3. ASSUME Len(q) <= Len(r)
      PROVE  SubSeq(q, 1, Len(q)) = SubSeq(r, 1, Len(q)) <=> \A i \in 1 .. Len(q) : q[i] = r[i]
  <2>1. Len(q) \in 0 .. Len(q) /\ Len(q) \in 0 .. Len(r)
    BY <1>1, <1>3
  <2> DEFINE a == SubSeq(q, 1, Len(q))
             b == SubSeq(r, 1, Len(q))
  <2>2. /\ a \in Walks /\ Len(a) = Len(q) /\ \A i \in 1 .. Len(q) : a[i] = q[i]
        /\ b \in Walks /\ Len(b) = Len(q) /\ \A i \in 1 .. Len(q) : b[i] = r[i]
    BY <1>2, <2>1
  <2> HIDE DEF a, b
  <2>3. (\A i \in 1 .. Len(q) : q[i] = r[i]) => a = b
    BY <2>2, SeqEqual DEF Walks
  <2>4. a = b => \A i \in 1 .. Len(q) : q[i] = r[i]
    BY <2>2
  <2> QED
    BY <2>3, <2>4 DEF a, b
<1>4. ASSUME Len(q) = Len(r), \A i \in 1 .. Len(q) : q[i] = r[i] PROVE q = r
  BY <1>4, SeqEqual DEF Walks
<1> QED
  BY <1>1, <1>3, <1>4 DEF IsStrictPrefix, IsPrefix

LEMMA PrefixesAscend ==
    ASSUME NEW q \in Walks, NEW r \in Walks, NEW s \in Walks,
           IsStrictPrefix(q, r), IsStrictPrefix(r, s)
    PROVE  IsStrictPrefix(q, s)
<1>0. \A w \in Walks : Len(w) \in Nat
  BY LenProperties DEF Walks
<1>1. /\ Len(q) < Len(r) /\ \A i \in 1 .. Len(q) : q[i] = r[i]
      /\ Len(r) < Len(s) /\ \A i \in 1 .. Len(r) : r[i] = s[i]
  BY PrefixMeans
<1>2. Len(q) < Len(s) /\ \A i \in 1 .. Len(q) : i \in 1 .. Len(r)
  BY <1>0, <1>1
<1>3. \A i \in 1 .. Len(q) : q[i] = s[i]
  BY <1>1, <1>2
<1> QED
  BY <1>2, <1>3, PrefixMeans

LEMMA RootFirst == \A q \in Walks : ~ IsStrictPrefix(q, Root)
<1>1. Root \in Walks /\ Len(Root) = 0 /\ \A q \in Walks : Len(q) \in Nat
  BY EmptySeq, LenProperties DEF Walks, Root
<1> QED
  BY <1>1, PrefixMeans

LEMMA Fronts ==
    /\ \A q \in Walks : q # Root => Front(q) \in Walks /\ IsStrictPrefix(Front(q), q)
    /\ \A q, r \in Walks :
          r # Root /\ IsStrictPrefix(q, r) => q = Front(r) \/ IsStrictPrefix(q, Front(r))
<1>0. \A q \in Walks : Len(q) \in Nat
  BY LenProperties DEF Walks
<1>3. ASSUME NEW q \in Walks, q # Root
      PROVE  /\ Front(q) \in Walks /\ Len(Front(q)) = Len(q) - 1
             /\ \A i \in 1 .. Len(q) - 1 : Front(q)[i] = q[i]
  <2>1. Len(q) \in Nat \ {0}
    BY <1>3, EmptySeq DEF Walks, Root
  <2>2. Len(q) - 1 \in Nat /\ \A i \in 1 .. Len(q) - 1 : i \in 1 .. Len(q)
    BY <2>1
  <2>3. \A i \in 1 .. Len(q) - 1 : q[i] \in Names
    BY <2>2, ElementOfSeq DEF Walks
  <2>4. Front(q) = [i \in 1 .. Len(q) - 1 |-> q[i]]
    BY <2>1, <2>2 DEF Front, Walks
  <2> QED
    BY <2>2, <2>3, <2>4, IsASeq DEF Walks
<1>4. ASSUME NEW q \in Walks, q # Root PROVE IsStrictPrefix(Front(q), q)
  <2>1. Len(q) \in Nat \ {0}
    BY <1>4, EmptySeq DEF Walks, Root
  <2> QED
    BY <1>3, <1>4, <2>1, PrefixMeans
<1>5. ASSUME NEW q \in Walks, NEW r \in Walks, r # Root, IsStrictPrefix(q, r), q # Front(r)
      PROVE  IsStrictPrefix(q, Front(r))
  <2> DEFINE f == Front(r)
  <2>1. f \in Walks /\ Len(f) = Len(r) - 1 /\ \A i \in 1 .. Len(r) - 1 : f[i] = r[i]
    BY <1>3, <1>5
  <2>2. Len(q) < Len(r) /\ \A i \in 1 .. Len(q) : q[i] = r[i]
    BY <1>5, PrefixMeans
  <2> HIDE DEF f
  <2>3. Len(q) <= Len(f) /\ \A i \in 1 .. Len(q) : i \in 1 .. Len(r) - 1
    BY <1>0, <2>1, <2>2
  <2>4. \A i \in 1 .. Len(q) : q[i] = f[i]
    BY <2>1, <2>2, <2>3
  <2>5. Len(q) # Len(f)
    BY <1>5, <2>1, <2>4, SeqEqual DEF Walks, f
  <2>6. Len(q) < Len(f)
    BY <1>0, <2>1, <2>3, <2>5
  <2>7. IsStrictPrefix(q, f)
    BY <2>1, <2>4, <2>6, PrefixMeans
  <2> QED
    BY <2>7 DEF f
<1>6. \A q \in Walks : q # Root => Front(q) \in Walks
  BY <1>3
<1>7. \A q \in Walks : q # Root => IsStrictPrefix(Front(q), q)
  BY <1>4
<1>8. \A q, r \in Walks :
         r # Root /\ IsStrictPrefix(q, r) => q = Front(r) \/ IsStrictPrefix(q, Front(r))
  BY <1>5
<1>9. \A q \in Walks : q # Root => Front(q) \in Walks /\ IsStrictPrefix(Front(q), q)
  BY <1>6, <1>7
<1> QED
  BY <1>8, <1>9

At(p, t) == t = p \/ IsStrictPrefix(p, t)

(* The new name's beginning is b's, the rest is what followed a.             *)
Grafted(u, s, a, b) ==
    /\ u \in Walks /\ Len(u) = Len(b) + (Len(s) - Len(a)) /\ Len(a) <= Len(s)
    /\ \A i \in 1 .. Len(b) : u[i] = b[i]
    /\ \A i \in 1 .. Len(s) - Len(a) : u[Len(b) + i] = s[Len(a) + i]
    /\ \A i \in 1 .. Len(a) : s[i] = a[i]

LEMMA RenamedGrafts ==
    ASSUME NEW a \in Walks, NEW b \in Walks, NEW s \in Walks, At(a, s)
    PROVE  Grafted(Renamed(s, a, b), s, a, b)
<1>0. \A w \in Walks : Len(w) \in Nat
  BY LenProperties DEF Walks
<1> DEFINE u == Renamed(s, a, b)
           e == SubSeq(s, Len(a) + 1, Len(s))
           n == Len(s) - Len(a)
<1>1. Len(a) <= Len(s) /\ \A i \in 1 .. Len(a) : s[i] = a[i]
  <2>1. CASE s = a
    BY <1>0, <2>1
  <2>2. CASE IsStrictPrefix(a, s)
    BY <1>0, <2>2, PrefixMeans
  <2> QED
    BY <2>1, <2>2 DEF At
<1>2. n \in Nat /\ \A i \in 1 .. n : Len(a) + i \in 1 .. Len(s)
  BY <1>0, <1>1
<1>3. \A i \in 1 .. n : s[Len(a) + i] \in Names
  BY <1>2, ElementOfSeq DEF Walks
<1>4. e = [i \in 1 .. n |-> s[Len(a) + i]]
  <2>1. /\ Len(a) \in Nat /\ Len(s) \in Nat /\ s \in Seq(Names)
        /\ (1 + Len(s)) - (Len(a) + 1) = n
        /\ \A i \in 1 .. n : (i + (Len(a) + 1)) - 1 = Len(a) + i
    BY <1>0, <1>2 DEF Walks
  <2> QED
    BY <1>2, <2>1
<1>5. e \in Walks /\ Len(e) = n /\ \A i \in 1 .. n : e[i] = s[Len(a) + i]
  BY <1>2, <1>3, <1>4, IsASeq DEF Walks
<1>6. u = b \o e
  BY DEF Renamed
<1> HIDE DEF u, e, n
<1>7. /\ u \in Walks /\ Len(u) = Len(b) + n
      /\ \A i \in 1 .. Len(b) + n : u[i] = IF i <= Len(b) THEN b[i] ELSE e[i - Len(b)]
  BY <1>5, <1>6, ConcatProperties DEF Walks
<1>8. \A i \in 1 .. Len(b) : u[i] = b[i]
  BY <1>0, <1>2, <1>7
<1>9. \A i \in 1 .. n : u[Len(b) + i] = s[Len(a) + i]
  <2>1. \A i \in 1 .. n : /\ Len(b) + i \in 1 .. Len(b) + n /\ ~ (Len(b) + i <= Len(b))
                          /\ (Len(b) + i) - Len(b) = i
    BY <1>0, <1>2
  <2> QED
    BY <1>5, <1>7, <2>1
<1> QED
  BY <1>1, <1>7, <1>8, <1>9 DEF Grafted, u, n

(* Below the new name everything is as it was below the old one.             *)
LEMMA RenamedFacts ==
    ASSUME NEW p \in Walks, NEW q \in Walks, NEW t \in Walks, At(p, t)
    PROVE  /\ Renamed(t, p, q) \in Walks /\ At(q, Renamed(t, p, q))
           /\ Renamed(Renamed(t, p, q), q, p) = t
           /\ \A x \in Walks : IsStrictPrefix(x, Renamed(t, p, q)) /\ ~ At(q, x) => IsStrictPrefix(x, q)
           /\ \A x \in Walks : IsStrictPrefix(x, Renamed(t, p, q)) /\ At(q, x) =>
                 IsStrictPrefix(Renamed(x, q, p), t)
<1>0. \A s \in Walks : Len(s) \in Nat
  BY LenProperties DEF Walks
<1> DEFINE u == Renamed(t, p, q)
<1>2. /\ u \in Walks /\ Len(u) = Len(q) + (Len(t) - Len(p)) /\ Len(p) <= Len(t)
      /\ \A i \in 1 .. Len(q) : u[i] = q[i]
      /\ \A i \in 1 .. Len(t) - Len(p) : u[Len(q) + i] = t[Len(p) + i]
      /\ \A i \in 1 .. Len(p) : t[i] = p[i]
  <2>1. Grafted(u, t, p, q)
    BY RenamedGrafts
  <2> HIDE DEF u
  <2> QED
    BY <2>1 DEF Grafted
<1> HIDE DEF u
<1>3. At(q, u)
  <2>1. CASE Len(t) = Len(p)
    <3>1. Len(u) = Len(q)
      BY <1>0, <1>2, <2>1
    <3> QED
      BY <1>2, <3>1, SeqEqual DEF At, Walks
  <2>2. CASE Len(t) # Len(p)
    <3>1. Len(q) < Len(u)
      BY <1>0, <1>2, <2>2
    <3> QED
      BY <1>2, <3>1, PrefixMeans DEF At
  <2> QED
    BY <2>1, <2>2
<1>4. Renamed(u, q, p) = t
  <2> DEFINE w == Renamed(u, q, p)
  <2>1. /\ w \in Walks /\ Len(w) = Len(p) + (Len(u) - Len(q))
        /\ \A i \in 1 .. Len(p) : w[i] = p[i]
        /\ \A i \in 1 .. Len(u) - Len(q) : w[Len(p) + i] = u[Len(q) + i]
    BY <1>2, <1>3, RenamedGrafts DEF Grafted
  <2> HIDE DEF w
  <2>2. Len(w) = Len(t) /\ Len(u) - Len(q) = Len(t) - Len(p)
    BY <1>0, <1>2, <2>1
  <2>3. ASSUME NEW i \in 1 .. Len(w) PROVE w[i] = t[i]
    <3>1. CASE i <= Len(p)
      <4>1. i \in 1 .. Len(p)
        BY <1>0, <3>1
      <4> QED
        BY <1>2, <2>1, <4>1
    <3>2. CASE ~ (i <= Len(p))
      <4> DEFINE j == i - Len(p)
      <4>1. j \in 1 .. Len(t) - Len(p) /\ Len(p) + j = i
        BY <1>0, <2>2, <3>2
      <4> HIDE DEF j
      <4>2. w[Len(p) + j] = u[Len(q) + j]
        BY <2>1, <2>2, <4>1
      <4>3. u[Len(q) + j] = t[Len(p) + j]
        BY <1>2, <4>1
      <4> QED
        BY <4>1, <4>2, <4>3
    <3> QED
      BY <3>1, <3>2
  <2>4. w = t
    BY <2>1, <2>2, <2>3, SeqEqual DEF Walks
  <2> QED
    BY <2>4 DEF w
<1>5. ASSUME NEW x \in Walks, IsStrictPrefix(x, u), ~ At(q, x) PROVE IsStrictPrefix(x, q)
  <2>1. Len(x) < Len(u) /\ \A i \in 1 .. Len(x) : x[i] = u[i]
    BY <1>2, <1>5, PrefixMeans
  <2>2. CASE Len(x) < Len(q)
    <3>1. \A i \in 1 .. Len(x) : i \in 1 .. Len(q)
      BY <1>0, <2>2
    <3> QED
      BY <1>2, <2>1, <2>2, <3>1, PrefixMeans
  <2>3. CASE ~ (Len(x) < Len(q))
    <3>1. \A i \in 1 .. Len(q) : i \in 1 .. Len(x)
      BY <1>0, <2>3
    <3>2. \A i \in 1 .. Len(q) : q[i] = x[i]
      BY <1>2, <2>1, <3>1
    <3>3. Len(x) = Len(q) \/ Len(q) < Len(x)
      BY <1>0, <2>3
    <3>4. At(q, x)
      <4>1. CASE Len(x) = Len(q)
        BY <3>2, <4>1, SeqEqual DEF Walks, At
      <4>2. CASE Len(q) < Len(x)
        BY <3>2, <4>2, PrefixMeans DEF At
      <4> QED
        BY <3>3, <4>1, <4>2
    <3> QED
      BY <1>5, <3>4
  <2> QED
    BY <2>2, <2>3
<1>6. ASSUME NEW x \in Walks, IsStrictPrefix(x, u), At(q, x)
      PROVE  IsStrictPrefix(Renamed(x, q, p), t)
  <2> DEFINE w == Renamed(x, q, p)
  <2>1. Len(x) < Len(u) /\ \A i \in 1 .. Len(x) : x[i] = u[i]
    BY <1>2, <1>6, PrefixMeans
  <2>2. /\ w \in Walks /\ Len(w) = Len(p) + (Len(x) - Len(q)) /\ Len(q) <= Len(x)
        /\ \A i \in 1 .. Len(p) : w[i] = p[i]
        /\ \A i \in 1 .. Len(x) - Len(q) : w[Len(p) + i] = x[Len(q) + i]
    <3>1. Grafted(w, x, q, p)
      BY <1>6, RenamedGrafts
    <3>2. Len(p) \in Nat /\ Len(x) \in Nat /\ Len(q) \in Nat
      BY <1>0
    <3> HIDE DEF w
    <3> QED
      BY <3>1, <3>2 DEF Grafted
  <2> HIDE DEF w
  <2>3. Len(w) < Len(t) /\ Len(p) <= Len(w)
    BY <1>0, <1>2, <2>1, <2>2
  <2>4. ASSUME NEW i \in 1 .. Len(w) PROVE w[i] = t[i]
    <3>1. CASE i <= Len(p)
      <4>1. i \in 1 .. Len(p)
        BY <1>0, <3>1
      <4> QED
        BY <1>2, <2>2, <4>1
    <3>2. CASE ~ (i <= Len(p))
      <4> DEFINE j == i - Len(p)
      <4>1. /\ j \in 1 .. Len(x) - Len(q) /\ Len(p) + j = i /\ j \in 1 .. Len(t) - Len(p)
            /\ Len(q) + j \in 1 .. Len(x)
        BY <1>0, <1>2, <2>1, <2>2, <2>3, <3>2
      <4> HIDE DEF j
      <4>2. w[Len(p) + j] = x[Len(q) + j] /\ x[Len(q) + j] = u[Len(q) + j]
        BY <2>1, <2>2, <4>1
      <4>3. u[Len(q) + j] = t[Len(p) + j]
        BY <1>2, <4>1
      <4> QED
        BY <4>1, <4>2, <4>3
    <3> QED
      BY <3>1, <3>2
  <2>5. IsStrictPrefix(w, t)
    BY <2>2, <2>3, <2>4, PrefixMeans
  <2> QED
    BY <2>5 DEF w
<1> QED
  BY <1>2, <1>3, <1>4, <1>5, <1>6 DEF u

LEMMA UnitsSame ==
    ASSUME NEW ns, NEW ms, NEW D, \A q \in D : ms[q].size = ns[q].size
    PROVE  Units(ms, D) = Units(ns, D)
<1>1. \A q \in D : {q} \X (1 .. ms[q].size) = {q} \X (1 .. ns[q].size)
  OBVIOUS
<1> QED
  BY <1>1 DEF Units

LEMMA UnitsSplit ==
    ASSUME NEW ns, NEW Z, IsFiniteSet(Units(ns, Z)), NEW Y \in SUBSET Z
    PROVE  /\ IsFiniteSet(Units(ns, Y)) /\ Space(ns, Y) \in Nat
           /\ IsFiniteSet(Units(ns, Z \ Y)) /\ Space(ns, Z \ Y) \in Nat
           /\ Space(ns, Z) = Space(ns, Y) + Space(ns, Z \ Y)
<1> DEFINE A == Units(ns, Y)
           B == Units(ns, Z \ Y)
<1>1. Units(ns, Z) = A \cup B /\ A \cap B = {}
  BY DEF Units
<1> HIDE DEF A, B
<1>2. A \in SUBSET Units(ns, Z) /\ B \in SUBSET Units(ns, Z)
  BY <1>1
<1>3. IsFiniteSet(A) /\ IsFiniteSet(B)
  BY <1>2, FS_Subset
<1>4. Cardinality(A \cup B) = Cardinality(A) + Cardinality(B)
  BY <1>1, <1>3, DisjointUnion
<1>5. Cardinality(A) \in Nat /\ Cardinality(B) \in Nat
  BY <1>3, FS_CardinalityType
<1> QED
  BY <1>1, <1>3, <1>4, <1>5 DEF Space, A, B

LEMMA UnitsOfOne ==
    ASSUME NEW ns, NEW p, ns[p].size \in Nat
    PROVE  IsFiniteSet(Units(ns, {p})) /\ Space(ns, {p}) = ns[p].size
<1> DEFINE n == ns[p].size
           I == 1 .. n
<1>1. Units(ns, {p}) = {p} \X I
  BY DEF Units
<1>2. 1 \in Int /\ n \in Int
  OBVIOUS
<1>3. IsFiniteSet(I) /\ Cardinality(I) = IF 1 > n THEN 0 ELSE n - 1 + 1
  BY <1>2, FS_Interval
<1>4. Cardinality(I) = n /\ n \in Nat
  BY <1>2, <1>3
<1>5. IsFiniteSet({p}) /\ Cardinality({p}) = 1
  BY FS_Singleton
<1> HIDE DEF I, n
<1>6. IsFiniteSet({p} \X I) /\ Cardinality({p} \X I) = 1 * n
  BY <1>3, <1>4, <1>5, FS_Product
<1>7. 1 * n = n
  BY <1>4
<1> QED
  BY <1>1, <1>6, <1>7 DEF Space, n

(* One node comes, or takes the place of another.                            *)
LEMMA PlacedCovered ==
    ASSUME NEW ns, Forest(ns), NEW used \in Int, Covered(ns, used),
           NEW p \in Walks \ {Root}, p \in DOMAIN ns \/ Front(p) \in DOMAIN ns \cup {Root},
           NEW n \in Node, NEW left \in Int, NEW used2 \in Int,
           left = IF p \in DOMAIN ns THEN used - ns[p].size ELSE used,
           left + n.size <= used2
    PROVE  Forest(Placed(ns, p, n)) /\ Covered(Placed(ns, p, n), used2)
<1> DEFINE ms == Placed(ns, p, n)
           D  == DOMAIN ns
           R  == D \ {p}
<1>1. /\ DOMAIN ms = D \cup {p} /\ ms \in [DOMAIN ms -> Node]
      /\ ms[p] = n /\ \A q \in R : ms[q] = ns[q]
  BY DEF Placed, Forest
<1>2. Rooted(D \cup {p})
  <2>1. ASSUME NEW q \in Walks, q # Root, IsStrictPrefix(q, p) PROVE q \in D
    <3>1. CASE p \in D
      BY <2>1, <3>1 DEF Forest, Rooted
    <3>2. CASE Front(p) \in D \cup {Root}
      <4>1. q = Front(p) \/ IsStrictPrefix(q, Front(p))
        BY <2>1, Fronts
      <4>2. ~ IsStrictPrefix(q, Root)
        BY RootFirst
      <4> QED
        BY <2>1, <3>2, <4>1, <4>2 DEF Forest, Rooted
    <3> QED
      BY <3>1, <3>2
  <2> QED
    BY <2>1 DEF Forest, Rooted
<1>3. n.size \in Nat /\ \A q \in D : ns[q].size \in Nat
  BY DEF Node, Forest
<1>4. /\ IsFiniteSet(Units(ns, R)) /\ Space(ns, R) \in Nat
      /\ Space(ns, R) <= left
  <2>1. CASE p \in D
    <3>1. /\ IsFiniteSet(Units(ns, D \ {p})) /\ Space(ns, D \ {p}) \in Nat
          /\ Space(ns, D) = Space(ns, {p}) + Space(ns, D \ {p})
      <4> DEFINE E == {p}
      <4>1. E \in SUBSET D /\ IsFiniteSet(Units(ns, D))
        BY <2>1 DEF Covered
      <4> HIDE DEF D, E
      <4>2. IsFiniteSet(Units(ns, D \ E)) /\ Space(ns, D \ E) \in Nat
        BY <4>1, UnitsSplit
      <4>3. Space(ns, D) = Space(ns, E) + Space(ns, D \ E)
        BY <4>1, UnitsSplit
      <4> QED
        BY <4>2, <4>3 DEF E
    <3>2. Space(ns, {p}) = ns[p].size
      BY <1>3, <2>1, UnitsOfOne
    <3> QED
      BY <1>3, <2>1, <3>1, <3>2 DEF Covered
  <2>2. CASE p \notin D
    <3>1. R = D
      BY <2>2
    <3>2. IsFiniteSet(Units(ns, D)) /\ Space(ns, D) <= left
      BY <2>2 DEF Covered
    <3> QED
      BY <3>1, <3>2, FS_CardinalityType DEF Space
  <2> QED
    BY <2>1, <2>2
<1> HIDE DEF ms
<1>5. Units(ms, R) = Units(ns, R)
  BY <1>1, UnitsSame
<1>6. IsFiniteSet(Units(ms, {p})) /\ Space(ms, {p}) = n.size
  BY <1>1, <1>3, UnitsOfOne
<1>7. Units(ms, DOMAIN ms) = Units(ms, {p}) \cup Units(ms, R)
  BY <1>1 DEF Units
<1>8. IsFiniteSet(Units(ms, DOMAIN ms))
  BY <1>4, <1>5, <1>6, <1>7, FS_Union
<1>9. Space(ms, DOMAIN ms) = Space(ms, {p}) + Space(ms, R)
  <2> DEFINE E == {p}
             all == DOMAIN ms
  <2>1. E \in SUBSET all /\ all \ E = R /\ IsFiniteSet(Units(ms, all))
    BY <1>1, <1>8
  <2> HIDE DEF E, all
  <2>2. Space(ms, all) = Space(ms, E) + Space(ms, all \ E)
    BY <2>1, UnitsSplit
  <2> QED
    BY <2>1, <2>2 DEF E, all
<1>10. Space(ms, R) = Space(ns, R)
  BY <1>5 DEF Space
<1>11. Space(ms, DOMAIN ms) <= used2
  BY <1>3, <1>4, <1>6, <1>9, <1>10
<1>12. Forest(ms)
  BY <1>1, <1>2 DEF Forest
<1> QED
  BY <1>8, <1>11, <1>12 DEF Covered, ms

(* A branch goes, and no more is taken off than it held.                     *)
LEMMA WithoutCovered ==
    ASSUME FsInv, NEW p \in Walks, NEW taken \in Int, taken <= Space(nodes, Tree(p))
    PROVE  /\ Forest(Without(nodes, Tree(p)))
           /\ Covered(Without(nodes, Tree(p)), usedSpace - taken)
<1> DEFINE ms == Without(nodes, Tree(p))
           D  == DOMAIN nodes
           R  == D \ Tree(p)
<1>1. DOMAIN ms = R /\ ms \in [DOMAIN ms -> Node] /\ \A q \in R : ms[q] = nodes[q]
  BY DEF Without, Forest, FsInv
<1>2. Tree(p) \in SUBSET D /\ D \subseteq Walks \ {Root}
  BY DEF Tree, Under, Forest, FsInv
<1>3. Rooted(R)
  <2>1. ASSUME NEW r \in R, NEW q \in Walks, q # Root, IsStrictPrefix(q, r) PROVE q \in R
    <3>1. q \in D /\ r \in Walks
      BY <1>2, <2>1 DEF Forest, FsInv, Rooted
    <3>2. q # p
      BY <2>1 DEF Tree, Under
    <3>3. ~ IsStrictPrefix(p, q)
      BY <2>1, <3>1, PrefixesAscend DEF Tree, Under
    <3> QED
      BY <3>1, <3>2, <3>3 DEF Tree, Under
  <2> QED
    BY <2>1 DEF Rooted
<1> HIDE DEF ms
<1>4. Units(ms, R) = Units(nodes, R)
  BY <1>1, UnitsSame
<1>5. /\ IsFiniteSet(Units(nodes, R)) /\ Space(nodes, R) \in Nat /\ Space(nodes, Tree(p)) \in Nat
      /\ Space(nodes, D) = Space(nodes, Tree(p)) + Space(nodes, R)
  BY <1>2, UnitsSplit DEF FsInv, Covered
<1>6. Space(ms, R) = Space(nodes, R)
  BY <1>4 DEF Space
<1>7. Space(ms, R) <= usedSpace - taken
  BY <1>5, <1>6 DEF FsInv, Covered
<1> QED
  BY <1>1, <1>2, <1>3, <1>4, <1>5, <1>7 DEF Forest, Covered, ms

(* A branch under a new name: what lies below it is what lay below the old.  *)
LEMMA MovedCovered ==
    ASSUME FsInv, NEW p \in Walks \ {Root}, NEW q \in Walks \ {Root},
           Front(q) \in DOMAIN nodes \cup {Root}, q \notin DOMAIN nodes, ~ IsStrictPrefix(p, q)
    PROVE  Forest(Moved(nodes, p, q)) /\ Covered(Moved(nodes, p, q), usedSpace)
<1> DEFINE ms == Moved(nodes, p, q)
           D  == DOMAIN nodes
           T  == Tree(p)
           M  == {Renamed(t, p, q) : t \in T}
           old(r) == IF At(q, r) THEN Renamed(r, q, p) ELSE r
<1>1. /\ D \subseteq Walks \ {Root} /\ T \subseteq D /\ \A t \in D : t \in T <=> At(p, t)
      /\ \A t \in D : nodes[t] \in Node
      /\ \A r \in D, x \in Walks : x # Root /\ IsStrictPrefix(x, r) => x \in D
  BY DEF FsInv, Forest, Rooted, Tree, Under, At
<1>2. DOMAIN ms = (D \ T) \cup M /\ \A r \in (D \ T) \cup M : ms[r] = nodes[old(r)]
  BY DEF Moved, At
<1>3. ASSUME NEW r \in D PROVE ~ At(q, r)
  BY <1>1, <1>3 DEF At
<1>4. ASSUME NEW t \in T
      PROVE  LET r == Renamed(t, p, q)
             IN  r \in Walks \ {Root} /\ At(q, r) /\ old(r) = t
  <2> DEFINE r == Renamed(t, p, q)
  <2>1. r \in Walks /\ At(q, r) /\ Renamed(r, q, p) = t
    BY <1>1, RenamedFacts
  <2> HIDE DEF r
  <2>2. r # Root
    BY <2>1, RootFirst DEF At
  <2> QED
    BY <2>1, <2>2 DEF r
<1>5. ASSUME NEW r \in M
      PROVE  r \in Walks \ {Root} /\ At(q, r) /\ old(r) \in T /\ Renamed(old(r), p, q) = r
  <2>1. PICK t \in T : r = Renamed(t, p, q)
    BY <1>5
  <2> QED
    BY <1>4, <2>1
<1>6. ASSUME NEW r \in D \ T PROVE r \in Walks \ {Root} /\ ~ At(q, r) /\ old(r) = r
  BY <1>1, <1>3
<1> HIDE DEF ms, M
<1>7. ASSUME NEW r \in (D \ T) \cup M PROVE r \in Walks \ {Root} /\ old(r) \in D
  BY <1>1, <1>5, <1>6
<1>8. ASSUME NEW r \in M, NEW x \in Walks, x # Root, IsStrictPrefix(x, r)
      PROVE  x \in (D \ T) \cup M
  <2>1. PICK t \in T : r = Renamed(t, p, q)
    BY DEF M
  <2>2. t \in Walks /\ At(p, t) /\ t \in D
    BY <1>1
  <2>3. CASE At(q, x)
    <3> DEFINE y == Renamed(x, q, p)
    <3>1. y \in Walks /\ At(p, y) /\ Renamed(y, p, q) = x
      BY <2>3, RenamedFacts
    <3>2. IsStrictPrefix(y, t)
      BY <1>8, <2>1, <2>2, <2>3, RenamedFacts
    <3> HIDE DEF y
    <3>3. y # Root
      BY <3>1, RootFirst DEF At
    <3>4. y \in T
      BY <1>1, <2>2, <3>1, <3>2, <3>3
    <3> QED
      BY <3>1, <3>4 DEF M
  <2>4. CASE ~ At(q, x)
    <3>1. IsStrictPrefix(x, q)
      BY <1>8, <2>1, <2>2, <2>4, RenamedFacts
    <3>2. x = Front(q) \/ IsStrictPrefix(x, Front(q))
      BY <3>1, Fronts
    <3>3. x \in D
      BY <1>1, <1>8, <3>2, RootFirst
    <3>4. ~ At(p, x)
      BY <3>1, PrefixesAscend DEF At
    <3> QED
      BY <1>1, <3>3, <3>4
  <2> QED
    BY <2>3, <2>4
<1>9. ASSUME NEW r \in D \ T, NEW x \in Walks, x # Root, IsStrictPrefix(x, r)
      PROVE  x \in (D \ T) \cup M
  <2>1. x \in D /\ r \in Walks /\ ~ At(p, r)
    BY <1>1, <1>9
  <2>2. ~ At(p, x)
    BY <1>9, <2>1, PrefixesAscend DEF At
  <2> QED
    BY <1>1, <2>1, <2>2
<1>10. Rooted(DOMAIN ms)
  BY <1>2, <1>8, <1>9 DEF Rooted
<1>11. ms \in [DOMAIN ms -> Node]
  <2>1. \A r \in DOMAIN ms : ms[r] \in Node
    BY <1>1, <1>2, <1>7
  <2>2. ms = [r \in DOMAIN ms |-> ms[r]]
    BY DEF ms, Moved
  <2> QED
    BY <2>1, <2>2
<1>12. Forest(ms)
  BY <1>2, <1>7, <1>10, <1>11 DEF Forest
<1>13. ASSUME NEW r \in (D \ T) \cup M, NEW x \in (D \ T) \cup M, old(r) = old(x) PROVE r = x
  <2>1. CASE r \in M /\ x \in M
    BY <1>5, <1>13, <2>1
  <2>2. CASE r \in D \ T /\ x \in D \ T
    BY <1>6, <1>13, <2>2
  <2>3. ~ (r \in M /\ x \in D \ T) /\ ~ (r \in D \ T /\ x \in M)
    BY <1>5, <1>6, <1>13
  <2> QED
    BY <2>1, <2>2, <2>3
<1> DEFINE S == Units(ms, DOMAIN ms)
           U == Units(nodes, D)
           f == [w \in S |-> <<old(w[1]), w[2]>>]
<1>14. \A w \in S : w = <<w[1], w[2]>> /\ w[1] \in DOMAIN ms /\ w[2] \in 1 .. ms[w[1]].size
  BY DEF Units
<1>15. \A w \in S : old(w[1]) \in D /\ w[2] \in 1 .. nodes[old(w[1])].size
  BY <1>2, <1>7, <1>14
<1>16. \A w \in S : f[w] \in U
  BY <1>15 DEF Units
<1>17. \A v, w \in S : f[v] = f[w] => v = w
  <2>1. ASSUME NEW v \in S, NEW w \in S, f[v] = f[w] PROVE v = w
    <3>1. old(v[1]) = old(w[1]) /\ v[2] = w[2]
      BY <2>1
    <3>2. v[1] = w[1]
      BY <1>2, <1>13, <1>14, <3>1
    <3> QED
      BY <1>14, <3>1, <3>2
  <2> QED
    BY <2>1
<1>18. f \in Injection(S, U)
  <2>1. f \in [S -> U] /\ DOMAIN f = S
    BY <1>16
  <2> HIDE DEF f
  <2> QED
    BY <1>17, <2>1 DEF Injection, IsInjective
<1> HIDE DEF S, U, f
<1>19. IsFiniteSet(U)
  BY DEF FsInv, Covered, U
<1>20. IsFiniteSet(S) /\ Cardinality(S) <= Cardinality(U)
  BY <1>18, <1>19, FS_Injection
<1>21. Cardinality(S) \in Nat /\ Cardinality(U) \in Nat
  BY <1>19, <1>20, FS_CardinalityType
<1>22. Cardinality(U) <= usedSpace
  BY DEF FsInv, Covered, Space, U
<1> QED
  BY <1>12, <1>20, <1>21, <1>22 DEF Covered, Space, FsInv, S, ms

LEMMA FsStep ==
    ASSUME FsInv, FsNext
    PROVE  FsInv'
<1>0. /\ Paths \subseteq Walks \ {Root} /\ \A p \in DOMAIN nodes : nodes[p] \in Node
      /\ nodes = [q \in DOMAIN nodes |-> nodes[q]]
      /\ usedSpace \in Int /\ Forest(nodes) /\ Covered(nodes, usedSpace)
  BY WalksOfPaths DEF FsInv, Forest
<1>1. ASSUME NEW p \in Paths, NEW s \in FileSizes, CreateFile(p, s) PROVE FsInv'
  <2>1. /\ p \notin DOMAIN nodes /\ Front(p) \in DOMAIN nodes \cup {Root}
        /\ nodes' = Placed(nodes, p, Leaf("FILE", s)) /\ usedSpace' = usedSpace + s
    BY <1>1 DEF CreateFile, Creatable, FoundAs, Found
  <2>2. s \in Nat /\ Leaf("FILE", s) \in Node /\ Leaf("FILE", s).size = s
    BY FileSystemAssumption DEF FileSystemAssumption, Leaf, Node
  <2>3. usedSpace + s \in Int
    BY <1>0, <2>2
  <2>4. Forest(nodes') /\ Covered(nodes', usedSpace + s)
    BY <1>0, <2>1, <2>2, <2>3, PlacedCovered
  <2> QED
    BY <2>1, <2>3, <2>4 DEF FsInv
<1>2. ASSUME NEW p \in Paths, CreateDirectory(p) PROVE FsInv'
  <2>1. /\ p \notin DOMAIN nodes /\ Front(p) \in DOMAIN nodes \cup {Root}
        /\ nodes' = Placed(nodes, p, Leaf("DIRECTORY", 0)) /\ usedSpace' = usedSpace
    BY <1>2 DEF CreateDirectory, Creatable, FoundAs, Found
  <2>2. Leaf("DIRECTORY", 0) \in Node /\ Leaf("DIRECTORY", 0).size = 0 /\ usedSpace + 0 = usedSpace
    BY <1>0 DEF Leaf, Node
  <2>3. Forest(nodes') /\ Covered(nodes', usedSpace)
    BY <1>0, <2>1, <2>2, PlacedCovered
  <2> QED
    BY <1>0, <2>1, <2>3 DEF FsInv
<1>3. ASSUME NEW p \in Paths, NEW s \in Nat, p \in DOMAIN nodes,
             nodes' = [nodes EXCEPT ![p].size = s], usedSpace' = usedSpace - nodes[p].size + s
      PROVE  FsInv'
  <2> DEFINE node == [nodes[p] EXCEPT !.size = s]
             rest == usedSpace - nodes[p].size
             total == rest + s
  <2>1. node \in Node /\ node.size = s
    BY <1>0, <1>3 DEF Node
  <2>2. nodes' = Placed(nodes, p, node)
    BY <1>0, <1>3 DEF Placed
  <2>3. rest \in Int /\ total \in Int /\ usedSpace' = total
    BY <1>0, <1>3 DEF Node
  <2>4. rest = IF p \in DOMAIN nodes THEN usedSpace - nodes[p].size ELSE usedSpace
    BY <1>3
  <2> HIDE DEF node, rest
  <2>5. rest + node.size <= total
    BY <2>1, <2>3
  <2> HIDE DEF total
  <2>6. p \in Walks \ {Root} /\ p \in DOMAIN nodes
    BY <1>0, <1>3
  <2>7. Forest(Placed(nodes, p, node)) /\ Covered(Placed(nodes, p, node), total)
    BY <1>0, <2>1, <2>3, <2>4, <2>5, <2>6, PlacedCovered
  <2> QED
    BY <2>2, <2>3, <2>7 DEF FsInv
<1>4. ASSUME NEW p \in Paths, NEW s \in FileSizes, WriteFile(p, s) PROVE FsInv'
  <2>1. p \in DOMAIN nodes
    BY <1>0, <1>4 DEF WriteFile, FoundAs, Found
  <2> QED
    BY <1>3, <1>4, <2>1, FileSystemAssumption DEF WriteFile, FileSystemAssumption
<1>5. ASSUME NEW p \in Paths, NEW s \in FileSizes, AppendFile(p, s) PROVE FsInv'
  <2>1. p \in DOMAIN nodes
    BY <1>0, <1>5 DEF AppendFile, FoundAs, Found
  <2>2. s \in Nat /\ nodes[p].size \in Nat
    BY <1>0, <2>1, FileSystemAssumption DEF FileSystemAssumption, Node
  <2> DEFINE z == nodes[p].size + s
  <2>3. z \in Nat /\ usedSpace + s = usedSpace - nodes[p].size + z
    BY <1>0, <2>2
  <2>4. nodes' = [nodes EXCEPT ![p].size = z] /\ usedSpace' = usedSpace + s
    BY <1>5 DEF AppendFile
  <2> HIDE DEF z
  <2> QED
    BY <1>3, <2>1, <2>3, <2>4
<1>6. ASSUME NEW p \in Paths, NEW taken \in Int, taken <= Space(nodes, Tree(p)),
             nodes' = Without(nodes, Tree(p)), usedSpace' = usedSpace - taken
      PROVE  FsInv'
  BY <1>0, <1>6, WithoutCovered DEF FsInv
<1>7. ASSUME NEW p \in Paths, NEW D \in SUBSET Tree(p)
      PROVE  Space(nodes, D) \in Nat /\ Space(nodes, D) <= Space(nodes, Tree(p))
  <2>1. Tree(p) \in SUBSET DOMAIN nodes
    BY DEF Tree, Under
  <2>2. IsFiniteSet(Units(nodes, Tree(p)))
    BY <1>0, <2>1, UnitsSplit DEF Covered
  <2>3. /\ Space(nodes, D) \in Nat /\ Space(nodes, Tree(p) \ D) \in Nat
        /\ Space(nodes, Tree(p)) = Space(nodes, D) + Space(nodes, Tree(p) \ D)
    BY <2>2, UnitsSplit
  <2> QED
    BY <2>3
<1>8. ASSUME NEW p \in Paths, DeleteFile(p) PROVE FsInv'
  <2>1. p \in DOMAIN nodes /\ {p} \in SUBSET Tree(p)
    BY <1>8 DEF DeleteFile, ChildAs, Child, Tree
  <2>2. nodes[p].size \in Nat
    BY <1>0, <2>1 DEF Node
  <2>3. Space(nodes, {p}) <= Space(nodes, Tree(p)) /\ Space(nodes, {p}) = nodes[p].size
    BY <1>7, <2>1, <2>2, UnitsOfOne
  <2>4. nodes[p].size \in Int /\ nodes[p].size <= Space(nodes, Tree(p))
    BY <2>2, <2>3
  <2> QED
    BY <1>6, <1>8, <2>4 DEF DeleteFile
<1>9. ASSUME NEW p \in Paths, NEW recursive \in BOOLEAN, DeleteDirectory(p, recursive) PROVE FsInv'
  <2> DEFINE taken == IF recursive THEN Space(nodes, NodesCounted(p)) ELSE 0
  <2>1. NodesCounted(p) \in SUBSET Tree(p) /\ {} \in SUBSET Tree(p)
    BY DEF NodesCounted
  <2>2. /\ Space(nodes, NodesCounted(p)) \in Nat /\ Space(nodes, NodesCounted(p)) <= Space(nodes, Tree(p))
        /\ Space(nodes, {}) \in Nat /\ Space(nodes, {}) <= Space(nodes, Tree(p))
    BY <1>7, <2>1
  <2>3. Space(nodes, {}) = 0
    BY FS_EmptySet DEF Space, Units
  <2>4. taken \in Int /\ taken <= Space(nodes, Tree(p))
    BY <2>2, <2>3
  <2>5. nodes' = Without(nodes, Tree(p)) /\ usedSpace' = usedSpace - taken
    BY <1>9 DEF DeleteDirectory
  <2> HIDE DEF taken
  <2> QED
    BY <1>6, <2>4, <2>5
<1>10. ASSUME NEW p \in Paths, NEW q \in Paths, Rename(p, q) PROVE FsInv'
  <2>1. Front(q) \in DOMAIN nodes \cup {Root} /\ q \notin DOMAIN nodes /\ usedSpace' = usedSpace
    BY <1>10 DEF Rename, Found
  <2>2. CASE IsStrictPrefix(p, q)
    <3>1. nodes' = Without(nodes, Tree(p)) /\ usedSpace' = usedSpace - 0 /\ {} \in SUBSET Tree(p)
      BY <1>0, <1>10, <2>1, <2>2 DEF Rename
    <3>2. Space(nodes, {}) = 0
      BY FS_EmptySet DEF Space, Units
    <3>3. 0 \in Int /\ 0 <= Space(nodes, Tree(p))
      BY <1>7, <3>1, <3>2
    <3> QED
      BY <1>6, <3>1, <3>3
  <2>3. CASE ~ IsStrictPrefix(p, q)
    <3>1. nodes' = Moved(nodes, p, q)
      BY <1>10, <2>3 DEF Rename
    <3>2. Forest(nodes') /\ Covered(nodes', usedSpace)
      BY <1>0, <2>1, <2>3, <3>1, MovedCovered
    <3> QED
      BY <1>0, <2>1, <3>2 DEF FsInv
  <2> QED
    BY <2>2, <2>3
<1>11. ASSUME NEW p \in Paths, Mount(p) PROVE FsInv'
  <2>1. /\ p \in DOMAIN nodes \/ Front(p) \in DOMAIN nodes \cup {Root}
        /\ nodes' = Placed(nodes, p, Leaf("MOUNT_POINT", 0)) /\ usedSpace' = usedSpace
    BY <1>0, <1>11 DEF Mount, Creatable, FoundAs, Found
  <2> DEFINE rest == IF p \in DOMAIN nodes THEN usedSpace - nodes[p].size ELSE usedSpace
  <2>2. rest \in Int /\ rest + 0 <= usedSpace
    <3>1. p \in DOMAIN nodes => nodes[p].size \in Nat
      BY <1>0 DEF Node
    <3> QED
      BY <1>0, <3>1
  <2>3. Leaf("MOUNT_POINT", 0) \in Node /\ Leaf("MOUNT_POINT", 0).size = 0
    BY DEF Leaf, Node
  <2>4. rest = IF p \in DOMAIN nodes THEN usedSpace - nodes[p].size ELSE usedSpace
    OBVIOUS
  <2> HIDE DEF rest
  <2>5. Forest(nodes') /\ Covered(nodes', usedSpace)
    BY <1>0, <2>1, <2>2, <2>3, <2>4, PlacedCovered
  <2> QED
    BY <1>0, <2>1, <2>5 DEF FsInv
<1>12. ASSUME NEW p \in Paths, Unmount(p) PROVE FsInv'
  <2>1. CASE ~ Found(p)
    <3>1. nodes' = nodes /\ usedSpace' = usedSpace
      BY <1>12, <2>1 DEF Unmount
    <3> QED
      BY <1>0, <3>1 DEF FsInv
  <2>2. CASE Found(p)
    <3>1. p \in DOMAIN nodes /\ nodes' = [nodes EXCEPT ![p].type = "DIRECTORY"] /\ usedSpace' = usedSpace
      BY <1>0, <1>12, <2>2 DEF Unmount, Found
    <3>2. /\ DOMAIN nodes' = DOMAIN nodes /\ nodes' \in [DOMAIN nodes -> Node]
          /\ \A q \in DOMAIN nodes : nodes'[q].size = nodes[q].size
      BY <1>0, <3>1 DEF Node
    <3>3. Units(nodes', DOMAIN nodes) = Units(nodes, DOMAIN nodes)
      BY <3>2, UnitsSame
    <3>4. Forest(nodes') /\ Covered(nodes', usedSpace)
      BY <1>0, <3>2, <3>3 DEF Forest, Covered, Space
    <3> QED
      BY <1>0, <3>1, <3>4 DEF FsInv
  <2> QED
    BY <2>1, <2>2
<1>13. ASSUME MountRoot \/ UnmountRoot PROVE FsInv'
  BY <1>13 DEF MountRoot, UnmountRoot, FsInv, Forest, Rooted, Covered, Space, Units
<1> QED
  BY <1>1, <1>2, <1>4, <1>5, <1>8, <1>9, <1>10, <1>11, <1>12, <1>13 DEF FsNext

(* The account covers at least every file that can be reached, whatever is   *)
(* written, deleted, renamed, mounted over or unmounted: what is taken off   *)
(* was always there (used_space_ in write_file, delete_directory, rename).   *)
THEOREM SpaceAddsUp == FsSpec => []SpaceCovered
<1>1. FsInit => FsInv
  <2>1. ASSUME FsInit PROVE FsInv
    <3>1. nodes = <<>> /\ DOMAIN nodes = {} /\ usedSpace = 0
      BY <2>1 DEF FsInit
    <3>2. Units(nodes, DOMAIN nodes) = {}
      BY <3>1 DEF Units
    <3>3. Forest(nodes)
      BY <3>1 DEF Forest, Rooted
    <3> QED
      BY <3>1, <3>2, <3>3, FS_EmptySet DEF FsInv, Covered, Space
  <2> QED
    BY <2>1
<1>2. FsInv /\ [FsNext]_fsVars => FsInv'
  <2>1. ASSUME FsInv, UNCHANGED fsVars PROVE FsInv'
    BY <2>1 DEF FsInv, Forest, Rooted, Covered, Space, Units, fsVars
  <2> QED
    BY <2>1, FsStep
<1>3. FsInv => SpaceCovered
  <2>1. ASSUME FsInv PROVE SpaceCovered
    <3> DEFINE C == NodesCounted(Root)
               D == DOMAIN nodes
    <3>1. C \in SUBSET D
      BY DEF NodesCounted, Tree, Under
    <3>2. /\ IsFiniteSet(Units(nodes, D)) /\ usedSpace \in Int
          /\ Space(nodes, D) <= usedSpace
      BY <2>1 DEF FsInv, Covered
    <3> HIDE DEF C, D
    <3>3. /\ Space(nodes, C) \in Nat /\ Space(nodes, D \ C) \in Nat
          /\ Space(nodes, D) = Space(nodes, C) + Space(nodes, D \ C)
      <4>1. IsFiniteSet(Units(nodes, D)) /\ C \in SUBSET D
        BY <3>1, <3>2
      <4>2. Space(nodes, C) \in Nat /\ Space(nodes, D \ C) \in Nat
        BY <4>1, UnitsSplit
      <4>3. Space(nodes, D) = Space(nodes, C) + Space(nodes, D \ C)
        BY <4>1, UnitsSplit
      <4> QED
        BY <4>2, <4>3
    <3> QED
      BY <3>2, <3>3 DEF SpaceCovered, C
  <2> QED
    BY <2>1
<1> QED
  BY <1>1, <1>2, <1>3, PTL DEF FsSpec

-----------------------------------------------------------------------------
(* The graph of facts.  What a question has to find is what the index says; *)
(* the index names edges of its own source and relation only, which is what *)
(* a dump of the edges needs to hold every fact the graph holds.            *)

CachedAnswers == [key : Keys, value : Seq(Concepts)]
Graphs == [edges : Seq(GraphFacts), index : [Keys -> Seq(Nat)], lru : Seq(CachedAnswers)]

IndexOfEdges(g) ==
    \A k \in Keys : \A i \in DOMAIN g.index[k] :
        g.index[k][i] \in DOMAIN g.edges /\ KeyOf(g.edges[g.index[k][i]]) = k
CacheCurrent(g) ==
    \A i \in DOMAIN g.lru : Range(Targets(g, g.lru[i].key)) \subseteq Range(g.lru[i].value)

SoundGraphs == {g \in Graphs : IndexOfEdges(g) /\ CacheCurrent(g)}
Held(g)     == {f \in GraphFacts : HasFact(g, f)}
OnDisk      == Range(learnedFile) \cup Range(dumpFile)

GraphInv ==
    /\ Graph \in SoundGraphs /\ Held(Graph) \subseteq OnDisk
    /\ learnedFile \in Seq(GraphFacts) /\ dumpFile \in Seq(GraphFacts)

LEMMA TargetsAre ==
    ASSUME NEW g \in Graphs, NEW k \in Keys, NEW t
    PROVE  t \in Range(Targets(g, k)) <=> \E i \in DOMAIN g.index[k] : t = g.edges[g.index[k][i]].target
BY DEF Targets, Range

LEMMA KeysAre == ASSUME NEW f \in GraphFacts PROVE KeyOf(f) \in Keys
BY DEF KeyOf, Keys, GraphFacts

LEMMA FieldsOf ==
    ASSUME NEW g \in Graphs
    PROVE  /\ g.edges \in Seq(GraphFacts) /\ g.index \in [Keys -> Seq(Nat)] /\ g.lru \in Seq(CachedAnswers)
           /\ \A k \in Keys : g.index[k] \in Seq(Nat)
BY DEF Graphs

\* The fact an entry of the index stands for is the one looked for.
LEMMA HeldAre ==
    ASSUME NEW g \in SoundGraphs, NEW f \in GraphFacts
    PROVE  HasFact(g, f) <=> \E i \in DOMAIN g.index[KeyOf(f)] : g.edges[g.index[KeyOf(f)][i]] = f
<1>1. g \in Graphs /\ IndexOfEdges(g) /\ KeyOf(f) \in Keys
  BY KeysAre DEF SoundGraphs
<1>2. ASSUME NEW i \in DOMAIN g.index[KeyOf(f)], f.target = g.edges[g.index[KeyOf(f)][i]].target
      PROVE  g.edges[g.index[KeyOf(f)][i]] = f
  <2> DEFINE e == g.edges[g.index[KeyOf(f)][i]]
  <2>1. e \in GraphFacts
    BY <1>1, FieldsOf, ElementOfSeq, LenProperties DEF IndexOfEdges
  <2>2. KeyOf(e) = KeyOf(f)
    BY <1>1 DEF IndexOfEdges
  <2>3. e.target = f.target
    BY <1>2
  <2> HIDE DEF e
  <2>4. e = f
    BY <2>1, <2>2, <2>3 DEF GraphFacts, KeyOf
  <2> QED BY <2>4 DEF e
<1>3. HasFact(g, f) <=> \E i \in DOMAIN g.index[KeyOf(f)] : f.target = g.edges[g.index[KeyOf(f)][i]].target
  BY <1>1, TargetsAre DEF HasFact
<1> QED BY <1>2, <1>3

LEMMA HeldAreEdges ==
    ASSUME NEW g \in SoundGraphs PROVE Held(g) \subseteq Range(g.edges)
<1> SUFFICES ASSUME NEW f \in GraphFacts, HasFact(g, f) PROVE f \in Range(g.edges)
  BY DEF Held
<1>1. PICK i \in DOMAIN g.index[KeyOf(f)] : g.edges[g.index[KeyOf(f)][i]] = f
  BY HeldAre
<1>2. g.index[KeyOf(f)][i] \in DOMAIN g.edges
  BY KeysAre DEF SoundGraphs, IndexOfEdges
<1> QED BY <1>1, <1>2 DEF Range

\* A question is answered with what the graph holds at least.
LEMMA AnswersAre ==
    ASSUME NEW g \in SoundGraphs, NEW k \in Keys
    PROVE  Answer(g, k) \in Seq(Concepts) /\ Range(Targets(g, k)) \subseteq Range(Answer(g, k))
<1>1. g \in Graphs /\ IndexOfEdges(g) /\ CacheCurrent(g)
  BY DEF SoundGraphs
<1>2. CASE Cached(g, k) # {}
  <2> DEFINE i == CHOOSE i \in Cached(g, k) : TRUE
  <2>1. i \in DOMAIN g.lru /\ g.lru[i].key = k
    BY <1>2 DEF Cached
  <2>2. Answer(g, k) = g.lru[i].value
    BY <1>2 DEF Answer
  <2> HIDE DEF i
  <2>3. g.lru[i] \in CachedAnswers
    BY <1>1, <2>1, FieldsOf, ElementOfSeq, LenProperties
  <2> QED BY <1>1, <2>1, <2>2, <2>3 DEF CachedAnswers, CacheCurrent
<1>3. CASE Cached(g, k) = {}
  <2> DEFINE x == g.index[k]
             e(i) == g.edges[x[i]].target
  <2>1. x \in Seq(Nat)
    BY <1>1, FieldsOf
  <2>2. \A i \in DOMAIN x : e(i) \in Concepts
    <3> SUFFICES ASSUME NEW i \in DOMAIN x PROVE g.edges[x[i]] \in GraphFacts
      BY DEF GraphFacts
    <3>1. x[i] \in DOMAIN g.edges
      BY <1>1 DEF IndexOfEdges
    <3> QED BY <1>1, <3>1, FieldsOf, ElementOfSeq, LenProperties
  <2>3. Targets(g, k) = [i \in 1 .. Len(x) |-> e(i)]
    BY <2>1, LenProperties DEF Targets
  <2>4. Len(x) \in Nat /\ DOMAIN x = 1 .. Len(x)
    BY <2>1, LenProperties
  <2> HIDE DEF x, e
  <2>5. [i \in 1 .. Len(x) |-> e(i)] \in Seq(Concepts)
    BY <2>2, <2>4, IsASeq
  <2> QED BY <1>3, <2>3, <2>5 DEF Answer
<1> QED BY <1>2, <1>3

\* A fact that is added is held, and so is what was held before; no answer
\* from before it is kept.
LEMMA AddedSound ==
    ASSUME NEW g \in SoundGraphs, NEW f \in GraphFacts
    PROVE  AddFact(g, f) \in SoundGraphs /\ Held(AddFact(g, f)) \subseteq Held(g) \cup {f}
<1> DEFINE h == AddFact(g, f)
           n == Len(g.edges) + 1
           key == KeyOf(f)
<1>1. CASE HasFact(g, f)
  BY <1>1 DEF AddFact
<1>2. CASE ~HasFact(g, f)
  <2>1. h = [edges |-> Append(g.edges, f), index |-> [g.index EXCEPT ![key] = Append(@, n)], lru |-> << >>]
    BY <1>2 DEF AddFact
  <2>2. /\ h.edges = Append(g.edges, f) /\ h.index = [g.index EXCEPT ![key] = Append(@, n)]
        /\ h.lru = << >>
    BY <2>1
  <2>3. /\ g.edges \in Seq(GraphFacts) /\ g.index \in [Keys -> Seq(Nat)] /\ key \in Keys
        /\ \A k \in Keys : g.index[k] \in Seq(Nat)
        /\ IndexOfEdges(g)
    BY FieldsOf, KeysAre DEF SoundGraphs
  <2>4. n \in Nat /\ n = Len(g.edges) + 1 /\ Len(g.edges) \in Nat /\ DOMAIN g.edges = 1 .. Len(g.edges)
    BY <2>3, LenProperties
  <2>5. /\ h.edges \in Seq(GraphFacts) /\ DOMAIN h.edges = 1 .. n /\ h.edges[n] = f
        /\ \A i \in DOMAIN g.edges : h.edges[i] = g.edges[i]
    BY <2>2, <2>3, <2>4, AppendProperties, LenProperties
  <2>6. /\ h.index \in [Keys -> Seq(Nat)]
        /\ \A k \in Keys \ {key} : h.index[k] = g.index[k]
        /\ h.index[key] = Append(g.index[key], n)
    <3>1. Append(g.index[key], n) \in Seq(Nat)
      BY <2>3, <2>4, AppendProperties
    <3> QED BY <2>2, <2>3, <3>1
  <2>7. h \in Graphs
    <3>1. << >> \in Seq(CachedAnswers)
      OBVIOUS
    <3> QED BY <2>1, <2>2, <2>5, <2>6, <3>1 DEF Graphs
  <2> HIDE DEF h, n, key
  <2>8. ASSUME NEW k \in Keys, NEW i \in DOMAIN h.index[k]
        PROVE  \/ i \in DOMAIN g.index[k] /\ h.index[k][i] = g.index[k][i]
               \/ k = key /\ h.index[k][i] = n
    <3>1. CASE k # key
      BY <2>6, <3>1
    <3>2. CASE k = key
      <4> DEFINE x == g.index[key]
                 y == Append(x, n)
      <4>1. x \in Seq(Nat) /\ Len(x) \in Nat /\ DOMAIN x = 1 .. Len(x)
        BY <2>3, LenProperties
      <4> HIDE DEF x
      <4>2. /\ y \in Seq(Nat) /\ Len(y) = Len(x) + 1 /\ y[Len(x) + 1] = n
            /\ \A j \in 1 .. Len(x) : y[j] = x[j]
        BY <2>4, <4>1, AppendProperties
      <4>3. i \in DOMAIN y /\ h.index[k] = y
        BY <2>6, <2>8, <3>2 DEF x
      <4> HIDE DEF y
      <4>4. i \in 1 .. Len(x) + 1
        BY <4>2, <4>3, LenProperties
      <4>5. CASE i \in 1 .. Len(x)
        BY <3>2, <4>1, <4>2, <4>3, <4>5 DEF x
      <4>6. CASE i = Len(x) + 1
        BY <3>2, <4>2, <4>3, <4>6
      <4> QED BY <4>1, <4>4, <4>5, <4>6
    <3> QED BY <3>1, <3>2
  <2>9. ASSUME NEW k \in Keys, NEW i \in DOMAIN h.index[k]
        PROVE  /\ h.index[k][i] \in DOMAIN h.edges /\ KeyOf(h.edges[h.index[k][i]]) = k
               /\ h.edges[h.index[k][i]] = f
                    \/ \E j \in DOMAIN g.index[k] : g.edges[g.index[k][j]] = h.edges[h.index[k][i]]
    <3>1. CASE i \in DOMAIN g.index[k] /\ h.index[k][i] = g.index[k][i]
      <4>1. g.index[k][i] \in DOMAIN g.edges /\ KeyOf(g.edges[g.index[k][i]]) = k
        BY <2>3, <3>1 DEF IndexOfEdges
      <4>2. h.edges[g.index[k][i]] = g.edges[g.index[k][i]] /\ g.index[k][i] \in DOMAIN h.edges
        BY <2>4, <2>5, <4>1
      <4> QED BY <3>1, <4>1, <4>2
    <3>2. CASE k = key /\ h.index[k][i] = n
      BY <2>4, <2>5, <3>2 DEF key
    <3> QED BY <2>8, <2>9, <3>1, <3>2
  <2>10. IndexOfEdges(h)
    BY <2>9 DEF IndexOfEdges
  <2>11. CacheCurrent(h)
    BY <2>2 DEF CacheCurrent
  <2>12. h \in SoundGraphs
    BY <2>7, <2>10, <2>11 DEF SoundGraphs
  <2>13. ASSUME NEW e \in GraphFacts, HasFact(h, e) PROVE HasFact(g, e) \/ e = f
    <3>1. KeyOf(e) \in Keys
      BY KeysAre
    <3>2. PICK i \in DOMAIN h.index[KeyOf(e)] : h.edges[h.index[KeyOf(e)][i]] = e
      BY <2>12, <2>13, HeldAre
    <3>3. e = f \/ \E j \in DOMAIN g.index[KeyOf(e)] : g.edges[g.index[KeyOf(e)][j]] = e
      BY <2>9, <3>1, <3>2
    <3> QED BY <3>3, HeldAre
  <2>14. Held(h) \subseteq Held(g) \cup {f}
    BY <2>13 DEF Held
  <2> QED BY <2>12, <2>14 DEF h
<1> QED BY <1>1, <1>2

\* What is forgotten leaves every answer with what is left at least.
LEMMA CorrectedSound ==
    ASSUME NEW g \in SoundGraphs, NEW f \in GraphFacts
    PROVE  OnlyRight(g, f) \in SoundGraphs /\ Held(OnlyRight(g, f)) \subseteq Held(g)
<1> DEFINE h == OnlyRight(g, f)
           key == KeyOf(f)
           known == g.index[key]
           I == {i \in DOMAIN known : g.edges[known[i]].target = f.target}
<1>1. /\ g \in Graphs /\ g.index \in [Keys -> Seq(Nat)] /\ key \in Keys /\ known \in Seq(Nat)
      /\ IndexOfEdges(g) /\ CacheCurrent(g) /\ g.lru \in Seq(CachedAnswers)
  BY FieldsOf, KeysAre DEF SoundGraphs
<1>2. h = [g EXCEPT !.index[key] = Picked(known, I)]
  BY DEF OnlyRight
<1>3. /\ Picked(known, I) \in Seq(Nat)
      /\ \A i \in DOMAIN Picked(known, I) : \E m \in I : Picked(known, I)[i] = known[m]
  <2>1. I \in SUBSET DOMAIN known
    OBVIOUS
  <2> HIDE DEF I, known
  <2> QED BY <1>1, <2>1, PickedElements
<1>4. h.edges = g.edges /\ h.lru = g.lru /\ h.index = [g.index EXCEPT ![key] = Picked(known, I)]
  BY <1>1, <1>2 DEF Graphs
<1>5. h \in Graphs
  <2>1. h.index \in [Keys -> Seq(Nat)]
    BY <1>1, <1>3, <1>4
  <2>2. h = [edges |-> h.edges, index |-> h.index, lru |-> h.lru]
    BY <1>1, <1>2 DEF Graphs
  <2> HIDE DEF h
  <2> QED BY <1>1, <1>4, <2>1, <2>2, FieldsOf DEF Graphs
<1>6. ASSUME NEW k \in Keys, NEW i \in DOMAIN h.index[k]
      PROVE  \E j \in DOMAIN g.index[k] : h.index[k][i] = g.index[k][j]
  <2>1. CASE k # key
    BY <1>1, <1>4, <2>1
  <2>2. CASE k = key
    <3>1. h.index[k] = Picked(known, I)
      BY <1>1, <1>4, <2>2
    <3>2. PICK m \in I : Picked(known, I)[i] = known[m]
      BY <1>3, <3>1
    <3> QED BY <2>2, <3>1, <3>2
  <2> QED BY <2>1, <2>2
<1> HIDE DEF h
<1>7. ASSUME NEW k \in Keys, NEW t, t \in Range(Targets(h, k)) PROVE t \in Range(Targets(g, k))
  <2>1. PICK i \in DOMAIN h.index[k] : t = h.edges[h.index[k][i]].target
    BY <1>5, <1>7, TargetsAre
  <2>2. PICK j \in DOMAIN g.index[k] : h.index[k][i] = g.index[k][j]
    BY <1>6
  <2>3. t = g.edges[g.index[k][j]].target
    BY <1>4, <2>1, <2>2
  <2> QED BY <1>1, <2>3, TargetsAre
<1>8. IndexOfEdges(h)
  <2> SUFFICES ASSUME NEW k \in Keys, NEW i \in DOMAIN h.index[k]
               PROVE  h.index[k][i] \in DOMAIN h.edges /\ KeyOf(h.edges[h.index[k][i]]) = k
    BY DEF IndexOfEdges
  <2>1. PICK j \in DOMAIN g.index[k] : h.index[k][i] = g.index[k][j]
    BY <1>6
  <2>2. g.index[k][j] \in DOMAIN g.edges /\ KeyOf(g.edges[g.index[k][j]]) = k
    BY <1>1 DEF IndexOfEdges
  <2> QED BY <1>4, <2>1, <2>2
<1>9. CacheCurrent(h)
  <2> SUFFICES ASSUME NEW i \in DOMAIN h.lru
               PROVE  Range(Targets(h, h.lru[i].key)) \subseteq Range(h.lru[i].value)
    BY DEF CacheCurrent
  <2>1. h.lru[i].key \in Keys
    <3>1. g.lru[i] \in CachedAnswers
      BY <1>1, <1>4, ElementOfSeq, LenProperties
    <3> QED BY <1>4, <3>1 DEF CachedAnswers
  <2>2. Range(Targets(g, g.lru[i].key)) \subseteq Range(g.lru[i].value)
    BY <1>1, <1>4 DEF CacheCurrent
  <2> QED BY <1>4, <1>7, <2>1, <2>2
<1>10. Held(h) \subseteq Held(g)
  BY <1>7, KeysAre DEF Held, HasFact
<1> QED BY <1>5, <1>8, <1>9, <1>10 DEF SoundGraphs, h

\* Looking an answer up changes the cache only, and puts nothing else in it.
LEMMA QueriedSound ==
    ASSUME NEW g \in SoundGraphs, NEW k \in Keys
    PROVE  Queried(g, k) \in SoundGraphs /\ Held(Queried(g, k)) = Held(g)
<1> DEFINE h == Queried(g, k)
           entry == [key |-> k, value |-> Answer(g, k)]
           I == {i \in DOMAIN g.lru : g.lru[i].key # k}
           rest == Picked(g.lru, I)
           all == <<entry>> \o rest
           m == IF Len(all) > LruCapacity THEN LruCapacity ELSE Len(all)
<1>1. /\ g \in Graphs /\ IndexOfEdges(g) /\ CacheCurrent(g) /\ g.lru \in Seq(CachedAnswers)
  BY FieldsOf DEF SoundGraphs
<1>2. h = [g EXCEPT !.lru = SubSeq(all, 1, m)]
  BY DEF Queried, LruPut
<1>3. /\ rest \in Seq(CachedAnswers)
      /\ \A i \in DOMAIN rest : \E j \in I : rest[i] = g.lru[j]
  <2>1. I \in SUBSET DOMAIN g.lru
    OBVIOUS
  <2> HIDE DEF I
  <2> QED BY <1>1, <2>1, PickedElements
<1>4. entry \in CachedAnswers
  BY AnswersAre DEF CachedAnswers
<1> HIDE DEF entry, rest
<1>5. /\ all \in Seq(CachedAnswers) /\ Len(all) = 1 + Len(rest) /\ Len(rest) \in Nat
      /\ all[1] = entry /\ \A i \in 2 .. Len(all) : i - 1 \in DOMAIN rest /\ all[i] = rest[i - 1]
  <2>1. <<entry>> \in Seq(CachedAnswers) /\ Len(<<entry>>) = 1 /\ <<entry>>[1] = entry
    BY <1>4
  <2>2. Len(rest) \in Nat /\ DOMAIN rest = 1 .. Len(rest)
    BY <1>3, LenProperties
  <2> DEFINE one == <<entry>>
  <2> HIDE DEF one
  <2>3. one \in Seq(CachedAnswers) /\ Len(one) = 1 /\ one[1] = entry
    BY <2>1 DEF one
  <2>4. /\ one \o rest \in Seq(CachedAnswers) /\ Len(one \o rest) = Len(one) + Len(rest)
        /\ \A i \in 1 .. Len(one) + Len(rest) :
              (one \o rest)[i] = IF i <= Len(one) THEN one[i] ELSE rest[i - Len(one)]
    BY <1>3, <2>3, ConcatProperties
  <2> QED BY <2>2, <2>3, <2>4 DEF one
<1> HIDE DEF all
<1>6. m \in 0 .. Len(all)
  BY <1>5, GraphAssumption
<1> HIDE DEF m
<1>7. /\ SubSeq(all, 1, m) \in Seq(CachedAnswers)
      /\ \A i \in DOMAIN SubSeq(all, 1, m) : i \in 1 .. Len(all) /\ SubSeq(all, 1, m)[i] = all[i]
  BY <1>5, <1>6, SubSeqProperties, LenProperties
<1>8. h.edges = g.edges /\ h.index = g.index /\ h.lru = SubSeq(all, 1, m)
  BY <1>1, <1>2 DEF Graphs
<1>9. h \in Graphs
  <2>1. h = [edges |-> h.edges, index |-> h.index, lru |-> h.lru]
    BY <1>1, <1>2 DEF Graphs
  <2> HIDE DEF h
  <2> QED BY <1>1, <1>7, <1>8, <2>1, FieldsOf DEF Graphs
<1>10. \A j : Targets(h, j) = Targets(g, j)
  BY <1>8 DEF Targets
<1>11. ASSUME NEW i \in DOMAIN h.lru
       PROVE  h.lru[i] = entry \/ \E j \in DOMAIN g.lru : h.lru[i] = g.lru[j]
  <2>1. i \in 1 .. Len(all) /\ h.lru[i] = all[i]
    BY <1>7, <1>8, <1>11
  <2>2. CASE i = 1
    BY <1>5, <2>1, <2>2
  <2>3. CASE i # 1
    <3>1. i - 1 \in DOMAIN rest /\ all[i] = rest[i - 1]
      BY <1>5, <2>1, <2>3
    <3> QED BY <1>3, <2>1, <3>1
  <2> QED BY <2>2, <2>3
<1> HIDE DEF h
<1>12. CacheCurrent(h)
  <2> SUFFICES ASSUME NEW i \in DOMAIN h.lru
               PROVE  Range(Targets(h, h.lru[i].key)) \subseteq Range(h.lru[i].value)
    BY DEF CacheCurrent
  <2>1. CASE h.lru[i] = entry
    BY <1>10, <2>1, AnswersAre DEF entry
  <2>2. CASE \E j \in DOMAIN g.lru : h.lru[i] = g.lru[j]
    BY <1>1, <1>10, <2>2 DEF CacheCurrent
  <2> QED BY <1>11, <2>1, <2>2
<1>13. IndexOfEdges(h)
  BY <1>1, <1>8 DEF IndexOfEdges
<1>14. Held(h) = Held(g)
  BY <1>10 DEF Held, HasFact
<1> QED BY <1>9, <1>12, <1>13, <1>14 DEF SoundGraphs, h


-----------------------------------------------------------------------------
KeptGraphs == {g \in SoundGraphs : Held(g) \subseteq OnDisk}

\* Loading adds nothing that is not on disk.
LEMMA LoadedKept ==
    ASSUME NEW start \in KeptGraphs, learnedFile \in Seq(GraphFacts), dumpFile \in Seq(GraphFacts)
    PROVE  LoadedLines(start) \in KeptGraphs
<1> DEFINE lines == dumpFile \o learnedFile
           n == Len(lines)
           base == start
           round(w, i) == AddFact(w, lines[i])
           loop[i \in 0 .. n] == IF i = 0 THEN base ELSE round(loop[i - 1], i)
           g == [c \in KeptGraphs \X (1 .. n) |-> round(c[1], c[2])]
<1>1. n \in Nat /\ \A i \in 1 .. n : lines[i] \in GraphFacts /\ lines[i] \in OnDisk
  <2>1. /\ lines \in Seq(GraphFacts) /\ n = Len(dumpFile) + Len(learnedFile)
        /\ \A i \in 1 .. n :
              lines[i] = IF i <= Len(dumpFile) THEN dumpFile[i] ELSE learnedFile[i - Len(dumpFile)]
    BY ConcatProperties
  <2>2. /\ Len(dumpFile) \in Nat /\ DOMAIN dumpFile = 1 .. Len(dumpFile)
        /\ Len(learnedFile) \in Nat /\ DOMAIN learnedFile = 1 .. Len(learnedFile)
    BY LenProperties
  <2> HIDE DEF lines
  <2>3. n \in Nat /\ \A i \in 1 .. n : lines[i] \in GraphFacts
    BY <2>1, LenProperties, ElementOfSeq
  <2>4. ASSUME NEW i \in 1 .. n PROVE lines[i] \in OnDisk
    <3>1. CASE i <= Len(dumpFile)
      BY <2>1, <2>2, <2>3, <3>1 DEF OnDisk, Range
    <3>2. CASE ~(i <= Len(dumpFile))
      <4>1. i - Len(dumpFile) \in DOMAIN learnedFile
        BY <2>1, <2>2, <2>3, <3>2
      <4> QED BY <2>1, <3>2, <4>1 DEF OnDisk, Range
    <3> QED BY <3>1, <3>2
  <2> QED BY <2>3, <2>4
<1>2. base \in KeptGraphs
  OBVIOUS
<1>3. \A w \in KeptGraphs, i \in 1 .. n : round(w, i) \in KeptGraphs
  BY <1>1, AddedSound DEF KeptGraphs
<1>4. LoadedLines(start) = loop[n]
  BY DEF LoadedLines
<1> HIDE DEF base, round
<1>5. g \in Rounds(KeptGraphs, n)
  BY <1>3 DEF Rounds
<1>6. PICK f \in [0 .. n -> KeptGraphs] : f[0] = base /\ \A i \in 1 .. n : f[i] = g[<<f[i - 1], i>>]
  <2>1. n \in Nat
    BY <1>1
  <2> HIDE DEF g, n, loop
  <2>2. Loops(KeptGraphs, n, base, g) # {}
    BY <1>2, <1>5, <2>1, LoopExists
  <2> QED BY <2>2 DEF Loops
<1>7. f = [i \in 0 .. n |-> IF i = 0 THEN base ELSE round(f[i - 1], i)]
  <2>1. ASSUME NEW i \in 0 .. n PROVE f[i] = IF i = 0 THEN base ELSE round(f[i - 1], i)
    <3>1. CASE i # 0
      <4>1. i \in 1 .. n /\ f[i - 1] \in KeptGraphs
        BY <1>1, <3>1
      <4> QED BY <1>6, <3>1, <4>1
    <3> QED BY <1>6, <3>1
  <2> QED BY <2>1
<1>8. loop = [i \in 0 .. n |-> IF i = 0 THEN base ELSE round(loop[i - 1], i)]
  BY <1>7
<1> HIDE DEF loop, n
<1>9. loop[0] = base /\ \A i \in 1 .. n : i \in 0 .. n /\ loop[i] = round(loop[i - 1], i)
  BY <1>1, <1>8
<1>10. \A i \in 1 .. n : loop[i - 1] \in KeptGraphs => loop[i] \in KeptGraphs
  BY <1>3, <1>9
<1>11. \A i \in 0 .. n : loop[i] \in KeptGraphs
  BY <1>1, <1>2, <1>9, <1>10, LoopStays
<1>12. loop[n] \in KeptGraphs
  BY <1>1, <1>11
<1> QED BY <1>4, <1>12

\* The walk of a question: what it looks up changes the cache of its graph only.
Searches == [graph : KeptGraphs, found : {<< >>} \cup (Concepts \X Nat), visited : SUBSET Concepts,
          frontier : Seq(Concepts \X Nat)]

LEMMA EdgeFollowed ==
    ASSUME NEW w \in Searches, NEW e \in GraphFacts, NEW relation \in Relations, NEW depth \in Nat
    PROVE  FollowEdge(w, e, relation, depth) \in Searches
<1> DEFINE k == [source |-> e.target, relation |-> relation]
           a == Answer(w.graph, k)
           h == Queried(w.graph, k)
           q == [w EXCEPT !.graph = h]
           new == <<e.target, depth + 1>>
<1>1. k \in Keys /\ e.target \in Concepts /\ new \in Concepts \X Nat
  BY DEF Keys, GraphFacts
<1>2. w.graph \in KeptGraphs /\ w.graph \in SoundGraphs /\ w.visited \in SUBSET Concepts
      /\ w.frontier \in Seq(Concepts \X Nat)
  BY DEF Searches, KeptGraphs
<1>6. FollowEdge(w, e, relation, depth) =
        IF w.found # << >> THEN w
        ELSE IF a # << >> THEN [q EXCEPT !.found = <<a[1], depth + 2>>]
        ELSE IF e.relation \in Inherited /\ e.target \notin w.visited
          THEN [q EXCEPT !.visited = @ \cup {e.target}, !.frontier = Append(@, new)]
        ELSE q
  BY DEF FollowEdge
<1> HIDE DEF k, new
<1>3. a \in Seq(Concepts)
  BY <1>1, <1>2, AnswersAre
<1>4. h \in KeptGraphs
  BY <1>1, <1>2, QueriedSound DEF KeptGraphs
<1> HIDE DEF a, h
<1>5. a # << >> => <<a[1], depth + 2>> \in Concepts \X Nat
  <2> SUFFICES ASSUME a # << >> PROVE a[1] \in Concepts
    OBVIOUS
  <2> QED BY <1>3
<1>7. q \in Searches /\ q.visited = w.visited /\ q.frontier = w.frontier
  BY <1>4 DEF Searches
<1> HIDE DEF q
<1>8. a # << >> => [q EXCEPT !.found = <<a[1], depth + 2>>] \in Searches
  BY <1>5, <1>7 DEF Searches
<1>9. [q EXCEPT !.visited = @ \cup {e.target}, !.frontier = Append(@, new)] \in Searches
  <2>1. Append(q.frontier, new) \in Seq(Concepts \X Nat)
    BY <1>1, <1>2, <1>7, AppendProperties
  <2>2. q.visited \cup {e.target} \in SUBSET Concepts
    BY <1>1, <1>2, <1>7
  <2> QED BY <1>7, <2>1, <2>2 DEF Searches
<1> QED BY <1>6, <1>7, <1>8, <1>9

LEMMA EdgesFollowed ==
    ASSUME NEW w \in Searches, NEW relation \in Relations, NEW node \in Concepts \X Nat,
           NEW edgesOut \in Seq(GraphFacts)
    PROVE  FollowEdges(w, relation, node, edgesOut) \in Searches
<1> DEFINE n == Len(edgesOut)
           base == w
           round(v, i) == FollowEdge(v, edgesOut[i], relation, node[2])
           loop[i \in 0 .. n] == IF i = 0 THEN base ELSE round(loop[i - 1], i)
           g == [c \in Searches \X (1 .. n) |-> round(c[1], c[2])]
<1>1. n \in Nat /\ \A i \in 1 .. n : edgesOut[i] \in GraphFacts
  BY LenProperties, ElementOfSeq
<1>2. base \in Searches
  OBVIOUS
<1>3. \A v \in Searches, i \in 1 .. n : round(v, i) \in Searches
  BY <1>1, EdgeFollowed
<1>4. FollowEdges(w, relation, node, edgesOut) = loop[n]
  BY DEF FollowEdges
<1> HIDE DEF base, round
<1>5. g \in Rounds(Searches, n)
  BY <1>3 DEF Rounds
<1>6. PICK f \in [0 .. n -> Searches] : f[0] = base /\ \A i \in 1 .. n : f[i] = g[<<f[i - 1], i>>]
  <2>1. n \in Nat
    BY <1>1
  <2> HIDE DEF g, n, loop
  <2>2. Loops(Searches, n, base, g) # {}
    BY <1>2, <1>5, <2>1, LoopExists
  <2> QED BY <2>2 DEF Loops
<1>7. f = [i \in 0 .. n |-> IF i = 0 THEN base ELSE round(f[i - 1], i)]
  <2>1. ASSUME NEW i \in 0 .. n PROVE f[i] = IF i = 0 THEN base ELSE round(f[i - 1], i)
    <3>1. CASE i # 0
      <4>1. i \in 1 .. n /\ f[i - 1] \in Searches
        BY <1>1, <3>1
      <4> QED BY <1>6, <3>1, <4>1
    <3> QED BY <1>6, <3>1
  <2> QED BY <2>1
<1>8. loop = [i \in 0 .. n |-> IF i = 0 THEN base ELSE round(loop[i - 1], i)]
  BY <1>7
<1> HIDE DEF loop, n
<1>9. loop[0] = base /\ \A i \in 1 .. n : i \in 0 .. n /\ loop[i] = round(loop[i - 1], i)
  BY <1>1, <1>8
<1>10. \A i \in 1 .. n : loop[i - 1] \in Searches => loop[i] \in Searches
  BY <1>3, <1>9
<1>11. \A i \in 0 .. n : loop[i] \in Searches
  BY <1>1, <1>2, <1>9, <1>10, LoopStays
<1>12. loop[n] \in Searches
  BY <1>1, <1>11
<1> QED BY <1>4, <1>12

LEMMA NodeVisited ==
    ASSUME NEW w \in Searches, NEW relation \in Relations PROVE Visit(w, relation) \in Searches
<1> DEFINE node == Head(w.frontier)
           left == [w EXCEPT !.frontier = Tail(@)]
           edgesOut == Outgoing(w.graph, node[1])
<1>1. CASE w.frontier = << >> \/ w.found # << >>
  BY <1>1 DEF Visit
<1>2. CASE ~(w.frontier = << >> \/ w.found # << >>)
  <2>1. node \in Concepts \X Nat /\ Tail(w.frontier) \in Seq(Concepts \X Nat)
    BY <1>2, HeadTailProperties DEF Searches
  <2>2. left \in Searches
    BY <2>1 DEF Searches
  <2>3. edgesOut \in Seq(GraphFacts)
    <3>1. w.graph.edges \in Seq(GraphFacts)
      BY FieldsOf DEF Searches, KeptGraphs, SoundGraphs
    <3> DEFINE I == {i \in DOMAIN w.graph.edges : w.graph.edges[i].source = node[1]}
    <3>2. I \in SUBSET DOMAIN w.graph.edges /\ edgesOut = Picked(w.graph.edges, I)
      BY DEF Outgoing
    <3> HIDE DEF I
    <3> QED BY <3>1, <3>2, PickedElements
  <2>4. Visit(w, relation) = IF node[2] >= MaxHops THEN left
                             ELSE FollowEdges(left, relation, node, edgesOut)
    BY <1>2 DEF Visit
  <2> HIDE DEF node, left, edgesOut
  <2> QED BY <2>1, <2>2, <2>3, <2>4, EdgesFollowed
<1> QED BY <1>1, <1>2

LEMMA WalkKept ==
    ASSUME NEW start \in KeptGraphs, NEW k \in Keys PROVE Walk(start, k).graph \in KeptGraphs
<1> DEFINE n == Cardinality(Concepts)
           base == [graph |-> start, found |-> << >>, visited |-> {k.source},
                    frontier |-> << <<k.source, 0>> >>]
           round(v, i) == Visit(v, k.relation)
           loop[i \in 0 .. n] == IF i = 0 THEN base ELSE round(loop[i - 1], i)
           g == [c \in Searches \X (1 .. n) |-> round(c[1], c[2])]
<1>1. n \in Nat /\ k.relation \in Relations /\ k.source \in Concepts
  BY GraphAssumption, FS_CardinalityType DEF Keys
<1>2. base \in Searches
  <2>1. <<k.source, 0>> \in Concepts \X Nat
    BY <1>1
  <2>2. << <<k.source, 0>> >> \in Seq(Concepts \X Nat)
    BY <2>1
  <2> QED BY <1>1, <2>2 DEF Searches
<1>3. \A v \in Searches, i \in 1 .. n : round(v, i) \in Searches
  BY <1>1, NodeVisited
<1>4. Walk(start, k) = loop[n]
  BY DEF Walk
<1> HIDE DEF base, round
<1>5. g \in Rounds(Searches, n)
  BY <1>3 DEF Rounds
<1>6. PICK f \in [0 .. n -> Searches] : f[0] = base /\ \A i \in 1 .. n : f[i] = g[<<f[i - 1], i>>]
  <2>1. n \in Nat
    BY <1>1
  <2> HIDE DEF g, n, loop
  <2>2. Loops(Searches, n, base, g) # {}
    BY <1>2, <1>5, <2>1, LoopExists
  <2> QED BY <2>2 DEF Loops
<1>7. f = [i \in 0 .. n |-> IF i = 0 THEN base ELSE round(f[i - 1], i)]
  <2>1. ASSUME NEW i \in 0 .. n PROVE f[i] = IF i = 0 THEN base ELSE round(f[i - 1], i)
    <3>1. CASE i # 0
      <4>1. i \in 1 .. n /\ f[i - 1] \in Searches
        BY <1>1, <3>1
      <4> QED BY <1>6, <3>1, <4>1
    <3> QED BY <1>6, <3>1
  <2> QED BY <2>1
<1>8. loop = [i \in 0 .. n |-> IF i = 0 THEN base ELSE round(loop[i - 1], i)]
  BY <1>7
<1> HIDE DEF loop, n
<1>9. loop[0] = base /\ \A i \in 1 .. n : i \in 0 .. n /\ loop[i] = round(loop[i - 1], i)
  BY <1>1, <1>8
<1>10. \A i \in 1 .. n : loop[i - 1] \in Searches => loop[i] \in Searches
  BY <1>3, <1>9
<1>11. \A i \in 0 .. n : loop[i] \in Searches
  BY <1>1, <1>2, <1>9, <1>10, LoopStays
<1>12. loop[n] \in Searches
  BY <1>1, <1>11
<1> QED BY <1>4, <1>12 DEF Searches

-----------------------------------------------------------------------------
LEMMA GraphIs ==
    ASSUME NEW g \in Graphs, SetGraph(g) PROVE Graph' = g
BY DEF SetGraph, Graph, Graphs

LEMMA NothingHeld == NoGraph \in SoundGraphs /\ Held(NoGraph) = {}
<1>1. << >> \in Seq(GraphFacts) /\ << >> \in Seq(CachedAnswers) /\ << >> \in Seq(Nat) /\ DOMAIN << >> = {}
  OBVIOUS
<1>2. /\ NoGraph.edges = << >> /\ NoGraph.lru = << >>
      /\ NoGraph.index \in [Keys -> Seq(Nat)] /\ \A k \in Keys : NoGraph.index[k] = << >>
  BY <1>1 DEF NoGraph
<1>3. NoGraph \in Graphs
  BY <1>1, <1>2 DEF Graphs, NoGraph
<1>4. NoGraph \in SoundGraphs
  BY <1>1, <1>2, <1>3 DEF SoundGraphs, IndexOfEdges, CacheCurrent
<1>5. \A f \in GraphFacts : ~HasFact(NoGraph, f)
  BY <1>1, <1>2, <1>4, HeldAre, KeysAre
<1> QED BY <1>4, <1>5 DEF Held

\* Whichever writer brings it, a new fact is held and on disk with it.
LEMMA PersistKeeps ==
    ASSUME GraphInv, NEW h \in KeptGraphs, NEW f \in GraphFacts, PersistNewFact(h, f)
    PROVE  GraphInv'
<1>1. /\ AddFact(h, f) \in SoundGraphs /\ Held(AddFact(h, f)) \subseteq Held(h) \cup {f}
      /\ Held(h) \subseteq OnDisk
  BY AddedSound DEF KeptGraphs
<1>2. Graph' = AddFact(h, f)
  BY <1>1, GraphIs DEF PersistNewFact, SoundGraphs
<1>3. learnedFile' = Append(learnedFile, f) /\ dumpFile' = dumpFile
  BY DEF PersistNewFact
<1>4. learnedFile' \in Seq(GraphFacts) /\ Range(learnedFile') = Range(learnedFile) \cup {f}
  <2> DEFINE new == Append(learnedFile, f)
  <2>1. /\ new \in Seq(GraphFacts) /\ DOMAIN new = 1 .. Len(learnedFile) + 1
        /\ new[Len(learnedFile) + 1] = f /\ \A i \in 1 .. Len(learnedFile) : new[i] = learnedFile[i]
    BY AppendProperties, LenProperties DEF GraphInv
  <2>2. Len(learnedFile) \in Nat /\ DOMAIN learnedFile = 1 .. Len(learnedFile)
    BY LenProperties DEF GraphInv
  <2> HIDE DEF new
  <2>3. Range(new) = Range(learnedFile) \cup {f}
    BY <2>1, <2>2 DEF Range
  <2> QED BY <1>3, <2>1, <2>3 DEF new
<1>5. OnDisk' = OnDisk \cup {f}
  BY <1>3, <1>4 DEF OnDisk
<1>6. Held(Graph') \subseteq OnDisk'
  BY <1>1, <1>2, <1>5
<1> QED BY <1>1, <1>2, <1>3, <1>4, <1>6 DEF GraphInv, Held

\* A step that leaves the files alone leaves a graph whose facts they hold.
LEMMA ReadingKeeps ==
    ASSUME GraphInv, NEW h \in KeptGraphs, SetGraph(h), UNCHANGED graphFiles PROVE GraphInv'
<1>1. Graph' = h /\ learnedFile' = learnedFile /\ dumpFile' = dumpFile /\ OnDisk' = OnDisk
  BY GraphIs DEF KeptGraphs, SoundGraphs, graphFiles, OnDisk
<1> QED BY <1>1 DEF GraphInv, KeptGraphs, Held

LEMMA GraphStep == GraphInv /\ [GraphNext]_graphVars => GraphInv'
<1> SUFFICES ASSUME GraphInv, [GraphNext]_graphVars PROVE GraphInv'
  OBVIOUS
<1>1. Graph \in KeptGraphs
  BY DEF GraphInv, KeptGraphs
<1>2. NoGraph \in KeptGraphs
  BY NothingHeld DEF KeptGraphs
<1>3. ASSUME NEW f \in GraphFacts, HandleStatement(f) \/ Remember(f) PROVE GraphInv'
  BY <1>1, <1>3, PersistKeeps DEF HandleStatement, Remember
<1>4. ASSUME NEW f \in GraphFacts, NEW cased \in BOOLEAN, GrowFact(f, cased) PROVE GraphInv'
  BY <1>1, <1>4, PersistKeeps DEF GrowFact
<1>5. ASSUME NEW f \in GraphFacts, ApplyCorrection(f) PROVE GraphInv'
  <2>1. OnlyRight(Graph, f) \in KeptGraphs
    BY CorrectedSound DEF GraphInv, KeptGraphs
  <2> QED BY <1>5, <2>1, PersistKeeps DEF ApplyCorrection
<1>6. ASSUME NEW k \in Keys, QueryFor(k) \/ HandleQuestion(k) PROVE GraphInv'
  <2>1. Queried(Graph, k) \in KeptGraphs
    BY <1>1, QueriedSound DEF KeptGraphs
  <2>2. Walk(Queried(Graph, k), k).graph \in KeptGraphs
    BY <2>1, WalkKept
  <2>3. PathQueried(Graph, k) \in KeptGraphs
    BY <2>1, <2>2 DEF PathQueried
  <2> QED BY <1>6, <2>1, <2>3, ReadingKeeps DEF QueryFor, HandleQuestion
<1>7. CASE NightBegins
  BY <1>7 DEF NightBegins, GraphInv, Graph, OnDisk, Held, graphFiles
<1>8. CASE SaveDump
  <2>1. dumpFile' = edges /\ learnedFile' = learnedFile /\ Graph' = Graph
    BY <1>8 DEF SaveDump, Graph
  <2>2. Graph.edges = edges /\ Graph \in SoundGraphs
    BY DEF Graph, GraphInv
  <2>3. edges \in Seq(GraphFacts) /\ Held(Graph) \subseteq Range(edges)
    BY <2>2, FieldsOf, HeldAreEdges DEF SoundGraphs
  <2>4. Held(Graph') \subseteq OnDisk'
    BY <2>1, <2>3 DEF OnDisk
  <2> QED BY <2>1, <2>3, <2>4 DEF GraphInv, Held
<1>9. CASE LoadAllKnowledge
  <2>1. LoadedLines(Graph) \in KeptGraphs
    BY <1>1, LoadedKept DEF GraphInv
  <2> QED BY <1>9, <2>1, ReadingKeeps DEF LoadAllKnowledge
<1>10. CASE GraphRestart
  <2>1. LoadedLines(NoGraph) \in KeptGraphs
    BY <1>2, LoadedKept DEF GraphInv
  <2> QED BY <1>10, <2>1, ReadingKeeps DEF GraphRestart
<1>11. CASE UNCHANGED graphVars
  BY <1>11 DEF graphVars, graphFiles, GraphInv, Graph, OnDisk, Held
<1> QED BY <1>3, <1>4, <1>5, <1>6, <1>7, <1>8, <1>9, <1>10, <1>11 DEF GraphNext

\* No answer from the cache misses a fact the graph holds, and each fact it
\* holds is in one of the files: addFact empties the cache, persistNewFact
\* writes, and a dump has every edge the index names (addFact, query and
\* persistNewFact, pattern_graph.cpp:150, 222 and 478).
THEOREM AnswersStayCurrent == GraphSpec => []AnswersCurrent
<1>1. GraphInit => GraphInv
  <2> SUFFICES ASSUME GraphInit PROVE GraphInv
    OBVIOUS
  <2>1. Graph = NoGraph /\ learnedFile = << >> /\ dumpFile = << >>
    BY DEF GraphInit, Graph, NoGraph
  <2>2. << >> \in Seq(GraphFacts)
    OBVIOUS
  <2> QED BY <2>1, <2>2, NothingHeld DEF GraphInv
<1>2. GraphInv => AnswersCurrent
  <2> SUFFICES ASSUME GraphInv PROVE AnswersCurrent
    OBVIOUS
  <2>1. Graph.lru = lru
    BY DEF Graph
  <2>2. \A i \in DOMAIN lru : Range(Targets(Graph, lru[i].key)) \subseteq Range(lru[i].value)
    BY <2>1 DEF GraphInv, SoundGraphs, CacheCurrent
  <2>3. \A f \in GraphFacts : HasFact(Graph, f) => f \in OnDisk
    BY DEF GraphInv, Held
  <2> QED BY <2>2, <2>3 DEF AnswersCurrent, OnDisk
<1> QED BY <1>1, <1>2, GraphStep, PTL DEF GraphSpec
=============================================================================
