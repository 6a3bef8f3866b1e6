---------------------------- MODULE PlannerProofs ----------------------------
(***************************************************************************)
(* Proofs about the planner for every number of jobs, OSTs and OSSs, every *)
(* queue that keeps its items, every set of faults and every bound: types, *)
(* mutual exclusion on a job, a reservation's way through its states, and  *)
(* what is there for it while it is active: its rules and its stop.        *)
(***************************************************************************)
EXTENDS Planner, ScheduleProofs, FiniteSetTheorems

-----------------------------------------------------------------------------
(* What the rule manager's operators produce.                              *)

\* A rule's rate is a uint32_t (computeOssToMBsAndCountUnique).
LEMMA RateType ==
  ASSUME NEW osts \in SUBSET Osts, NEW mbs \in Mbs, NEW ip \in Ips
  PROVE  Rate(osts, mbs, ip) \in Mbs
<1> DEFINE behind == {o \in osts : IpOf[o] = ip}
<1>1. behind \in SUBSET Osts
  OBVIOUS
<1>2. Cardinality(behind) \in Nat
  BY <1>1, OstsAssumption, FS_Subset, FS_CardinalityType
<1>3. \A a, b \in Nat : a * b \in Nat
  OBVIOUS
<1>4. mbs * Cardinality(behind) \in Nat
  BY <1>2, <1>3, UintAssumption DEF Mbs
<1>5. \A n \in Nat : n % UintMod \in 0 .. UintMod - 1
  BY UintAssumption
<1> QED
  BY <1>4, <1>5 DEF Rate, Mbs

\* A stop command leaves the rules of all other jobs, and none of this one.
LEMMA StopRuleType ==
  ASSUME NEW rules \in [Ips -> [JobIds -> Mbs \cup {Null}]], NEW id \in JobIds,
         NEW ips, NEW kept
  PROVE  StopRule(rules, id, ips, kept) \in [Ips -> [JobIds -> Mbs \cup {Null}]]
BY DEF StopRule

\* A start command writes the rate of the job's OSTs behind the OSS.
LEMMA StartRuleType ==
  ASSUME NEW rules \in [Ips -> [JobIds -> Mbs \cup {Null}]], NEW id \in JobIds,
         NEW osts \in SUBSET Osts, NEW mbs \in Mbs, NEW lost
  PROVE  StartRule(rules, id, osts, mbs, lost) \in [Ips -> [JobIds -> Mbs \cup {Null}]]
BY RateType DEF StartRule

\* Setting a job's rules keeps the type, whatever fails.
LEMMA SetRulesAsyncType ==
  ASSUME RulesTypeOK, NEW id \in JobIds, NEW osts \in SUBSET Osts, NEW mbs \in Mbs,
         NEW ok, SetRulesAsync(id, osts, mbs, ok), UNCHANGED active_rules
  PROVE  RulesTypeOK'
<1>1. PICK failed, lost, kept :
        oss_rules' = StopRule(StartRule(oss_rules, id, osts, mbs, failed \cup lost),
                              id, failed, kept)
  BY DEF SetRulesAsync
<1>2. StartRule(oss_rules, id, osts, mbs, failed \cup lost)
        \in [Ips -> [JobIds -> Mbs \cup {Null}]]
  BY StartRuleType DEF RulesTypeOK
<1>3. oss_rules' \in [Ips -> [JobIds -> Mbs \cup {Null}]]
  BY <1>1, <1>2, StopRuleType
<1> QED
  BY <1>3 DEF RulesTypeOK

\* So does removing them.
LEMMA RemoveRulesAsyncType ==
  ASSUME RulesTypeOK, NEW id \in JobIds, RemoveRulesAsync(id), UNCHANGED active_rules
  PROVE  RulesTypeOK'
<1>1. PICK kept : oss_rules' = StopRule(oss_rules, id, active_rules[id], kept)
  BY DEF RemoveRulesAsync
<1>2. oss_rules' \in [Ips -> [JobIds -> Mbs \cup {Null}]]
  BY <1>1, StopRuleType DEF RulesTypeOK
<1> QED
  BY <1>2 DEF RulesTypeOK

\* The addresses of OSTs are those of OSSs (determineOstIps).
LEMMA IpsOfType ==
  ASSUME NEW osts \in SUBSET Osts
  PROVE  IpsOf(osts) \in SUBSET Ips
BY IpOfAssumption DEF IpsOf

-----------------------------------------------------------------------------
(* What the queue's bag says of the set of its items.                      *)

\* One item less in the bag: no other is gone, and this one only if it was the
\* last of its kind.
LEMMA RemoveFromBag ==
  ASSUME NEW bag, NEW item \in DOMAIN bag, bag \in [DOMAIN bag -> Nat \ {0}]
  PROVE  /\ DOMAIN BE!BagRemove(bag, item) \subseteq DOMAIN bag
         /\ DOMAIN bag \subseteq DOMAIN BE!BagRemove(bag, item) \cup {item}
         /\ bag[item] = 1 => item \notin DOMAIN BE!BagRemove(bag, item)
         /\ \A other \in DOMAIN BE!BagRemove(bag, item) :
              BE!BagRemove(bag, item)[other] <= bag[other]
BY DEF BE!BagRemove

\* Push adds its item, Pop takes the one that Peek shows and Remove one of the
\* given job; all others stay.
LEMMA QueueItems ==
  ASSUME NEW q \in Queue
  PROVE  /\ QItems(q) \subseteq WaitingItem
         /\ QPeek(q) \in QItems(q) \cup {Null}
         /\ QPop(q) \in Queue /\ QItems(q) \subseteq QItems(QPop(q)) \cup {QPeek(q)}
         /\ \A job \in JobIds :
              /\ QRemove(q, job) \in Queue
              /\ {item \in QItems(q) : item.jobid # job} \subseteq QItems(QRemove(q, job))
         /\ \A item \in WaitingItem :
              QPush(q, item) \in Queue => QItems(QPush(q, item)) = QItems(q) \cup {item}
<1>1. QBag(q) \in [QItems(q) -> Nat \ {0}] /\ QItems(q) \subseteq WaitingItem
  BY QueueAssumption DEF Contract
<1>2. QPop(q) \in Queue
  BY QueueAssumption DEF Contract
<1>3. ASSUME QItems(q) # {}
      PROVE  QPeek(q) \in QItems(q) /\ QBag(QPop(q)) = BE!BagRemove(QBag(q), QPeek(q))
  BY <1>3, QueueAssumption DEF Contract
<1>4. QPeek(q) \in QItems(q) \cup {Null} /\ QItems(q) \subseteq QItems(QPop(q)) \cup {QPeek(q)}
  <2>1. CASE QItems(q) = {}
    BY <2>1, QueueAssumption DEF Contract
  <2>2. CASE QItems(q) # {}
    BY <2>2, <1>1, <1>3, RemoveFromBag DEF QItems
  <2> QED
    BY <2>1, <2>2
<1>5. ASSUME NEW job \in JobIds
      PROVE  /\ QRemove(q, job) \in Queue
             /\ {item \in QItems(q) : item.jobid # job} \subseteq QItems(QRemove(q, job))
  <2> DEFINE own == {item \in QItems(q) : item.jobid = job}
  <2>1. QRemove(q, job) \in Queue
    BY QueueAssumption DEF Contract
  <2>2. QBag(QRemove(q, job)) \in IF own = {} THEN {QBag(q)}
                                  ELSE {BE!BagRemove(QBag(q), item) : item \in own}
    BY QueueAssumption DEF Contract
  <2>3. CASE own = {}
    BY <2>1, <2>2, <2>3 DEF QItems
  <2>4. CASE own # {}
    <3>1. PICK item \in own : QBag(QRemove(q, job)) = BE!BagRemove(QBag(q), item)
      BY <2>2, <2>4
    <3>2. QItems(q) \subseteq QItems(QRemove(q, job)) \cup {item}
      BY <1>1, <3>1, RemoveFromBag DEF QItems
    <3> QED
      BY <2>1, <3>2
  <2> QED
    BY <2>3, <2>4
<1>6. ASSUME NEW item \in WaitingItem, QPush(q, item) \in Queue
      PROVE  QItems(QPush(q, item)) = QItems(q) \cup {item}
  <2>1. QBag(QPush(q, item)) = BE!BagAdd(QBag(q), item)
    BY <1>6, QueueAssumption DEF Contract
  <2> QED
    BY <2>1 DEF QItems, BE!BagAdd
<1> QED
  BY <1>1, <1>2, <1>4, <1>5, <1>6

USE DEF Threads, At, Goto, scheduleVars, ruleVars, localVars

-----------------------------------------------------------------------------
(* Type correctness.                                                       *)

\* What the steps that only look at the schedule, move a thread to its next
\* step and note what they saw have in common.
LEMMA ControlSteps ==
  ASSUME TypeOK, UNCHANGED <<submitted, removed>>,
         \/ PopReady \/ WaitForWork \/ HandleEnters \/ StartGetsStatus
         \/ StartGetsThroughput \/ StartGetsOsts \/ StartGetsEnd \/ StartPushesStop
         \/ \E t \in Threads : StopGetsStatus(t) \/ Unblock(t)
         \/ RegisterJob \/ BlockJob \/ RemoveJobFromPrioQueue \/ UnregisterGetsStatus
  PROVE  TypeOK'
<1> USE DEF TypeOK, MonitorTypeOK, Steps, Holding, StopSteps
<1>0. ScheduleTypeOK' /\ RulesTypeOK' /\ raced' = raced /\ now' = now
  BY DEF PopReady, WaitForWork, HandleEnters, StartGetsStatus, StartGetsThroughput,
         StartGetsOsts, StartGetsEnd, StartPushesStop, StopGetsStatus, Unblock,
         RegisterJob, BlockJob, RemoveJobFromPrioQueue, UnregisterGetsStatus,
         ScheduleTypeOK, RulesTypeOK
<1>1. CASE PopReady
  <2>1. QPeek(queue) \in WaitingItem /\ QPop(queue) \in Queue
    BY <1>1, QueueItems DEF PopReady, isThereAReadyJob
  <2>2. QPeek(queue).jobid \in JobIds /\ QPeek(queue).eventType \in JobEvent
    BY <2>1 DEF WaitingItem
  <2> QED
    BY <1>0, <1>1, <2>1, <2>2, JobIdsAssumption, ItemAssumption DEF PopReady
<1>2. CASE WaitForWork
  BY <1>0, <1>2 DEF WaitForWork
<1>3. CASE HandleEnters
  BY <1>0, <1>3 DEF HandleEnters, Enter
<1>4. CASE StartGetsStatus
  BY <1>0, <1>4 DEF StartGetsStatus
<1>5. CASE StartGetsThroughput
  BY <1>0, <1>5 DEF StartGetsThroughput, ScheduleTypeOK, Job
<1>6. CASE StartGetsOsts
  BY <1>0, <1>6 DEF StartGetsOsts, ScheduleTypeOK, Job
<1>7. CASE StartGetsEnd
  BY <1>0, <1>7 DEF StartGetsEnd, ScheduleTypeOK, Job
<1>8. CASE StartPushesStop
  BY <1>0, <1>8 DEF StartPushesStop
<1>9. ASSUME NEW t \in Threads, StopGetsStatus(t)
      PROVE  TypeOK'
  BY <1>0, <1>9 DEF StopGetsStatus, AfterStop
<1>10. CASE Unblock("monitor")
  BY <1>0, <1>10, TimeAssumption, UintAssumption
     DEF Unblock, Leave, NoArgs, Time, Forever, Mbs
<1>11. CASE Unblock("server")
  BY <1>0, <1>11 DEF Unblock, Leave
<1>12. CASE RegisterJob
  BY <1>0, <1>12, TimeAssumption DEF RegisterJob, Time, Forever
<1>13. CASE BlockJob
  BY <1>0, <1>13 DEF BlockJob, Enter
<1>14. CASE RemoveJobFromPrioQueue
  BY <1>0, <1>14, QueueItems DEF RemoveJobFromPrioQueue
<1>15. CASE UnregisterGetsStatus
  BY <1>0, <1>15 DEF UnregisterGetsStatus
<1> QED
  BY <1>1, <1>2, <1>3, <1>4, <1>5, <1>6, <1>7, <1>8, <1>9, <1>10, <1>11, <1>12,
     <1>13, <1>14, <1>15

\* What a request, taken as BuildJob and ScheduleJob make it, looks like.
LEMMA BuildJobType ==
  ASSUME NEW r \in Requests, now \in 0 .. MaxTime, EndsInTime(r)
  PROVE  [BuildJob(r) EXCEPT !.state = "SCHEDULED"] \in Job
<1>1. r.osts \in SUBSET Osts /\ r.mbs \in Mbs /\ r.dur \in Nat
  BY RequestsAssumption
<1>2. now \in Time /\ Forever \in Time /\ now + r.dur \in Time
  BY <1>1, TimeAssumption DEF EndsInTime, Time, Forever
<1> QED
  BY <1>1, <1>2 DEF BuildJob, Job, JobState

\* The steps of the monitor and of UnregisterJob that change the schedule or
\* the rules.
LEMMA DataSteps ==
  ASSUME TypeOK, UNCHANGED <<submitted, removed>>,
         \/ HandleRemovesJob \/ StartSetsRules \/ StartInsertsRules \/ StartUpdatesJob
         \/ \E t \in Threads : StopRemovesRules(t) \/ StopErasesRules(t) \/ StopUpdatesJob(t)
  PROVE  TypeOK'
<1> USE DEF TypeOK, MonitorTypeOK, Steps, Holding, StopSteps
<1>0. /\ Races("monitor") \in BOOLEAN /\ Races("server") \in BOOLEAN
      /\ cur["monitor"] # Null => cur["monitor"] \in JobIds
      /\ cur["server"] # Null => cur["server"] \in JobIds
  BY DEF Races
<1>1. CASE HandleRemovesJob
  <2>1. ScheduleTypeOK'
    BY <1>0, <1>1, RemoveJobType DEF HandleRemovesJob
  <2> QED
    BY <1>1, <2>1 DEF HandleRemovesJob, RulesTypeOK
<1>2. CASE StartSetsRules
  <2>1. cur["monitor"] \in JobIds /\ args.osts \in SUBSET Osts /\ args.mbs \in Mbs
    BY <1>0, <1>2 DEF StartSetsRules
  <2>2. RulesTypeOK'
    BY <1>2, <2>1, SetRulesAsyncType DEF StartSetsRules, RulesTypeOK
  <2>3. pc' \in {[pc EXCEPT !["monitor"] = "insert_rule"], [pc EXCEPT !["monitor"] = "unblock"]}
    BY <1>2 DEF StartSetsRules, AfterSetRules
  <2>4. raced' \in BOOLEAN
    BY <1>0, <1>2 DEF StartSetsRules, NotesRace
  <2> QED
    BY <1>2, <2>2, <2>3, <2>4 DEF StartSetsRules, ScheduleTypeOK
<1>3. CASE StartInsertsRules
  <2>1. IpsOf(args.osts) \in SUBSET Ips
    BY IpsOfType
  <2>2. RulesTypeOK'
    BY <1>3, <2>1 DEF StartInsertsRules, InsertRules, RulesTypeOK
  <2>3. raced' \in BOOLEAN
    BY <1>0, <1>3 DEF StartInsertsRules, NotesRace
  <2> QED
    BY <1>3, <2>2, <2>3 DEF StartInsertsRules, ScheduleTypeOK
<1>4. CASE StartUpdatesJob
  <2>1. ScheduleTypeOK'
    BY <1>0, <1>4, UpdateJobType DEF StartUpdatesJob, JobState
  <2> QED
    BY <1>4, <2>1 DEF StartUpdatesJob, RulesTypeOK
<1>5. ASSUME NEW t \in Threads, StopRemovesRules(t)
      PROVE  TypeOK'
  <2>1. cur[t] \in JobIds
    BY <1>0, <1>5 DEF StopRemovesRules
  <2>2. RulesTypeOK'
    BY <1>5, <2>1, RemoveRulesAsyncType DEF StopRemovesRules, RulesTypeOK
  <2>3. pc' \in {[pc EXCEPT ![t] = "erase_rule"], [pc EXCEPT ![t] = "stop_update"]}
    BY <1>5 DEF StopRemovesRules
  <2>4. raced' \in BOOLEAN
    BY <1>0, <1>5 DEF StopRemovesRules, NotesRace
  <2> QED
    BY <1>5, <2>2, <2>3, <2>4 DEF StopRemovesRules, ScheduleTypeOK
<1>6. ASSUME NEW t \in Threads, StopErasesRules(t)
      PROVE  TypeOK'
  <2>1. RulesTypeOK'
    BY <1>6 DEF StopErasesRules, EraseRules, RulesTypeOK
  <2>2. raced' \in BOOLEAN
    BY <1>0, <1>6 DEF StopErasesRules, NotesRace
  <2> QED
    BY <1>6, <2>1, <2>2 DEF StopErasesRules, ScheduleTypeOK
<1>7. ASSUME NEW t \in Threads, StopUpdatesJob(t)
      PROVE  TypeOK'
  <2>1. ScheduleTypeOK'
    BY <1>0, <1>7, UpdateJobType DEF StopUpdatesJob, JobState
  <2> QED
    BY <1>7, <2>1 DEF StopUpdatesJob, AfterStop, RulesTypeOK
<1> QED
  BY <1>1, <1>2, <1>3, <1>4, <1>5, <1>6, <1>7

\* The requests, the clock and the steps that change nothing.
LEMMA OtherSteps ==
  ASSUME TypeOK, Request \/ RemoveFromSchedule \/ Tick \/ UNCHANGED vars
  PROVE  TypeOK'
<1> USE DEF TypeOK, MonitorTypeOK, Steps, Holding, StopSteps
<1>1. ASSUME NEW id \in JobIds, NEW r \in Requests, ServeJobSubmission(id, r)
      PROVE  TypeOK'
  <2>1. [BuildJob(r) EXCEPT !.state = "SCHEDULED"] \in Job
    BY <1>1, BuildJobType DEF ServeJobSubmission
  <2>2. ScheduleTypeOK'
    BY <1>1, <2>1, AddJobType DEF ServeJobSubmission, ScheduleJob
  <2>3. start_at' \in Time /\ submitted' \in 0 .. MaxSubmissions
    BY <1>1, TimeAssumption, BoundsAssumption DEF ServeJobSubmission, Time, Forever
  <2> QED
    BY <1>1, <2>2, <2>3, JobIdsAssumption DEF ServeJobSubmission, RulesTypeOK
<1>2. ASSUME NEW id \in JobIds, ServeJobRemove(id)
      PROVE  TypeOK'
  BY <1>2, BoundsAssumption, JobIdsAssumption
     DEF ServeJobRemove, RulesTypeOK, ScheduleTypeOK
<1>3. CASE RemoveFromSchedule
  <2>1. ScheduleTypeOK'
    BY <1>3, RemoveJobType DEF RemoveFromSchedule
  <2> QED
    BY <1>3, <2>1 DEF RemoveFromSchedule, RulesTypeOK
<1>4. CASE Tick
  BY <1>4, TimeAssumption DEF Tick, RulesTypeOK, ScheduleTypeOK
<1>5. CASE UNCHANGED vars
  BY <1>5 DEF vars, RulesTypeOK, ScheduleTypeOK
<1>6. ASSUME NEW id \in JobIds, NEW r \in Requests, RefuseJobSubmission(id, r)
      PROVE  UNCHANGED vars
  BY <1>6 DEF RefuseJobSubmission
<1> QED
  BY <1>1, <1>2, <1>3, <1>4, <1>5, <1>6 DEF Request

\* Every step of the planner is one of those above.
LEMMA StepCases ==
  ASSUME [Next]_vars
  PROVE  \/ Request \/ RemoveFromSchedule \/ Tick \/ UNCHANGED vars
         \/ /\ UNCHANGED <<submitted, removed>>
            /\ \/ HandleRemovesJob \/ StartSetsRules \/ StartInsertsRules
               \/ StartUpdatesJob
               \/ \E t \in Threads :
                    StopRemovesRules(t) \/ StopErasesRules(t) \/ StopUpdatesJob(t)
         \/ /\ UNCHANGED <<submitted, removed>>
            /\ \/ PopReady \/ WaitForWork \/ HandleEnters \/ StartGetsStatus
               \/ StartGetsThroughput \/ StartGetsOsts \/ StartGetsEnd \/ StartPushesStop
               \/ \E t \in Threads : StopGetsStatus(t) \/ Unblock(t)
               \/ RegisterJob \/ BlockJob \/ RemoveJobFromPrioQueue \/ UnregisterGetsStatus
BY DEF Next, ServerNext, MonitorNext, MonitorStep, UnregisterStep, StopStep

\* The threads start idle, with nothing in hand.
LEMMA MonitorInitType == MonitorInit => MonitorTypeOK
<1> SUFFICES ASSUME MonitorInit PROVE MonitorTypeOK
  OBVIOUS
<1>1. NoArgs \in [mbs : Mbs, osts : SUBSET Osts, tend : Time] /\ 0 \in Time
  BY TimeAssumption, UintAssumption DEF NoArgs, Time, Forever, Mbs
<1>2. now \in 0 .. MaxTime /\ queue \in Queue /\ in_flight \subseteq JobIds
  BY QueueAssumption, TimeAssumption DEF Contract, MonitorInit
<1>3. pc = [t \in Threads |-> "idle"] /\ cur = [t \in Threads |-> Null]
  BY DEF MonitorInit
<1>4. /\ pc \in [Threads -> Steps["monitor"] \cup Steps["server"]]
      /\ pc["monitor"] \in Steps["monitor"] /\ pc["server"] \in Steps["server"]
  BY <1>3 DEF Steps
<1>5. /\ cur \in [Threads -> JobIds \cup {Null}]
      /\ \A t \in Threads : At(t, "idle") <=> cur[t] = Null
  BY <1>3
<1>6. /\ event \in JobEvent \cup {Null} /\ (At("monitor", "idle") <=> event = Null)
      /\ args \in [mbs : Mbs, osts : SUBSET Osts, tend : Time] /\ start_at \in Time
      /\ raced \in BOOLEAN
  BY <1>1, <1>3 DEF MonitorInit
<1> QED
  BY <1>2, <1>4, <1>5, <1>6 DEF MonitorTypeOK

\* TypeOK holds in the initial state.
LEMMA InitType == Init => TypeOK
<1> SUFFICES ASSUME Init PROVE TypeOK
  OBVIOUS
<1>1. ScheduleTypeOK
  BY DEF Init, ScheduleInit, ScheduleTypeOK
<1>2. RulesTypeOK
  BY DEF Init, RulesInit, RulesTypeOK
<1>3. MonitorTypeOK
  BY MonitorInitType DEF Init
<1> QED
  BY <1>1, <1>2, <1>3, BoundsAssumption DEF Init, TypeOK

\* Every step keeps the types.
LEMMA TypeStep ==
  ASSUME TypeOK, [Next]_vars
  PROVE  TypeOK'
BY StepCases, OtherSteps, DataSteps, ControlSteps

\* The planner's variables always have the values their declarations give them:
\* each thread is in its own code and works on a job unless it waits for one.
THEOREM TypeCorrect == Spec => []TypeOK
<1>1. TypeOK /\ [Next]_vars => TypeOK'
  BY TypeStep
<1> QED
  BY <1>1, InitType, PTL DEF Spec

-----------------------------------------------------------------------------
(* Mutual exclusion on a job.                                              *)

\* A step that neither takes nor releases a job: no thread enters or leaves
\* the steps at which it holds one, and none changes the job it holds.
KeepsHolding ==
  /\ UNCHANGED in_flight
  /\ \A t \in Threads : /\ pc'[t] \in Holding[t] <=> pc[t] \in Holding[t]
                        /\ Holds(t) => cur'[t] = cur[t]

\* All steps but HandleEnters, BlockJob and Unblock keep what is held.
LEMMA MostStepsKeepHolding ==
  ASSUME TypeOK, [Next]_vars
  PROVE  \/ KeepsHolding
         \/ HandleEnters
         \/ BlockJob
         \/ \E t \in Threads : Unblock(t)
<1> USE DEF KeepsHolding, Holds, Holding, StopSteps
<1>0. /\ pc \in [Threads -> Steps["monitor"] \cup Steps["server"]]
      /\ cur \in [Threads -> JobIds \cup {Null}]
  BY DEF TypeOK, MonitorTypeOK
<1>1. Request \/ RemoveFromSchedule \/ Tick \/ UNCHANGED vars => KeepsHolding
  BY <1>0 DEF Request, ServeJobSubmission, RefuseJobSubmission, ServeJobRemove,
              RemoveFromSchedule, Tick, vars
<1>2. HandleRemovesJob \/ StartSetsRules \/ StartInsertsRules \/ StartUpdatesJob
        => KeepsHolding
  BY <1>0 DEF HandleRemovesJob, StartSetsRules, StartInsertsRules, StartUpdatesJob,
              AfterSetRules
<1>3. ASSUME NEW t \in Threads, StopStep(t)
      PROVE  KeepsHolding
  BY <1>0, <1>3 DEF StopStep, StopGetsStatus, StopRemovesRules, StopErasesRules,
                    StopUpdatesJob, AfterStop
<1>4. PopReady \/ WaitForWork \/ StartGetsStatus \/ StartGetsThroughput \/ StartGetsOsts
        \/ StartGetsEnd \/ StartPushesStop => KeepsHolding
  BY <1>0 DEF PopReady, WaitForWork, StartGetsStatus, StartGetsThroughput,
              StartGetsOsts, StartGetsEnd, StartPushesStop
<1>5. RegisterJob \/ RemoveJobFromPrioQueue \/ UnregisterGetsStatus => KeepsHolding
  BY <1>0 DEF RegisterJob, RemoveJobFromPrioQueue, UnregisterGetsStatus
<1> QED
  BY <1>1, <1>2, <1>3, <1>4, <1>5, StepCases DEF StopStep

\* A step that keeps what is held keeps the exclusion.
LEMMA KeepsExclusion ==
  ASSUME TypeOK, InFlightExclusion, KeepsHolding
  PROVE  InFlightExclusion'
BY DEF InFlightExclusion, KeepsHolding, Holds

\* A thread that enters waits until the job is not in flight.
LEMMA EnterExclusion ==
  ASSUME TypeOK, InFlightExclusion, HandleEnters \/ BlockJob
  PROVE  InFlightExclusion'
<1>0. /\ pc \in [Threads -> Steps["monitor"] \cup Steps["server"]]
      /\ cur \in [Threads -> JobIds \cup {Null}]
  BY DEF TypeOK, MonitorTypeOK
<1> USE <1>0 DEF InFlightExclusion, Holds, Holding, StopSteps, Enter
<1>1. CASE HandleEnters
  <2>1. /\ in_flight' = in_flight \cup {cur["monitor"]} /\ cur' = cur
        /\ cur["monitor"] \notin in_flight
        /\ pc'["monitor"] \in Holding["monitor"] /\ pc'["server"] = pc["server"]
        /\ pc["monitor"] \notin Holding["monitor"]
    BY <1>1 DEF HandleEnters
  <2> QED
    BY <2>1
<1>2. CASE BlockJob
  <2>1. /\ in_flight' = in_flight \cup {cur["server"]} /\ cur' = cur
        /\ cur["server"] \notin in_flight
        /\ pc'["server"] \in Holding["server"] /\ pc'["monitor"] = pc["monitor"]
        /\ pc["server"] \notin Holding["server"]
    BY <1>2 DEF BlockJob
  <2> QED
    BY <2>1
<1> QED
  BY <1>1, <1>2

\* A thread that leaves erases its own job only.
LEMMA LeaveExclusion ==
  ASSUME TypeOK, InFlightExclusion, NEW t \in Threads, Unblock(t)
  PROVE  InFlightExclusion'
<1>0. /\ pc \in [Threads -> Steps["monitor"] \cup Steps["server"]]
      /\ cur \in [Threads -> JobIds \cup {Null}]
  BY DEF TypeOK, MonitorTypeOK
<1> USE <1>0 DEF InFlightExclusion, Holds, Holding, StopSteps
<1>1. /\ in_flight' = in_flight \ {cur[t]}
      /\ pc[t] \in Holding[t] /\ pc'[t] \notin Holding[t]
      /\ \A u \in Threads \ {t} : pc'[u] = pc[u] /\ cur'[u] = cur[u]
  BY DEF Unblock, Leave
<1> QED
  BY <1>1

\* Every step keeps the exclusion.
LEMMA ExclusionStep ==
  ASSUME TypeOK, InFlightExclusion, [Next]_vars
  PROVE  InFlightExclusion'
BY MostStepsKeepHolding, KeepsExclusion, EnterExclusion, LeaveExclusion

\* UnregisterJob and Handle never process the same job at the same time, and
\* in_flight_jobs_ is exactly what they process.
THEOREM ExclusionHolds == Spec => []InFlightExclusion
<1>1. Init => InFlightExclusion
  BY DEF Init, MonitorInit, InFlightExclusion, Holds, Holding, StopSteps
<1>2. TypeOK /\ InFlightExclusion /\ [Next]_vars => InFlightExclusion'
  BY ExclusionStep
<1> QED
  BY <1>1, <1>2, TypeCorrect, PTL DEF Spec

-----------------------------------------------------------------------------
(* What a step can do to the jobs.                                         *)

Starting == {"start_throughput", "start_osts", "set_rules", "insert_rule", "start_update"}

\* The job the monitor has seen SCHEDULED stays so, or is removed and perhaps
\* submitted anew, until the monitor itself makes it active.
StartSeesScheduled ==
  /\ pc["monitor"] \in Starting /\ jobs[cur["monitor"]] # Null
        => jobs[cur["monitor"]].state = "SCHEDULED"

AddsJob(id, r) == /\ jobs[id] = Null
                  /\ jobs' = [jobs EXCEPT ![id] = [BuildJob(r) EXCEPT !.state = "SCHEDULED"]]
DropsJob(id)   == jobs' = [jobs EXCEPT ![id] = Null]

\* The steps that change jobs_ are five, in three places: ScheduleJob's AddJob,
\* the two calls of RemoveJob, and UpdateJob in StartJob and in StopJob.
LEMMA JobChanges ==
  ASSUME TypeOK, [Next]_vars
  PROVE  \/ UNCHANGED <<jobs, schedule>>
         \/ \E id \in JobIds, r \in Requests : AddsJob(id, r) /\ ServeJobSubmission(id, r)
         \/ DropsJob(cur["monitor"]) /\ HandleRemovesJob
         \/ DropsJob(cur["server"]) /\ RemoveFromSchedule
         \/ StartUpdatesJob
         \/ \E t \in Threads : StopUpdatesJob(t)
<1> USE DEF AddsJob, DropsJob
<1>1. ASSUME NEW id \in JobIds, NEW r \in Requests, ServeJobSubmission(id, r)
      PROVE  AddsJob(id, r)
  BY <1>1 DEF ServeJobSubmission, ScheduleJob, AddJob
<1>2. /\ HandleRemovesJob => DropsJob(cur["monitor"])
      /\ RemoveFromSchedule => DropsJob(cur["server"])
  BY DEF HandleRemovesJob, RemoveFromSchedule, RemoveJob
<1>3. Tick \/ UNCHANGED vars => UNCHANGED <<jobs, schedule>>
  BY DEF Tick, vars
<1>4. ASSUME NEW id \in JobIds,
             ServeJobRemove(id) \/ \E r \in Requests : RefuseJobSubmission(id, r)
      PROVE  UNCHANGED <<jobs, schedule>>
  BY <1>4 DEF ServeJobRemove, RefuseJobSubmission, vars
<1>5. StartSetsRules \/ StartInsertsRules => UNCHANGED <<jobs, schedule>>
  BY DEF StartSetsRules, StartInsertsRules
<1>6. ASSUME NEW t \in Threads,
             StopRemovesRules(t) \/ StopErasesRules(t) \/ StopGetsStatus(t) \/ Unblock(t)
      PROVE  UNCHANGED <<jobs, schedule>>
  BY <1>6 DEF StopRemovesRules, StopErasesRules, StopGetsStatus, Unblock
<1>7. PopReady \/ WaitForWork \/ HandleEnters \/ StartGetsStatus \/ StartGetsThroughput
        \/ StartGetsOsts \/ StartGetsEnd \/ StartPushesStop => UNCHANGED <<jobs, schedule>>
  BY DEF PopReady, WaitForWork, HandleEnters, StartGetsStatus, StartGetsThroughput,
         StartGetsOsts, StartGetsEnd, StartPushesStop
<1>8. RegisterJob \/ BlockJob \/ RemoveJobFromPrioQueue \/ UnregisterGetsStatus
        => UNCHANGED <<jobs, schedule>>
  BY DEF RegisterJob, BlockJob, RemoveJobFromPrioQueue, UnregisterGetsStatus
<1> QED
  BY <1>1, <1>2, <1>3, <1>4, <1>5, <1>6, <1>7, <1>8, StepCases DEF Request

\* UpdateJob's effect, with the type of what it changes.
LEMMA UpdateJobEffect ==
  ASSUME TypeOK, NEW id \in JobIds, NEW state \in JobState, UpdateJob(id, state)
  PROVE  /\ \A j \in JobIds \ {id} : jobs'[j] = jobs[j]
         /\ jobs[id] = Null => jobs'[id] = Null
         /\ jobs[id] # Null => /\ jobs'[id] = [jobs[id] EXCEPT !.state = state]
                               /\ jobs'[id] # Null /\ jobs'[id].state = state
<1>1. jobs \in [JobIds -> Job \cup {Null}]
  BY DEF TypeOK, ScheduleTypeOK
<1>2. CASE jobs[id] = Null
  BY <1>1, <1>2 DEF UpdateJob
<1>3. CASE jobs[id] # Null
  <2>1. jobs[id] \in Job
    BY <1>1, <1>3
  <2>2. /\ [jobs[id] EXCEPT !.state = state] \in Job
        /\ [jobs[id] EXCEPT !.state = state].state = state
    BY <2>1 DEF Job
  <2>3. jobs' = [jobs EXCEPT ![id] = [jobs[id] EXCEPT !.state = state]]
    BY <1>3 DEF UpdateJob
  <2> QED
    BY <1>1, <1>3, <2>2, <2>3, NullAssumption
<1> QED
  BY <1>2, <1>3

\* A thread that holds a job has a job id.
LEMMA HolderHasJob ==
  ASSUME TypeOK
  PROVE  \A t \in Threads : ~At(t, "idle") => cur[t] \in JobIds
BY DEF TypeOK, MonitorTypeOK

-----------------------------------------------------------------------------
(* States only advance.                                                    *)

\* The monitor comes to the steps of StartJob only through a look at the state,
\* and keeps the job there.
LEMMA StartingSteps ==
  ASSUME TypeOK, [Next]_vars, pc'["monitor"] \in Starting
  PROVE  /\ cur'["monitor"] = cur["monitor"]
         /\ pc["monitor"] \in Starting \/ StartGetsStatus
<1> DEFINE Goal == /\ cur'["monitor"] = cur["monitor"]
                   /\ pc["monitor"] \in Starting \/ StartGetsStatus
<1> USE DEF Starting
<1>0. /\ pc \in [Threads -> Steps["monitor"] \cup Steps["server"]]
      /\ cur \in [Threads -> JobIds \cup {Null}]
  BY DEF TypeOK, MonitorTypeOK
<1> USE <1>0
<1>1. Request \/ RemoveFromSchedule \/ Tick \/ UNCHANGED vars => Goal
  BY DEF Request, ServeJobSubmission, RefuseJobSubmission, ServeJobRemove,
         RemoveFromSchedule, Tick, vars
<1>2. HandleRemovesJob \/ StartSetsRules \/ StartInsertsRules \/ StartUpdatesJob => Goal
  BY DEF HandleRemovesJob, StartSetsRules, StartInsertsRules, StartUpdatesJob
<1>3. ASSUME NEW t \in Threads, StopStep(t) \/ Unblock(t)
      PROVE  Goal
  BY <1>3 DEF StopStep, StopGetsStatus, StopRemovesRules, StopErasesRules,
              StopUpdatesJob, AfterStop, Unblock
<1>4. PopReady \/ WaitForWork \/ HandleEnters \/ StartGetsStatus \/ StartGetsThroughput
        \/ StartGetsOsts \/ StartGetsEnd \/ StartPushesStop => Goal
  BY DEF PopReady, WaitForWork, HandleEnters, StartGetsStatus, StartGetsThroughput,
         StartGetsOsts, StartGetsEnd, StartPushesStop
<1>5. RegisterJob \/ BlockJob \/ RemoveJobFromPrioQueue \/ UnregisterGetsStatus => Goal
  BY DEF RegisterJob, BlockJob, RemoveJobFromPrioQueue, UnregisterGetsStatus
<1> QED
  BY <1>1, <1>2, <1>3, <1>4, <1>5, StepCases DEF StopStep

\* While the monitor starts a job, StopJob cannot run for it (in_flight_jobs_).
LEMMA StartSeesScheduledStep ==
  ASSUME TypeOK, InFlightExclusion, StartSeesScheduled, [Next]_vars
  PROVE  StartSeesScheduled'
<1> DEFINE m == cur["monitor"]
<1> SUFFICES ASSUME pc'["monitor"] \in Starting, jobs'[m] # Null
             PROVE  jobs'[m].state = "SCHEDULED"
  BY StartingSteps DEF StartSeesScheduled
<1>0. /\ jobs \in [JobIds -> Job \cup {Null}]
      /\ pc \in [Threads -> Steps["monitor"] \cup Steps["server"]]
  BY DEF TypeOK, ScheduleTypeOK, MonitorTypeOK
<1>1. jobs[m] # Null => jobs[m].state = "SCHEDULED"
  BY <1>0, StartingSteps DEF StartSeesScheduled, StartGetsStatus, Starting
<1>2. m \in JobIds
  BY StartingSteps, HolderHasJob DEF Starting, StartGetsStatus
<1>3. CASE UNCHANGED <<jobs, schedule>>
  BY <1>1, <1>3
<1>4. ASSUME NEW id \in JobIds, NEW r \in Requests, AddsJob(id, r),
             ServeJobSubmission(id, r)
      PROVE  jobs'[m].state = "SCHEDULED"
  <2>1. [BuildJob(r) EXCEPT !.state = "SCHEDULED"].state = "SCHEDULED"
    BY DEF BuildJob
  <2> QED
    BY <1>0, <1>1, <1>2, <1>4, <2>1 DEF AddsJob
<1>5. CASE DropsJob(cur["monitor"]) \/ DropsJob(cur["server"])
  BY <1>0, <1>1, <1>2, <1>5 DEF DropsJob
<1>6. ~StartUpdatesJob
  BY <1>0 DEF StartUpdatesJob, Starting
<1>7. ASSUME NEW t \in Threads, StopUpdatesJob(t)
      PROVE  jobs'[m].state = "SCHEDULED"
  <2>1. t = "server"
    BY <1>0, <1>7 DEF StopUpdatesJob, Starting, AfterStop
  <2>2. cur["server"] # m
    BY <2>1, <1>7, StartingSteps
       DEF InFlightExclusion, Holds, Holding, StopSteps, StopUpdatesJob, Starting,
           StartGetsStatus
  <2>3. cur["server"] \in JobIds /\ UpdateJob(cur["server"], "DONE")
    BY <2>1, <1>7, HolderHasJob DEF StopUpdatesJob
  <2> QED
    BY <1>1, <1>2, <2>2, <2>3, UpdateJobEffect DEF JobState
<1> QED
  BY <1>3, <1>4, <1>5, <1>6, <1>7, JobChanges

\* What JobsOnlyAdvance says of one job in one step.
Advances(j) == jobs[j] # Null /\ jobs'[j] # Null =>
                 /\ Rank[jobs[j].state] <= Rank[jobs'[j].state]
                 /\ jobs'[j] = [jobs[j] EXCEPT !.state = jobs'[j].state]

\* A job that a step leaves alone has advanced by nothing.
LEMMA UnchangedAdvances ==
  ASSUME TypeOK, NEW j \in JobIds, jobs'[j] = jobs[j]
  PROVE  Advances(j)
<1> SUFFICES ASSUME jobs[j] # Null
             PROVE  /\ Rank[jobs[j].state] <= Rank[jobs[j].state]
                    /\ jobs[j] = [jobs[j] EXCEPT !.state = jobs[j].state]
  BY DEF Advances
<1>1. jobs[j] \in Job
  BY DEF TypeOK, ScheduleTypeOK
<1> QED
  BY <1>1 DEF Job, JobState, Rank

\* Each step lets jobs only advance.
LEMMA AdvanceStep ==
  ASSUME TypeOK, InFlightExclusion, StartSeesScheduled, [Next]_vars, NEW j \in JobIds
  PROVE  Advances(j)
<1>0. jobs \in [JobIds -> Job \cup {Null}]
  BY DEF TypeOK, ScheduleTypeOK
<1>1. CASE UNCHANGED <<jobs, schedule>>
  BY <1>1, UnchangedAdvances
<1>2. ASSUME NEW id \in JobIds, NEW r \in Requests, AddsJob(id, r)
      PROVE  Advances(j)
  <2>1. CASE j = id
    BY <2>1, <1>2 DEF AddsJob, Advances
  <2>2. CASE j # id
    BY <2>2, <1>0, <1>2, UnchangedAdvances DEF AddsJob
  <2> QED
    BY <2>1, <2>2
<1>3. ASSUME NEW id \in JobIds \cup {Null}, DropsJob(id)
      PROVE  Advances(j)
  <2>1. CASE j = id
    BY <2>1, <1>0, <1>3 DEF DropsJob, Advances
  <2>2. CASE j # id
    BY <2>2, <1>0, <1>3, UnchangedAdvances DEF DropsJob
  <2> QED
    BY <2>1, <2>2
<1>4. ASSUME NEW id \in JobIds, NEW state \in {"ACTIVE", "DONE"}, UpdateJob(id, state),
             jobs[id] # Null => Rank[jobs[id].state] <= Rank[state]
      PROVE  Advances(j)
  <2>1. state \in JobState
    BY DEF JobState
  <2>2. CASE j = id
    BY <2>1, <2>2, <1>4, UpdateJobEffect DEF Advances
  <2>3. CASE j # id
    BY <2>1, <2>3, <1>4, UpdateJobEffect, UnchangedAdvances
  <2> QED
    BY <2>2, <2>3
<1>5. CASE StartUpdatesJob
  <2>1. /\ cur["monitor"] \in JobIds /\ UpdateJob(cur["monitor"], "ACTIVE")
        /\ pc["monitor"] \in Starting
    BY <1>5, HolderHasJob DEF StartUpdatesJob, Starting
  <2> QED
    BY <1>4, <2>1 DEF StartSeesScheduled, Rank
<1>6. ASSUME NEW t \in Threads, StopUpdatesJob(t)
      PROVE  Advances(j)
  <2>1. cur[t] \in JobIds /\ UpdateJob(cur[t], "DONE")
    BY <1>6, HolderHasJob DEF StopUpdatesJob
  <2>2. jobs[cur[t]] # Null => jobs[cur[t]].state \in JobState
    BY <2>1, <1>0 DEF Job
  <2> QED
    BY <1>4, <2>1, <2>2 DEF JobState, Rank
<1>7. \A t \in Threads : cur[t] \in JobIds \cup {Null}
  BY DEF TypeOK, MonitorTypeOK
<1> QED
  BY <1>1, <1>2, <1>3, <1>5, <1>6, <1>7, JobChanges

\* UpdateJob never moves a job back to an earlier state, though it does not look
\* at the state that it replaces: the threads' order of steps sees to it.
THEOREM AdvanceHolds == Spec => JobsOnlyAdvance
<1>1. Init => StartSeesScheduled
  BY DEF Init, MonitorInit, StartSeesScheduled, Starting
<1>2. TypeOK /\ InFlightExclusion /\ StartSeesScheduled /\ [Next]_vars => StartSeesScheduled'
  BY StartSeesScheduledStep
<1>3. TypeOK /\ InFlightExclusion /\ StartSeesScheduled /\ [Next]_vars
        => \A j \in JobIds : Advances(j)
  BY AdvanceStep
<1>4. (\A j \in JobIds : Advances(j))
        <=> \A j \in JobIds : jobs[j] # Null /\ jobs'[j] # Null =>
              /\ Rank[jobs[j].state] <= Rank[jobs'[j].state]
              /\ jobs'[j] = [jobs[j] EXCEPT !.state = jobs'[j].state]
  BY DEF Advances
<1> QED
  BY <1>1, <1>2, <1>3, <1>4, TypeCorrect, ExclusionHolds, PTL DEF Spec, JobsOnlyAdvance

-----------------------------------------------------------------------------
(* Active jobs have a stop.                                                *)

\* A step makes no job active but the one that the monitor is starting.
LEMMA Activations ==
  ASSUME TypeOK, [Next]_vars, NEW j \in JobIds, Active(j)'
  PROVE  Active(j) \/ (StartUpdatesJob /\ cur["monitor"] = j)
<1>0. jobs \in [JobIds -> Job \cup {Null}]
  BY DEF TypeOK, ScheduleTypeOK
<1> USE <1>0 DEF Active
<1>1. CASE UNCHANGED <<jobs, schedule>>
  BY <1>1
<1>2. ASSUME NEW id \in JobIds, NEW r \in Requests, AddsJob(id, r)
      PROVE  Active(j)
  <2>1. [BuildJob(r) EXCEPT !.state = "SCHEDULED"].state # "ACTIVE"
    BY DEF BuildJob
  <2> QED
    BY <1>2, <2>1 DEF AddsJob
<1>3. CASE DropsJob(cur["monitor"]) \/ DropsJob(cur["server"])
  BY <1>3 DEF DropsJob
<1>4. CASE StartUpdatesJob
  <2>1. cur["monitor"] \in JobIds /\ UpdateJob(cur["monitor"], "ACTIVE")
    BY <1>4, HolderHasJob DEF StartUpdatesJob
  <2> QED
    BY <1>4, <2>1, UpdateJobEffect DEF JobState
<1>5. ASSUME NEW t \in Threads, StopUpdatesJob(t)
      PROVE  Active(j)
  <2>1. cur[t] \in JobIds /\ UpdateJob(cur[t], "DONE")
    BY <1>5, HolderHasJob DEF StopUpdatesJob
  <2> QED
    BY <2>1, UpdateJobEffect DEF JobState
<1> QED
  BY <1>1, <1>2, <1>3, <1>4, <1>5, JobChanges

\* StopJob leaves no active job behind.
LEMMA StopUpdatesInactive ==
  ASSUME TypeOK, NEW t \in Threads, StopUpdatesJob(t)
  PROVE  ~Active(cur[t])'
<1>1. cur[t] \in JobIds /\ UpdateJob(cur[t], "DONE") /\ cur' = cur
  BY HolderHasJob DEF StopUpdatesJob
<1> QED
  BY <1>1, UpdateJobEffect DEF JobState, Active

Queued(j)     == \E item \in QItems(queue) : item.jobid = j /\ item.eventType = "JOBSTOP"
MonitorHas(j) == /\ cur["monitor"] = j
                 /\ \/ pc["monitor"] \in {"start_end", "start_push"} \cup StopSteps
                    \/ At("monitor", "handle") /\ event = "JOBSTOP"
ServerHas(j)  == cur["server"] = j /\ pc["server"] \in {"unreg_status"} \cup StopSteps

\* Items leave the queue only into the hands of a thread.
LEMMA QueuedStays ==
  ASSUME TypeOK, [Next]_vars, NEW j \in JobIds, Queued(j)
  PROVE  StopIsDue(j)'
<1> USE DEF Queued, StopIsDue
<1>0. /\ pc \in [Threads -> Steps["monitor"] \cup Steps["server"]]
      /\ cur \in [Threads -> JobIds \cup {Null}] /\ queue \in Queue
      /\ start_at \in Time /\ args.tend \in Time
  BY DEF TypeOK, MonitorTypeOK
<1>1. CASE UNCHANGED queue
  BY <1>1
<1>2. CASE PopReady
  <2>1. PICK item \in QItems(queue) : item.jobid = j /\ item.eventType = "JOBSTOP"
    OBVIOUS
  <2>2. item \in QItems(QPop(queue)) \/ item = QPeek(queue)
    BY <1>0, <2>1, QueueItems
  <2>3. /\ queue' = QPop(queue) /\ cur'["monitor"] = QPeek(queue).jobid
        /\ event' = QPeek(queue).eventType /\ pc'["monitor"] = "handle"
    BY <1>0, <1>2 DEF PopReady
  <2> QED
    BY <2>1, <2>2, <2>3
<1>3. ASSUME NEW item \in WaitingItem, queue' = QPush(queue, item), queue' \in Queue
      PROVE  StopIsDue(j)'
  <2>1. QItems(QPush(queue, item)) = QItems(queue) \cup {item}
    BY <1>0, <1>3, QueueItems
  <2> QED
    BY <1>3, <2>1
<1>4. CASE RegisterJob
  <2>1. StartItem(cur["server"], start_at) \in WaitingItem
    BY <1>0, <1>4, HolderHasJob DEF RegisterJob, StartItem, WaitingItem, JobEvent
  <2> QED
    BY <1>3, <1>4, <2>1 DEF RegisterJob
<1>5. CASE StartPushesStop
  <2>1. StopItem(cur["monitor"], args.tend) \in WaitingItem
    BY <1>0, <1>5, HolderHasJob DEF StartPushesStop, StopItem, WaitingItem, JobEvent
  <2> QED
    BY <1>3, <1>5, <2>1 DEF StartPushesStop
<1>6. CASE RemoveJobFromPrioQueue
  <2>1. /\ cur["server"] \in JobIds /\ cur' = cur /\ pc'["server"] = "unreg_status"
        /\ queue' = QRemove(queue, cur["server"])
    BY <1>0, <1>6, HolderHasJob DEF RemoveJobFromPrioQueue
  <2>2. CASE cur["server"] = j
    BY <2>1, <2>2
  <2>3. CASE cur["server"] # j
    <3>1. {item \in QItems(queue) : item.jobid # cur["server"]} \subseteq QItems(queue')
      BY <1>0, <2>1, QueueItems
    <3> QED
      BY <2>3, <3>1
  <2> QED
    BY <2>2, <2>3
<1>7. \/ UNCHANGED queue \/ PopReady \/ RegisterJob \/ StartPushesStop
      \/ RemoveJobFromPrioQueue
  BY StepCases
     DEF Request, ServeJobSubmission, RefuseJobSubmission, ServeJobRemove,
         RemoveFromSchedule, Tick, vars, HandleRemovesJob, StartSetsRules,
         StartInsertsRules, StartUpdatesJob, StopRemovesRules, StopErasesRules,
         StopUpdatesJob, WaitForWork, HandleEnters, StartGetsStatus,
         StartGetsThroughput, StartGetsOsts, StartGetsEnd, StopGetsStatus, Unblock,
         BlockJob, UnregisterGetsStatus
<1> QED
  BY <1>1, <1>2, <1>4, <1>5, <1>6, <1>7

\* The monitor, once it has an active job in hand, queues its stop or stops it.
LEMMA MonitorKeepsStop ==
  ASSUME TypeOK, [Next]_vars, NEW j \in JobIds, MonitorHas(j), Active(j)'
  PROVE  StopIsDue(j)'
<1>0. /\ pc \in [Threads -> Steps["monitor"] \cup Steps["server"]]
      /\ cur \in [Threads -> JobIds \cup {Null}] /\ queue \in Queue
      /\ args.tend \in Time
  BY DEF TypeOK, MonitorTypeOK
<1> USE <1>0 DEF MonitorHas, StopIsDue, StopSteps
<1>1. CASE StartPushesStop
  <2>1. StopItem(j, args.tend) \in WaitingItem
    BY DEF StopItem, WaitingItem, JobEvent
  <2>2. queue' = QPush(queue, StopItem(j, args.tend)) /\ queue' \in Queue
    BY <1>1 DEF StartPushesStop
  <2>3. QItems(QPush(queue, StopItem(j, args.tend)))
          = QItems(queue) \cup {StopItem(j, args.tend)}
    BY <2>1, <2>2, QueueItems
  <2> QED
    BY <2>2, <2>3 DEF StopItem
<1>2. CASE StartGetsEnd
  BY <1>2 DEF StartGetsEnd, Active
<1>3. CASE HandleEnters
  BY <1>3 DEF HandleEnters
<1>4. CASE StopGetsStatus("monitor")
  BY <1>4 DEF StopGetsStatus, Active
<1>5. CASE StopRemovesRules("monitor") \/ StopErasesRules("monitor")
  BY <1>5 DEF StopRemovesRules, StopErasesRules
<1>6. CASE StopUpdatesJob("monitor")
  <2>1. cur["monitor"] = j /\ cur'["monitor"] = j
    BY <1>6 DEF StopUpdatesJob
  <2> QED
    BY <1>6, <2>1, StopUpdatesInactive
<1>7. CASE \/ StopGetsStatus("server") \/ StopRemovesRules("server")
           \/ StopErasesRules("server") \/ StopUpdatesJob("server") \/ Unblock("server")
  BY <1>7 DEF StopGetsStatus, StopRemovesRules, StopErasesRules, StopUpdatesJob, Unblock,
              AfterStop
<1>8. CASE Request \/ RemoveFromSchedule \/ Tick \/ UNCHANGED vars
  BY <1>8 DEF Request, ServeJobSubmission, RefuseJobSubmission, ServeJobRemove,
              RemoveFromSchedule, Tick, vars
<1>9. CASE RegisterJob \/ BlockJob \/ RemoveJobFromPrioQueue \/ UnregisterGetsStatus
  BY <1>9 DEF RegisterJob, BlockJob, RemoveJobFromPrioQueue, UnregisterGetsStatus
<1>10. ~(\/ HandleRemovesJob \/ StartSetsRules \/ StartInsertsRules \/ StartUpdatesJob
         \/ PopReady \/ WaitForWork \/ StartGetsStatus \/ StartGetsThroughput
         \/ StartGetsOsts \/ Unblock("monitor"))
  BY DEF HandleRemovesJob, StartSetsRules, StartInsertsRules, StartUpdatesJob, PopReady,
         WaitForWork, StartGetsStatus, StartGetsThroughput, StartGetsOsts, Unblock
<1> QED
  BY <1>1, <1>2, <1>3, <1>4, <1>5, <1>6, <1>7, <1>8, <1>9, <1>10, StepCases

\* The server, once it has dequeued an active job, stops it.
LEMMA ServerKeepsStop ==
  ASSUME TypeOK, [Next]_vars, NEW j \in JobIds, ServerHas(j), Active(j)'
  PROVE  StopIsDue(j)'
<1>0. /\ pc \in [Threads -> Steps["monitor"] \cup Steps["server"]]
      /\ cur \in [Threads -> JobIds \cup {Null}]
  BY DEF TypeOK, MonitorTypeOK
<1> USE <1>0 DEF ServerHas, StopIsDue, StopSteps
<1>1. CASE StopGetsStatus("server") \/ UnregisterGetsStatus
  BY <1>1 DEF StopGetsStatus, UnregisterGetsStatus, Active
<1>2. CASE StopRemovesRules("server") \/ StopErasesRules("server")
  BY <1>2 DEF StopRemovesRules, StopErasesRules
<1>3. CASE StopUpdatesJob("server")
  <2>1. cur["server"] = j /\ cur'["server"] = j
    BY <1>3 DEF StopUpdatesJob
  <2> QED
    BY <1>3, <2>1, StopUpdatesInactive DEF Active
<1>4. CASE \/ StopGetsStatus("monitor") \/ StopRemovesRules("monitor")
           \/ StopErasesRules("monitor") \/ StopUpdatesJob("monitor") \/ Unblock("monitor")
  BY <1>4 DEF StopGetsStatus, StopRemovesRules, StopErasesRules, StopUpdatesJob, Unblock,
              AfterStop
<1>5. CASE Request \/ RemoveFromSchedule \/ Tick \/ UNCHANGED vars
  BY <1>5 DEF Request, ServeJobSubmission, RefuseJobSubmission, ServeJobRemove,
              RemoveFromSchedule, Tick, vars
<1>6. CASE HandleRemovesJob \/ StartSetsRules \/ StartInsertsRules \/ StartUpdatesJob
  BY <1>6 DEF HandleRemovesJob, StartSetsRules, StartInsertsRules, StartUpdatesJob
<1>7. CASE PopReady \/ WaitForWork \/ HandleEnters \/ StartGetsStatus
           \/ StartGetsThroughput \/ StartGetsOsts \/ StartGetsEnd \/ StartPushesStop
  BY <1>7 DEF PopReady, WaitForWork, HandleEnters, StartGetsStatus,
              StartGetsThroughput, StartGetsOsts, StartGetsEnd, StartPushesStop
<1>8. ~(RegisterJob \/ BlockJob \/ RemoveJobFromPrioQueue \/ Unblock("server"))
  BY DEF RegisterJob, BlockJob, RemoveJobFromPrioQueue, Unblock
<1> QED
  BY <1>1, <1>2, <1>3, <1>4, <1>5, <1>6, <1>7, <1>8, StepCases

\* A job that is active after a step has its stop ahead.
LEMMA StopStaysDue ==
  ASSUME TypeOK, ActiveJobsHaveStop, [Next]_vars
  PROVE  ActiveJobsHaveStop'
<1>1. ASSUME NEW j \in JobIds, Active(j)'
      PROVE  StopIsDue(j)'
  <2>1. CASE StartUpdatesJob /\ cur["monitor"] = j
    BY <1>1, <2>1 DEF StartUpdatesJob, UpdateJob, StopIsDue, Active, TypeOK, MonitorTypeOK
  <2>2. CASE Active(j)
    <3>1. Queued(j) \/ MonitorHas(j) \/ ServerHas(j)
      BY <1>1, <2>2 DEF ActiveJobsHaveStop, StopIsDue, Queued, MonitorHas, ServerHas
    <3> QED
      BY <1>1, <3>1, QueuedStays, MonitorKeepsStop, ServerKeepsStop
  <2> QED
    BY <1>1, <2>1, <2>2, Activations
<1> QED
  BY <1>1 DEF ActiveJobsHaveStop

\* No reservation stays active for want of a stop, whoever starts, ends and
\* removes jobs in which order, for every queue that keeps its items.
THEOREM StopHolds == Spec => []ActiveJobsHaveStop
<1>1. Init => ActiveJobsHaveStop
  BY DEF Init, ScheduleInit, ActiveJobsHaveStop, Active
<1>2. TypeOK /\ ActiveJobsHaveStop /\ [Next]_vars => ActiveJobsHaveStop'
  BY StopStaysDue
<1> QED
  BY <1>1, <1>2, TypeCorrect, PTL DEF Spec

-----------------------------------------------------------------------------
(* Active jobs have rules.                                                 *)

\* What StartJob knows between SetNrsRules' tests and UpdateJob: there is an
\* OST, so there will be an OSS in the definition, and then there is one.
RulesBeforeActive ==
  /\ At("monitor", "insert_rule") => args.osts # {}
  /\ ~raced /\ At("monitor", "start_update") => HasRules(cur["monitor"])

\* The only writes of active_rules_ are SetNrsRules' insertion and StopJob's
\* erasure; both note the race that may spoil them.
LEMMA RuleChanges ==
  ASSUME [Next]_vars, ~raced'
  PROVE  /\ ~raced
         /\ \/ UNCHANGED active_rules
            \/ InsertRules(cur["monitor"], args.osts) /\ StartInsertsRules
            \/ \E t \in Threads : EraseRules(cur[t]) /\ StopErasesRules(t)
<1>1. StartInsertsRules => ~raced /\ InsertRules(cur["monitor"], args.osts)
  BY DEF StartInsertsRules, NotesRace
<1>2. ASSUME NEW t \in Threads, StopErasesRules(t)
      PROVE  ~raced /\ EraseRules(cur[t])
  BY <1>2 DEF StopErasesRules, NotesRace
<1>3. \/ StartSetsRules
      \/ \E t \in Threads : StopRemovesRules(t)
      => ~raced /\ UNCHANGED active_rules
  BY DEF StartSetsRules, StopRemovesRules, NotesRace
<1>4. Request \/ RemoveFromSchedule \/ Tick \/ UNCHANGED vars
        => ~raced /\ UNCHANGED active_rules
  BY DEF Request, ServeJobSubmission, RefuseJobSubmission, ServeJobRemove,
         RemoveFromSchedule, Tick, vars
<1>5. \/ HandleRemovesJob \/ StartUpdatesJob \/ PopReady \/ WaitForWork \/ HandleEnters
      \/ StartGetsStatus \/ StartGetsThroughput \/ StartGetsOsts \/ StartGetsEnd
      \/ StartPushesStop \/ RegisterJob \/ BlockJob \/ RemoveJobFromPrioQueue
      \/ UnregisterGetsStatus
      \/ \E t \in Threads : StopUpdatesJob(t) \/ StopGetsStatus(t) \/ Unblock(t)
      => ~raced /\ UNCHANGED active_rules
  BY DEF HandleRemovesJob, StartUpdatesJob, PopReady, WaitForWork, HandleEnters,
         StartGetsStatus, StartGetsThroughput, StartGetsOsts, StartGetsEnd,
         StartPushesStop, RegisterJob, BlockJob, RemoveJobFromPrioQueue,
         UnregisterGetsStatus, StopUpdatesJob, StopGetsStatus, Unblock
<1> QED
  BY <1>1, <1>2, <1>3, <1>4, <1>5, StepCases

\* The erasure of one thread's rules leaves those of the other's job alone.
LEMMA RulesAfter ==
  ASSUME TypeOK, At("monitor", "insert_rule") => args.osts # {}, [Next]_vars, ~raced',
         NEW j \in JobIds, HasRules(j)
  PROVE  HasRules(j)' \/ \E t \in Threads : cur[t] = j /\ StopErasesRules(t)
<1>0. active_rules \in [JobIds -> SUBSET Ips]
  BY DEF TypeOK, RulesTypeOK
<1>1. CASE UNCHANGED active_rules
  BY <1>1 DEF HasRules
<1>2. CASE InsertRules(cur["monitor"], args.osts) /\ StartInsertsRules
  <2>1. args.osts # {}
    BY <1>2 DEF StartInsertsRules
  <2> QED
    BY <1>0, <1>2, <2>1 DEF InsertRules, HasRules, IpsOf
<1>3. ASSUME NEW t \in Threads, EraseRules(cur[t]), StopErasesRules(t), cur[t] # j
      PROVE  HasRules(j)'
  BY <1>0, <1>3 DEF EraseRules, HasRules
<1> QED
  BY <1>1, <1>2, <1>3, RuleChanges

\* Only UpdateJob takes a thread from where it has erased the rules.
LEMMA StopUpdateStays ==
  ASSUME TypeOK, [Next]_vars, NEW t \in Threads, At(t, "stop_update")
  PROVE  StopUpdatesJob(t) \/ (At(t, "stop_update")' /\ cur'[t] = cur[t])
<1> DEFINE Stays == At(t, "stop_update")' /\ cur'[t] = cur[t]
<1>0. /\ pc \in [Threads -> Steps["monitor"] \cup Steps["server"]]
      /\ cur \in [Threads -> JobIds \cup {Null}]
  BY DEF TypeOK, MonitorTypeOK
<1>1. Request \/ RemoveFromSchedule \/ Tick \/ UNCHANGED vars => Stays
  BY <1>0 DEF Request, ServeJobSubmission, RefuseJobSubmission, ServeJobRemove,
              RemoveFromSchedule, Tick, vars
<1>2. HandleRemovesJob \/ StartSetsRules \/ StartInsertsRules \/ StartUpdatesJob => Stays
  BY <1>0 DEF HandleRemovesJob, StartSetsRules, StartInsertsRules, StartUpdatesJob
<1>3. ASSUME NEW u \in Threads,
             \/ StopGetsStatus(u) \/ StopRemovesRules(u) \/ StopErasesRules(u)
             \/ StopUpdatesJob(u) \/ Unblock(u)
      PROVE  StopUpdatesJob(t) \/ Stays
  BY <1>0, <1>3 DEF StopGetsStatus, StopRemovesRules, StopErasesRules, StopUpdatesJob,
                    Unblock
<1>4. PopReady \/ WaitForWork \/ HandleEnters \/ StartGetsStatus \/ StartGetsThroughput
        \/ StartGetsOsts \/ StartGetsEnd \/ StartPushesStop => Stays
  BY <1>0 DEF PopReady, WaitForWork, HandleEnters, StartGetsStatus, StartGetsThroughput,
              StartGetsOsts, StartGetsEnd, StartPushesStop
<1>5. RegisterJob \/ BlockJob \/ RemoveJobFromPrioQueue \/ UnregisterGetsStatus => Stays
  BY <1>0 DEF RegisterJob, BlockJob, RemoveJobFromPrioQueue, UnregisterGetsStatus
<1> QED
  BY <1>1, <1>2, <1>3, <1>4, <1>5, StepCases

\* How the monitor comes to the two steps that RulesBeforeActive is about.
LEMMA SettingSteps ==
  ASSUME TypeOK, [Next]_vars, pc'["monitor"] \in {"insert_rule", "start_update"}
  PROVE  /\ cur'["monitor"] = cur["monitor"]
         /\ args' = args
         /\ \/ pc'["monitor"] = pc["monitor"]
            \/ At("monitor", "insert_rule")' /\ args.osts # {}
            \/ At("monitor", "start_update")' /\ StartInsertsRules
<1> DEFINE Goal == /\ cur'["monitor"] = cur["monitor"]
                   /\ args' = args
                   /\ \/ pc'["monitor"] = pc["monitor"]
                      \/ At("monitor", "insert_rule")' /\ args.osts # {}
                      \/ At("monitor", "start_update")' /\ StartInsertsRules
<1>0. /\ pc \in [Threads -> Steps["monitor"] \cup Steps["server"]]
      /\ cur \in [Threads -> JobIds \cup {Null}]
  BY DEF TypeOK, MonitorTypeOK
<1>1. Request \/ RemoveFromSchedule \/ Tick \/ UNCHANGED vars => Goal
  BY <1>0 DEF Request, ServeJobSubmission, RefuseJobSubmission, ServeJobRemove,
              RemoveFromSchedule, Tick, vars
<1>2. HandleRemovesJob \/ StartInsertsRules \/ StartUpdatesJob => Goal
  BY <1>0 DEF HandleRemovesJob, StartInsertsRules, StartUpdatesJob
<1>3. StartSetsRules => Goal
  BY <1>0 DEF StartSetsRules, AfterSetRules, SetRulesProceeds
<1>4. ASSUME NEW t \in Threads, StopStep(t) \/ Unblock(t)
      PROVE  Goal
  BY <1>0, <1>4 DEF StopStep, StopGetsStatus, StopRemovesRules, StopErasesRules,
                    StopUpdatesJob, AfterStop, Unblock
<1>5. PopReady \/ WaitForWork \/ HandleEnters \/ StartGetsStatus \/ StartGetsThroughput
        \/ StartGetsOsts \/ StartGetsEnd \/ StartPushesStop => Goal
  BY <1>0 DEF PopReady, WaitForWork, HandleEnters, StartGetsStatus, StartGetsThroughput,
              StartGetsOsts, StartGetsEnd, StartPushesStop
<1>6. RegisterJob \/ BlockJob \/ RemoveJobFromPrioQueue \/ UnregisterGetsStatus => Goal
  BY <1>0 DEF RegisterJob, BlockJob, RemoveJobFromPrioQueue, UnregisterGetsStatus
<1> QED
  BY <1>1, <1>2, <1>3, <1>4, <1>5, <1>6, StepCases DEF StopStep

\* The monitor's knowledge is kept: the server erases the rules of a job it
\* holds, which is never the one that the monitor holds.
LEMMA RulesBeforeActiveStep ==
  ASSUME TypeOK, InFlightExclusion, RulesBeforeActive, [Next]_vars
  PROVE  RulesBeforeActive'
<1>1. ASSUME At("monitor", "insert_rule")'
      PROVE  args'.osts # {}
  BY <1>1, SettingSteps DEF RulesBeforeActive
<1>2. ASSUME ~raced', At("monitor", "start_update")'
      PROVE  HasRules(cur["monitor"])'
  <2>0. /\ cur'["monitor"] = cur["monitor"] /\ cur["monitor"] \in JobIds
        /\ active_rules \in [JobIds -> SUBSET Ips]
    BY <1>2, SettingSteps, HolderHasJob
       DEF StartInsertsRules, TypeOK, RulesTypeOK
  <2>1. CASE StartInsertsRules
    <3>1. args.osts # {} /\ pc["monitor"] = "insert_rule"
      BY <2>1 DEF StartInsertsRules, RulesBeforeActive
    <3>2. InsertRules(cur["monitor"], args.osts)
      BY <1>2, <2>1 DEF StartInsertsRules, NotesRace
    <3> QED
      BY <2>0, <3>1, <3>2 DEF InsertRules, HasRules, IpsOf
  <2>2. CASE At("monitor", "start_update")
    <3>1. HasRules(cur["monitor"])
      BY <1>2, <2>2, RuleChanges DEF RulesBeforeActive
    <3>2. ASSUME NEW t \in Threads, cur[t] = cur["monitor"], StopErasesRules(t)
          PROVE  FALSE
      BY <2>2, <3>2
         DEF StopErasesRules, InFlightExclusion, Holds, Holding, StopSteps
    <3> QED
      BY <1>2, <2>0, <3>1, <3>2, RulesAfter DEF RulesBeforeActive, HasRules
  <2> QED
    BY <1>2, <2>1, <2>2, SettingSteps
<1> QED
  BY <1>1, <1>2 DEF RulesBeforeActive

\* A job's rules are known from before it is active until the thread that stops
\* it has erased them.
LEMMA ActiveJobsHaveRulesStep ==
  ASSUME TypeOK, RulesBeforeActive, ActiveJobsHaveRules, [Next]_vars
  PROVE  ActiveJobsHaveRules'
<1> SUFFICES ASSUME ~raced', NEW j \in JobIds, Active(j)'
             PROVE  HasRules(j)' \/ \E t \in Threads : cur'[t] = j /\ At(t, "stop_update")'
  BY DEF ActiveJobsHaveRules
<1>0. ~raced
  BY RuleChanges
<1>1. CASE HasRules(j)
  <2>1. ASSUME NEW t \in Threads, cur[t] = j, StopErasesRules(t)
        PROVE  cur'[t] = j /\ At(t, "stop_update")'
    BY <2>1 DEF StopErasesRules, TypeOK, MonitorTypeOK
  <2> QED
    BY <1>1, <2>1, RulesAfter DEF RulesBeforeActive
<1>2. ASSUME NEW t \in Threads, cur[t] = j, At(t, "stop_update")
      PROVE  cur'[t] = j /\ At(t, "stop_update")'
  <2>1. ASSUME StopUpdatesJob(t)
        PROVE  FALSE
    <3>1. cur'[t] = j
      BY <1>2, <2>1 DEF StopUpdatesJob
    <3> QED
      BY <2>1, <3>1, StopUpdatesInactive DEF Active
  <2> QED
    BY <1>2, <2>1, StopUpdateStays
<1>3. StartUpdatesJob /\ cur["monitor"] = j => HasRules(j)
  BY <1>0 DEF StartUpdatesJob, RulesBeforeActive
<1> QED
  BY <1>0, <1>1, <1>2, <1>3, Activations DEF ActiveJobsHaveRules

\* Unless the threads race on active_rules_, no interleaving of starting, ending
\* and removing leaves an active job whose rules nobody could take away.
THEOREM RulesHold == Spec => []ActiveJobsHaveRules
<1>1. Init => RulesBeforeActive /\ ActiveJobsHaveRules
  BY DEF Init, ScheduleInit, MonitorInit, RulesBeforeActive, ActiveJobsHaveRules, Active
<1>2. TypeOK /\ InFlightExclusion /\ RulesBeforeActive /\ [Next]_vars => RulesBeforeActive'
  BY RulesBeforeActiveStep
<1>3. TypeOK /\ RulesBeforeActive /\ ActiveJobsHaveRules /\ [Next]_vars
        => ActiveJobsHaveRules'
  BY ActiveJobsHaveRulesStep
<1> QED
  BY <1>1, <1>2, <1>3, TypeCorrect, ExclusionHolds, PTL DEF Spec

-----------------------------------------------------------------------------
(* Admission control sees every reservation.                               *)

\* Each step that changes the schedule does so by one of its methods.
LEMMA ListsStep ==
  ASSUME TypeOK, ListsSorted /\ JobsAreListed, [Next]_vars
  PROVE  ListsSorted' /\ JobsAreListed'
<1>0. Lists
  BY DEF Lists, TypeOK
<1>1. CASE UNCHANGED <<jobs, schedule>>
  BY <1>1 DEF ListsSorted, JobsAreListed, Accepted
<1>2. ASSUME NEW id \in JobIds, NEW r \in Requests, ServeJobSubmission(id, r)
      PROVE  ListsSorted' /\ JobsAreListed'
  <2>1. [BuildJob(r) EXCEPT !.state = "SCHEDULED"] \in Job
    BY <1>2, BuildJobType DEF ServeJobSubmission, TypeOK, MonitorTypeOK
  <2>2. AddJob(id, [BuildJob(r) EXCEPT !.state = "SCHEDULED"])
    BY <1>2 DEF ServeJobSubmission, ScheduleJob
  <2> QED
    BY <1>0, <2>1, <2>2, AddJobLists
<1>3. CASE HandleRemovesJob \/ RemoveFromSchedule
  BY <1>0, <1>3, RemoveJobLists DEF HandleRemovesJob, RemoveFromSchedule
<1>4. CASE StartUpdatesJob
  BY <1>0, <1>4, HolderHasJob, UpdateJobLists DEF StartUpdatesJob, JobState
<1>5. ASSUME NEW t \in Threads, StopUpdatesJob(t)
      PROVE  ListsSorted' /\ JobsAreListed'
  BY <1>0, <1>5, HolderHasJob, UpdateJobLists DEF StopUpdatesJob, JobState
<1> QED
  BY <1>1, <1>2, <1>3, <1>4, <1>5, JobChanges

\* Also with the monitor at work, no accepted reservation is missing from the
\* lists that admission control adds up, and the lists are sorted.
THEOREM ReservationsListed == Spec => [](ListsSorted /\ JobsAreListed)
<1>1. Init => ListsSorted /\ JobsAreListed
  BY DEF Init, ScheduleInit, ListsSorted, JobsAreListed, Accepted
<1>2. TypeOK /\ ListsSorted /\ JobsAreListed /\ [Next]_vars => ListsSorted' /\ JobsAreListed'
  BY ListsStep
<1> QED
  BY <1>1, <1>2, TypeCorrect, PTL DEF Spec
=============================================================================
