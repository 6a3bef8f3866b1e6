---------------------------- MODULE ServiceProofs ----------------------------
(***************************************************************************)
(* Proofs about what the planner does for its clients as long as nobody    *)
(* removes a reservation and no command fails (planner_quiet), and about   *)
(* its life from Init to TearDown with removals (planner_live).            *)
(***************************************************************************)
EXTENDS Startup, PlannerProofs

USE DEF Threads, At, Goto, scheduleVars, ruleVars, localVars

-----------------------------------------------------------------------------
(* The inductive invariant: each reservation waits in one place.           *)

StartSteps == {"handle", "start_status", "start_throughput", "start_osts", "set_rules",
               "insert_rule", "start_update"}
QueueSteps == {"start_end", "start_push"}
EndSteps   == {"handle"} \cup StopSteps

\* The monitor has the job's next event in its hands.
InCharge(j) == cur["monitor"] = j /\ pc["monitor"] \notin {"idle", "unblock"}
Registers(j) == cur["server"] = j /\ At("server", "register")

\* An item waits for a reservation that nobody else has in hand, is what comes
\* next for it, and is in the queue once.
OneItemEach ==
  \A item \in QItems(queue) :
     /\ jobs[item.jobid] # Null /\ jobs[item.jobid].state \in {"SCHEDULED", "ACTIVE"}
     /\ item = Due(item.jobid) /\ QBag(queue)[item] = 1
     /\ ~InCharge(item.jobid) /\ ~Registers(item.jobid)

\* Without removals the server only accepts reservations and queues their start.
ServerRegisters ==
  /\ pc["server"] \in {"idle", "register"} /\ ~raced
  /\ At("server", "register") =>
       LET job == jobs[cur["server"]]
       IN  /\ job # Null /\ job.state = "SCHEDULED" /\ start_at = job.tstart
           /\ ~InCharge(cur["server"])

\* What the monitor knows of the reservation it is in charge of.
MonitorKnows ==
  LET job == jobs[cur["monitor"]]
      at  == pc["monitor"]
  IN  InCharge(cur["monitor"]) =>
        /\ job # Null
        /\ event = "JOBSTART" => at \in StartSteps \cup QueueSteps
        /\ event = "JOBSTOP"  => at \in EndSteps \cup {"remove_job"}
        /\ event = "JOBSTART" /\ at \in StartSteps => job.state = "SCHEDULED" /\ job.tstart < now
        /\ event = "JOBSTART" /\ at \in QueueSteps => job.state = "ACTIVE"
        /\ event = "JOBSTOP" => job.tend < now
        /\ event = "JOBSTOP" /\ at \in EndSteps => job.state = "ACTIVE"
        /\ event = "JOBSTOP" /\ at = "remove_job" => job.state = "DONE"
        /\ at \in {"start_osts", "set_rules", "insert_rule", "start_update"} => args.mbs = job.mbs
        /\ at \in {"set_rules", "insert_rule", "start_update"} => args.osts = job.osts
        /\ at \in {"insert_rule", "start_update"} => args.osts # {}
        /\ at = "start_push" => args.tend = job.tend

\* Which reservations have their rules on the OSSs, and in active_rules_.
MonitorAt(j, steps) == cur["monitor"] = j /\ pc["monitor"] \in steps
Placed(j) == \/ Active(j) /\ ~MonitorAt(j, {"erase_rule", "stop_update"})
             \/ MonitorAt(j, {"insert_rule", "start_update"})
Tracked(j) == \/ Active(j) /\ ~MonitorAt(j, {"stop_update"})
              \/ MonitorAt(j, {"start_update"})
Follows(j) ==
  /\ jobs[j] # Null => jobs[j].state \in {"SCHEDULED", "ACTIVE", "DONE"}
  /\ Active(j) => jobs[j].osts # {}
  /\ \A ip \in Ips : oss_rules[ip][j] = IF Placed(j) THEN RulesFor(TermsOf(jobs[j]))[ip] ELSE Null
  /\ active_rules[j] = IF Tracked(j) THEN IpsOf(jobs[j].osts) ELSE {}
RulesFollow == \A j \in JobIds : Follows(j)

OrderInv == OneItemEach /\ ServerRegisters /\ MonitorKnows
QuietInv == OrderInv /\ RulesFollow

-----------------------------------------------------------------------------
(* The order of things without removals.                                   *)

\* What the server does without removals, and the monitor's steps.
LEMMA QuietSteps ==
  ASSUME MaxRemovals = 0, TypeOK, ServerRegisters, [Next]_vars
  PROVE  \/ \E id \in JobIds, r \in Requests : ServeJobSubmission(id, r)
         \/ RegisterJob \/ Tick \/ UNCHANGED vars
         \/ PopReady \/ HandleEnters \/ StartGetsStatus \/ StartGetsThroughput
         \/ StartGetsOsts \/ StartSetsRules \/ StartInsertsRules \/ StartUpdatesJob
         \/ StartGetsEnd \/ StartPushesStop \/ StopGetsStatus("monitor")
         \/ StopRemovesRules("monitor") \/ StopErasesRules("monitor")
         \/ StopUpdatesJob("monitor") \/ HandleRemovesJob \/ Unblock("monitor")
<1>1. ~\E id \in JobIds : ServeJobRemove(id)
  BY DEF ServeJobRemove, TypeOK
<1>2. ~(RemoveFromSchedule \/ BlockJob \/ RemoveJobFromPrioQueue \/ UnregisterGetsStatus)
  BY DEF ServerRegisters, RemoveFromSchedule, BlockJob, RemoveJobFromPrioQueue,
         UnregisterGetsStatus
<1>3. ~(StopStep("server") \/ Unblock("server"))
  BY DEF ServerRegisters, StopStep, StopGetsStatus, StopRemovesRules, StopErasesRules,
         StopUpdatesJob, Unblock
<1>4. (WaitForWork /\ UNCHANGED <<submitted, removed>>) => UNCHANGED vars
  BY DEF WaitForWork, vars
<1>5. ASSUME NEW id \in JobIds, NEW r \in Requests, RefuseJobSubmission(id, r)
      PROVE  UNCHANGED vars
  BY <1>5 DEF RefuseJobSubmission
<1> QED
  BY <1>1, <1>2, <1>3, <1>4, <1>5
     DEF Next, Request, ServerNext, MonitorNext, MonitorStep, UnregisterStep, StopStep

\* The server accesses active_rules_ in no step of its own, so nothing races.
LEMMA NoRace ==
  ASSUME ServerRegisters
  PROVE  /\ ~Races("monitor") /\ Find("monitor", cur["monitor"]) = {HasRules(cur["monitor"])}
         /\ NotesRace("monitor") => ~raced'
BY DEF ServerRegisters, Races, MapAccesses, MapWrites, Find, NotesRace

\* The monitor going on with its job, or leaving it, disturbs no other.
LEMMA MonitorMoves ==
  ASSUME TypeOK, OneItemEach, ServerRegisters, pc["monitor"] \notin {"idle", "unblock"},
         UNCHANGED <<jobs, queue, cur, start_at>>, ~raced',
         NEW step, pc' = [pc EXCEPT !["monitor"] = step]
  PROVE  OneItemEach' /\ ServerRegisters'
<1>0. /\ pc \in [Threads -> Steps["monitor"] \cup Steps["server"]]
      /\ cur \in [Threads -> JobIds \cup {Null}]
  BY DEF TypeOK, MonitorTypeOK
<1>1. pc'["server"] = pc["server"]
  BY <1>0
<1>2. \A j : (InCharge(j)' => InCharge(j)) /\ (Registers(j)' <=> Registers(j))
  BY <1>1 DEF InCharge, Registers
<1>3. OneItemEach'
  BY <1>2 DEF OneItemEach, Due
<1>4. ServerRegisters'
  BY <1>1, <1>2 DEF ServerRegisters
<1> QED
  BY <1>3, <1>4

\* What the monitor knows after each step of StartJob and StopJob that changes
\* nothing in the schedule.
LEMMA MonitorLearns ==
  ASSUME TypeOK, OneItemEach, ServerRegisters, MonitorKnows,
         \/ HandleEnters \/ StartGetsStatus \/ StartGetsThroughput \/ StartGetsOsts
         \/ StartSetsRules \/ StartInsertsRules \/ StartGetsEnd
         \/ StopGetsStatus("monitor") \/ StopRemovesRules("monitor")
         \/ StopErasesRules("monitor")
  PROVE  OrderInv'
<1>0. /\ pc \in [Threads -> Steps["monitor"] \cup Steps["server"]]
      /\ cur \in [Threads -> JobIds \cup {Null}] /\ event \in JobEvent \cup {Null}
      /\ args \in [mbs : Mbs, osts : SUBSET Osts, tend : Time]
      /\ At("monitor", "idle") <=> event = Null
  BY DEF TypeOK, MonitorTypeOK
<1>1. /\ pc["monitor"] \notin {"idle", "unblock"} /\ UNCHANGED <<jobs, queue, cur, start_at>>
      /\ UNCHANGED <<event, now>>
      /\ ~raced' /\ \E step : pc' = [pc EXCEPT !["monitor"] = step]
  <2>1. CASE HandleEnters \/ StartGetsStatus \/ StopGetsStatus("monitor")
    BY <2>1 DEF HandleEnters, StartGetsStatus, StopGetsStatus, ServerRegisters
  <2>2. CASE StartGetsThroughput \/ StartGetsOsts \/ StartGetsEnd
    BY <2>2 DEF StartGetsThroughput, StartGetsOsts, StartGetsEnd, ServerRegisters
  <2>3. CASE StartSetsRules \/ StartInsertsRules
    BY <2>3, NoRace DEF StartSetsRules, StartInsertsRules
  <2>4. CASE StopRemovesRules("monitor") \/ StopErasesRules("monitor")
    BY <2>4, NoRace DEF StopRemovesRules, StopErasesRules
  <2> QED
    BY <2>1, <2>2, <2>3, <2>4
<1>2. OneItemEach' /\ ServerRegisters'
  BY <1>1, MonitorMoves
<1>3. event \in {"JOBSTART", "JOBSTOP"}
  BY <1>0, <1>1 DEF JobEvent
<1>4. MonitorKnows'
  <2> USE <1>0, <1>1, <1>3 DEF MonitorKnows, InCharge, StartSteps, QueueSteps, EndSteps, StopSteps
  <2>1. CASE HandleEnters
    BY <2>1 DEF HandleEnters
  <2>2. CASE StartGetsStatus
    BY <2>2 DEF StartGetsStatus
  <2>3. CASE StartGetsThroughput
    BY <2>3 DEF StartGetsThroughput
  <2>4. CASE StartGetsOsts
    BY <2>4 DEF StartGetsOsts
  <2>5. CASE StartGetsEnd
    BY <2>5 DEF StartGetsEnd
  <2>6. CASE StartSetsRules
    BY <2>6 DEF StartSetsRules, AfterSetRules, SetRulesProceeds
  <2>7. CASE StartInsertsRules
    BY <2>7 DEF StartInsertsRules
  <2>8. CASE StopGetsStatus("monitor")
    BY <2>8 DEF StopGetsStatus, AfterStop, Active
  <2>9. CASE StopRemovesRules("monitor")
    BY <2>9 DEF StopRemovesRules
  <2>10. CASE StopErasesRules("monitor")
    BY <2>10 DEF StopErasesRules
  <2> QED
    BY <2>1, <2>2, <2>3, <2>4, <2>5, <2>6, <2>7, <2>8, <2>9, <2>10
<1> QED
  BY <1>2, <1>4 DEF OrderInv

\* The queue's steps with what they do to the bag of an item that is there once.
LEMMA QueueOnce ==
  ASSUME NEW q \in Queue
  PROVE  /\ QPeek(q) # Null => /\ QPeek(q) \in QItems(q) /\ QItems(QPop(q)) \subseteq QItems(q)
                               /\ QBag(q)[QPeek(q)] = 1 => QPeek(q) \notin QItems(QPop(q))
                               /\ \A item \in QItems(QPop(q)) :
                                    QBag(q)[item] = 1 => QBag(QPop(q))[item] = 1
         /\ \A item \in WaitingItem : QPush(q, item) \in Queue =>
              /\ QItems(QPush(q, item)) = QItems(q) \cup {item}
              /\ \A other \in QItems(q) \ {item} : QBag(QPush(q, item))[other] = QBag(q)[other]
              /\ item \notin QItems(q) => QBag(QPush(q, item))[item] = 1
<1>1. QBag(q) \in [QItems(q) -> Nat \ {0}] /\ QPop(q) \in Queue
  BY QueueAssumption DEF Contract
<1>2. ASSUME QPeek(q) # Null
      PROVE  /\ QPeek(q) \in QItems(q) /\ QItems(QPop(q)) \subseteq QItems(q)
             /\ QBag(q)[QPeek(q)] = 1 => QPeek(q) \notin QItems(QPop(q))
             /\ \A item \in QItems(QPop(q)) : QBag(q)[item] = 1 => QBag(QPop(q))[item] = 1
  <2>1. QPeek(q) \in QItems(q) /\ QBag(QPop(q)) = BE!BagRemove(QBag(q), QPeek(q))
    BY <1>2, QueueAssumption DEF Contract
  <2>2. QBag(QPop(q)) \in [QItems(QPop(q)) -> Nat \ {0}]
    BY <1>1, QueueAssumption DEF Contract
  <2>3. \A item \in QItems(QPop(q)) : QBag(QPop(q))[item] <= QBag(q)[item]
    BY <1>1, <2>1, RemoveFromBag DEF QItems
  <2>4. \A item \in QItems(QPop(q)) : QBag(QPop(q))[item] \in Nat \ {0}
    BY <2>2
  <2>5. \A item \in QItems(QPop(q)) : QBag(q)[item] = 1 => QBag(QPop(q))[item] = 1
    BY <2>3, <2>4
  <2> QED
    BY <1>1, <2>1, <2>5, RemoveFromBag DEF QItems
<1>3. ASSUME NEW item \in WaitingItem, QPush(q, item) \in Queue
      PROVE  /\ QItems(QPush(q, item)) = QItems(q) \cup {item}
             /\ \A other \in QItems(q) \ {item} : QBag(QPush(q, item))[other] = QBag(q)[other]
             /\ item \notin QItems(q) => QBag(QPush(q, item))[item] = 1
  <2>1. QBag(QPush(q, item)) = BE!BagAdd(QBag(q), item)
    BY <1>3, QueueAssumption DEF Contract
  <2> QED
    BY <1>1, <2>1 DEF QItems, BE!BagAdd
<1> QED
  BY <1>2, <1>3

\* The requests, the queue and the clock.
LEMMA AcceptOrder ==
  ASSUME TypeOK, OrderInv, NEW id \in JobIds, NEW r \in Requests, ServeJobSubmission(id, r)
  PROVE  OrderInv'
<1> DEFINE job == [BuildJob(r) EXCEPT !.state = "SCHEDULED"]
<1>0. /\ pc \in [Threads -> Steps["monitor"] \cup Steps["server"]]
      /\ cur \in [Threads -> JobIds \cup {Null}]
      /\ jobs \in [JobIds -> Job \cup {Null}] /\ QItems(queue) \subseteq WaitingItem
  BY QueueItems DEF TypeOK, MonitorTypeOK, ScheduleTypeOK
<1>1. /\ jobs[id] = Null /\ jobs' = [jobs EXCEPT ![id] = job] /\ queue' = queue
      /\ pc' = [pc EXCEPT !["server"] = "register"] /\ cur' = [cur EXCEPT !["server"] = id]
      /\ start_at' = now /\ UNCHANGED <<now, event, args, raced>> /\ At("server", "idle")
  BY DEF ServeJobSubmission, ScheduleJob, AddJob
<1>2. job \in Job /\ job # Null /\ job.state = "SCHEDULED" /\ job.tstart = now
  <2>1. job \in Job
    BY BuildJobType DEF ServeJobSubmission, TypeOK, MonitorTypeOK
  <2> QED
    BY <2>1, NullAssumption DEF BuildJob
<1>3. \A j : InCharge(j)' <=> InCharge(j)
  BY <1>0, <1>1 DEF InCharge
<1>4. \A j \in JobIds : InCharge(j) => j # id
  BY <1>1 DEF OrderInv, MonitorKnows, InCharge
<1>5. \A item \in QItems(queue) : item.jobid \in JobIds /\ item.jobid # id
  BY <1>0, <1>1 DEF OrderInv, OneItemEach, WaitingItem
<1>6. OneItemEach'
  BY <1>0, <1>1, <1>3, <1>5 DEF OrderInv, OneItemEach, Due, Registers
<1>7. ServerRegisters'
  BY <1>0, <1>1, <1>2, <1>3, <1>4 DEF OrderInv, ServerRegisters
<1>8. MonitorKnows'
  <2>1. cur'["monitor"] = cur["monitor"] /\ pc'["monitor"] = pc["monitor"]
    BY <1>0, <1>1
  <2>2. ASSUME InCharge(cur["monitor"])
        PROVE  jobs'[cur["monitor"]] = jobs[cur["monitor"]]
    BY <1>0, <1>1, <2>2 DEF OrderInv, MonitorKnows, InCharge
  <2> QED
    BY <1>1, <1>3, <2>1, <2>2 DEF OrderInv, MonitorKnows
<1> QED
  BY <1>6, <1>7, <1>8 DEF OrderInv

\* RegisterJob queues the start of a job that nothing else waits for.
LEMMA RegisterOrder ==
  ASSUME TypeOK, OrderInv, RegisterJob
  PROVE  OrderInv'
<1> DEFINE j == cur["server"]
           new == StartItem(j, start_at)
<1>0. /\ pc \in [Threads -> Steps["monitor"] \cup Steps["server"]]
      /\ cur \in [Threads -> JobIds \cup {Null}] /\ queue \in Queue
      /\ QItems(queue) \subseteq WaitingItem /\ start_at \in Time /\ j \in JobIds
  BY QueueItems, HolderHasJob DEF TypeOK, MonitorTypeOK, RegisterJob
<1>1. /\ Registers(j) /\ ~InCharge(j) /\ new = Due(j) /\ new \in WaitingItem
      /\ jobs[j] # Null /\ jobs[j].state = "SCHEDULED" /\ new.jobid = j
  BY <1>0 DEF OrderInv, ServerRegisters, RegisterJob, Registers, Due, StartItem, WaitingItem,
              JobEvent
<1>2. /\ QItems(queue') = QItems(queue) \cup {new} /\ new \notin QItems(queue)
      /\ \A item \in QItems(queue') : item # new => QBag(queue')[item] = QBag(queue)[item]
      /\ QBag(queue')[new] = 1
  <2>1. new \notin QItems(queue)
    BY <1>1 DEF OrderInv, OneItemEach
  <2>2. queue' = QPush(queue, new) /\ queue' \in Queue
    BY DEF RegisterJob
  <2> QED
    BY <1>0, <1>1, <2>1, <2>2, QueueOnce
<1>3. /\ \A i : InCharge(i)' <=> InCharge(i)
      /\ \A i : ~Registers(i)'
      /\ UNCHANGED <<jobs, now, event, args, raced>> /\ pc'["server"] = "idle"
      /\ pc'["monitor"] = pc["monitor"] /\ cur'["monitor"] = cur["monitor"]
  BY <1>0 DEF RegisterJob, InCharge, Registers
<1>4. OneItemEach'
  BY <1>1, <1>2, <1>3 DEF OrderInv, OneItemEach, Due
<1> QED
  BY <1>3, <1>4 DEF OrderInv, ServerRegisters, MonitorKnows

\* PopReady takes the only item of its job, at its time.
LEMMA PopOrder ==
  ASSUME TypeOK, OrderInv, PopReady
  PROVE  OrderInv'
<1> DEFINE item == QPeek(queue)
           j == item.jobid
<1>0. /\ pc \in [Threads -> Steps["monitor"] \cup Steps["server"]]
      /\ cur \in [Threads -> JobIds \cup {Null}] /\ queue \in Queue
      /\ QItems(queue) \subseteq WaitingItem
  BY QueueItems DEF TypeOK, MonitorTypeOK
<1>1. item # Null /\ item.time_of_event < now /\ queue' = QPop(queue) /\ At("monitor", "idle")
  BY DEF PopReady, isThereAReadyJob
<1>2. /\ item \in QItems(queue) /\ item \in WaitingItem /\ QItems(queue') \subseteq QItems(queue)
      /\ item \notin QItems(queue')
      /\ \A other \in QItems(queue') : QBag(queue')[other] = 1
  BY <1>0, <1>1, QueueOnce DEF OrderInv, OneItemEach
<1>3. /\ jobs[j] # Null /\ jobs[j].state \in {"SCHEDULED", "ACTIVE"} /\ item = Due(j)
      /\ ~Registers(j)
  BY <1>2 DEF OrderInv, OneItemEach
<1>4. /\ cur' = [cur EXCEPT !["monitor"] = j] /\ event' = item.eventType
      /\ pc' = [pc EXCEPT !["monitor"] = "handle"]
      /\ UNCHANGED <<jobs, now, args, start_at, raced>>
  BY DEF PopReady
<1>5. /\ \A i : InCharge(i)' <=> i = j
      /\ \A i : Registers(i)' <=> Registers(i)
      /\ cur'["monitor"] = j /\ pc'["monitor"] = "handle"
      /\ cur'["server"] = cur["server"] /\ pc'["server"] = pc["server"]
  BY <1>0, <1>4 DEF InCharge, Registers
<1>6. \A other \in QItems(queue') : other.jobid # j
  BY <1>2, <1>3 DEF OrderInv, OneItemEach
<1>7. OneItemEach'
  BY <1>2, <1>4, <1>5, <1>6 DEF OrderInv, OneItemEach, Due
<1>8. ServerRegisters'
  BY <1>3, <1>4, <1>5 DEF OrderInv, ServerRegisters, Registers
<1>9. MonitorKnows'
  <2>1. /\ item.eventType = "JOBSTART" => jobs[j].state = "SCHEDULED" /\ jobs[j].tstart < now
        /\ item.eventType = "JOBSTOP" => jobs[j].state = "ACTIVE" /\ jobs[j].tend < now
    BY <1>1, <1>3 DEF Due, StartItem, StopItem
  <2> QED
    BY <1>3, <1>4, <1>5, <2>1 DEF MonitorKnows, StartSteps, QueueSteps, EndSteps
<1> QED
  BY <1>7, <1>8, <1>9 DEF OrderInv

\* StartJob queues the stop of the job that it has started.
LEMMA PushOrder ==
  ASSUME TypeOK, OrderInv, StartPushesStop
  PROVE  OrderInv'
<1> DEFINE j == cur["monitor"]
           new == StopItem(j, args.tend)
<1>0. /\ pc \in [Threads -> Steps["monitor"] \cup Steps["server"]]
      /\ cur \in [Threads -> JobIds \cup {Null}] /\ queue \in Queue
      /\ QItems(queue) \subseteq WaitingItem /\ args.tend \in Time /\ j \in JobIds
      /\ event \in JobEvent
  BY QueueItems, HolderHasJob DEF TypeOK, MonitorTypeOK, StartPushesStop
<1>1. /\ InCharge(j) /\ jobs[j] # Null /\ jobs[j].state = "ACTIVE" /\ new = Due(j)
      /\ new \in WaitingItem /\ new.jobid = j
  BY <1>0 DEF OrderInv, MonitorKnows, StartPushesStop, InCharge, Due, StopItem, WaitingItem,
              JobEvent, QueueSteps, EndSteps, StopSteps
<1>2. /\ QItems(queue') = QItems(queue) \cup {new} /\ new \notin QItems(queue)
      /\ \A item \in QItems(queue') : item # new => QBag(queue')[item] = QBag(queue)[item]
      /\ QBag(queue')[new] = 1
  <2>1. new \notin QItems(queue)
    BY <1>1 DEF OrderInv, OneItemEach
  <2>2. queue' = QPush(queue, new) /\ queue' \in Queue
    BY DEF StartPushesStop
  <2> QED
    BY <1>0, <1>1, <2>1, <2>2, QueueOnce
<1>3. /\ \A i : ~InCharge(i)'
      /\ \A i : Registers(i)' <=> Registers(i)
      /\ UNCHANGED <<jobs, start_at, raced>> /\ pc'["server"] = pc["server"]
      /\ cur' = cur
  BY <1>0 DEF StartPushesStop, InCharge, Registers
<1>4. ~Registers(j)
  BY <1>1 DEF OrderInv, ServerRegisters, Registers
<1>5. OneItemEach'
  BY <1>1, <1>2, <1>3, <1>4 DEF OrderInv, OneItemEach, Due
<1> QED
  BY <1>3, <1>5 DEF OrderInv, ServerRegisters, MonitorKnows

\* A change of the monitor's job disturbs no other job and no item.
LEMMA MonitorChangesJob ==
  ASSUME TypeOK, OneItemEach, ServerRegisters, InCharge(cur["monitor"]),
         \A j \in JobIds \ {cur["monitor"]} : jobs'[j] = jobs[j],
         UNCHANGED <<queue, cur, start_at, raced>>,
         NEW step, pc' = [pc EXCEPT !["monitor"] = step]
  PROVE  OneItemEach' /\ ServerRegisters'
<1>0. /\ pc \in [Threads -> Steps["monitor"] \cup Steps["server"]]
      /\ cur \in [Threads -> JobIds \cup {Null}]
      /\ QItems(queue) \subseteq WaitingItem
      /\ At("server", "register") => cur["server"] \in JobIds
  BY QueueItems, HolderHasJob DEF TypeOK, MonitorTypeOK
<1>1. pc'["server"] = pc["server"]
  BY <1>0
<1>2. \A j : (InCharge(j)' => InCharge(j)) /\ (Registers(j)' <=> Registers(j))
  BY <1>1 DEF InCharge, Registers
<1>3. \A item \in QItems(queue) : jobs'[item.jobid] = jobs[item.jobid]
  BY <1>0 DEF OneItemEach, WaitingItem
<1>4. OneItemEach'
  BY <1>2, <1>3 DEF OneItemEach, Due
<1>5. At("server", "register") => jobs'[cur["server"]] = jobs[cur["server"]]
  BY <1>0 DEF ServerRegisters
<1>6. ServerRegisters'
  BY <1>1, <1>2, <1>5 DEF ServerRegisters
<1> QED
  BY <1>4, <1>6

\* StartJob's and StopJob's UpdateJob and Handle's RemoveJob.
LEMMA ChangeOrder ==
  ASSUME TypeOK, OrderInv, StartUpdatesJob \/ StopUpdatesJob("monitor") \/ HandleRemovesJob
  PROVE  OrderInv'
<1> DEFINE m == cur["monitor"]
<1>0. /\ pc \in [Threads -> Steps["monitor"] \cup Steps["server"]]
      /\ cur \in [Threads -> JobIds \cup {Null}]
      /\ jobs \in [JobIds -> Job \cup {Null}] /\ m \in JobIds /\ InCharge(m)
      /\ event \in JobEvent
  BY HolderHasJob DEF TypeOK, MonitorTypeOK, ScheduleTypeOK, StartUpdatesJob, StopUpdatesJob,
                      HandleRemovesJob, InCharge
<1>1. jobs[m] # Null
  BY <1>0 DEF OrderInv, MonitorKnows
<1>2. UNCHANGED <<queue, cur, start_at, raced, event, now, args>>
  BY DEF StartUpdatesJob, StopUpdatesJob, HandleRemovesJob
<1>3. CASE StartUpdatesJob
  <2>1. /\ \A j \in JobIds \ {m} : jobs'[j] = jobs[j]
        /\ jobs'[m] = [jobs[m] EXCEPT !.state = "ACTIVE"]
        /\ jobs'[m] # Null /\ jobs'[m].state = "ACTIVE"
    BY <1>0, <1>1, <1>3, UpdateJobEffect DEF StartUpdatesJob, JobState
  <2>2. pc' = [pc EXCEPT !["monitor"] = "start_end"] /\ At("monitor", "start_update")
    BY <1>1, <1>3 DEF StartUpdatesJob
  <2>3. OneItemEach' /\ ServerRegisters'
    BY <1>0, <1>2, <2>1, <2>2, MonitorChangesJob DEF OrderInv
  <2>4. event = "JOBSTART"
    BY <1>0, <2>2 DEF OrderInv, MonitorKnows, JobEvent, EndSteps, StopSteps
  <2>5. MonitorKnows'
    BY <1>0, <1>2, <2>1, <2>2, <2>4 DEF MonitorKnows, QueueSteps, StartSteps
  <2> QED
    BY <2>3, <2>5 DEF OrderInv
<1>4. CASE StopUpdatesJob("monitor")
  <2>1. jobs[m] \in Job
    BY <1>0, <1>1
  <2>2. /\ \A j \in JobIds \ {m} : jobs'[j] = jobs[j]
        /\ jobs'[m] = [jobs[m] EXCEPT !.state = "DONE"]
        /\ jobs'[m] # Null /\ jobs'[m].state = "DONE"
    BY <1>0, <1>1, <1>4, UpdateJobEffect DEF StopUpdatesJob, JobState
  <2>3. jobs'[m].tend = jobs[m].tend
    BY <2>1, <2>2 DEF Job
  <2>4. pc' = [pc EXCEPT !["monitor"] = "remove_job"] /\ At("monitor", "stop_update")
    BY <1>4 DEF StopUpdatesJob, AfterStop
  <2>5. OneItemEach' /\ ServerRegisters'
    BY <1>0, <1>2, <2>2, <2>4, MonitorChangesJob DEF OrderInv
  <2>6. event = "JOBSTOP" /\ jobs[m].tend < now
    BY <1>0, <2>4 DEF OrderInv, MonitorKnows, JobEvent, StartSteps, QueueSteps
  <2>7. MonitorKnows'
    BY <1>0, <1>2, <2>2, <2>3, <2>4, <2>6 DEF MonitorKnows, EndSteps, StopSteps
  <2> QED
    BY <2>5, <2>7 DEF OrderInv
<1>5. CASE HandleRemovesJob
  <2>1. /\ \A j \in JobIds \ {m} : jobs'[j] = jobs[j]
        /\ pc' = [pc EXCEPT !["monitor"] = "unblock"]
    BY <1>0, <1>5 DEF HandleRemovesJob, RemoveJob
  <2>2. OneItemEach' /\ ServerRegisters'
    BY <1>0, <1>2, <2>1, MonitorChangesJob DEF OrderInv
  <2>3. MonitorKnows'
    BY <1>0, <2>1 DEF MonitorKnows, InCharge
  <2> QED
    BY <2>2, <2>3 DEF OrderInv
<1> QED
  BY <1>3, <1>4, <1>5

\* The clock goes on, and the monitor leaves a job.
LEMMA OtherOrder ==
  ASSUME TypeOK, OrderInv, Tick \/ UNCHANGED vars \/ Unblock("monitor")
  PROVE  OrderInv'
<1>0. /\ pc \in [Threads -> Steps["monitor"] \cup Steps["server"]]
      /\ cur \in [Threads -> JobIds \cup {Null}] /\ now \in Nat
      /\ jobs \in [JobIds -> Job \cup {Null}]
      /\ ~At("monitor", "idle") => cur["monitor"] \in JobIds
  BY HolderHasJob, TimeAssumption DEF TypeOK, MonitorTypeOK, ScheduleTypeOK
<1>1. CASE UNCHANGED vars
  BY <1>1 DEF vars, OrderInv, OneItemEach, Due, ServerRegisters, MonitorKnows, InCharge,
              Registers
<1>2. CASE Tick
  <2>1. /\ now' = now + 1 /\ UNCHANGED <<queue, pc, cur, event, args, start_at, jobs, raced>>
    BY <1>2 DEF Tick
  <2>2. OneItemEach' /\ ServerRegisters'
    BY <2>1 DEF OrderInv, OneItemEach, Due, ServerRegisters, InCharge, Registers
  <2>3. ASSUME NEW job \in Job
        PROVE  /\ job.tstart < now => job.tstart < now'
               /\ job.tend < now => job.tend < now'
    BY <1>0, <2>1, TimeAssumption DEF Job, Time, Forever
  <2>4. InCharge(cur["monitor"]) /\ jobs[cur["monitor"]] # Null => jobs[cur["monitor"]] \in Job
    BY <1>0 DEF InCharge
  <2>5. MonitorKnows'
    BY <2>1, <2>3, <2>4 DEF OrderInv, MonitorKnows, InCharge
  <2> QED
    BY <2>2, <2>5 DEF OrderInv
<1>3. CASE Unblock("monitor")
  <2>1. /\ \A j : ~InCharge(j) /\ ~InCharge(j)' /\ (Registers(j)' <=> Registers(j))
        /\ pc'["server"] = pc["server"] /\ cur'["server"] = cur["server"]
        /\ UNCHANGED <<queue, jobs, start_at, raced>>
    BY <1>0, <1>3 DEF Unblock, InCharge, Registers
  <2> QED
    BY <2>1 DEF OrderInv, OneItemEach, Due, ServerRegisters, MonitorKnows
<1> QED
  BY <1>1, <1>2, <1>3

\* The order is kept by every step.
LEMMA OrderStep ==
  ASSUME MaxRemovals = 0, TypeOK, OrderInv, [Next]_vars
  PROVE  OrderInv'
BY QuietSteps, AcceptOrder, RegisterOrder, PopOrder, MonitorLearns, PushOrder, ChangeOrder,
   OtherOrder DEF OrderInv

\* As long as nobody removes a reservation, each waits for one thing at a time.
LEMMA OrderHolds ==
  ASSUME MaxRemovals = 0
  PROVE  Spec => []OrderInv
<1>1. Init => OrderInv
  BY QueueAssumption DEF Contract, Init, MonitorInit, ScheduleInit, OrderInv, OneItemEach,
     ServerRegisters, MonitorKnows, InCharge
<1>2. TypeOK /\ OrderInv /\ [Next]_vars => OrderInv'
  BY OrderStep
<1> QED
  BY <1>1, <1>2, TypeCorrect, PTL DEF Spec

\* As long as nobody removes a reservation, the monitor takes none out of the
\* schedule before its end, whichever commands fail and whichever ids are given
\* to later reservations again.
THEOREM StopsInTime ==
  ASSUME MaxRemovals = 0
  PROVE  Spec => StopsNotBeforeEnd
<1>1. TypeOK /\ OrderInv /\ HandleRemovesJob /\ jobs[cur["monitor"]] # Null
        => jobs[cur["monitor"]].tend < now
  BY DEF OrderInv, MonitorKnows, InCharge, HandleRemovesJob, TypeOK, MonitorTypeOK, JobEvent,
         StartSteps, QueueSteps
<1>2. TypeOK /\ OrderInv =>
        [HandleRemovesJob /\ jobs[cur["monitor"]] # Null
           => jobs[cur["monitor"]].tend < now]_vars
  BY <1>1
<1> QED
  BY <1>2, OrderHolds, TypeCorrect, PTL DEF StopsNotBeforeEnd

-----------------------------------------------------------------------------
(* The rules follow the schedule when, besides, no command fails.          *)

\* SetRules without failures: all rules of the job and nothing else.
LEMMA SetsAllRules ==
  ASSUME Faults = {}, RulesTypeOK, NEW id \in JobIds, NEW osts \in SUBSET Osts,
         NEW mbs \in Mbs, NEW ok \in BOOLEAN, SetRulesAsync(id, osts, mbs, ok),
         \A ip \in Ips : oss_rules[ip][id] = Null
  PROVE  /\ ok = TRUE
         /\ \A ip \in Ips :
              /\ \A j \in JobIds \ {id} : oss_rules'[ip][j] = oss_rules[ip][j]
              /\ oss_rules'[ip][id] = IF ip \in IpsOf(osts) THEN Rate(osts, mbs, ip) ELSE Null
<1>1. \A ips, kinds : Hit(ips, kinds) = {{}}
  BY DEF Hit
<1>2. /\ ok = TRUE
      /\ oss_rules' = StopRule(StartRule(oss_rules, id, osts, mbs, {} \cup {}), id, {}, {})
  BY <1>1 DEF SetRulesAsync
<1>3. StartRule(oss_rules, id, osts, mbs, {} \cup {}) \in [Ips -> [JobIds -> Mbs \cup {Null}]]
  BY StartRuleType DEF RulesTypeOK
<1>4. \A ip \in Ips : oss_rules'[ip] = StartRule(oss_rules, id, osts, mbs, {} \cup {})[ip]
  BY <1>2 DEF StopRule
<1>5. \A ip \in Ips : oss_rules[ip] \in [JobIds -> Mbs \cup {Null}]
  BY DEF RulesTypeOK
<1>6. ASSUME NEW ip \in Ips
      PROVE  oss_rules'[ip] = IF ip \in IpsOf(osts)
                              THEN [oss_rules[ip] EXCEPT ![id] = Rate(osts, mbs, ip)]
                              ELSE oss_rules[ip]
  BY <1>4 DEF StartRule
<1> QED
  BY <1>2, <1>5, <1>6

\* RemoveRules without failures: no rule of the job is left.
LEMMA RemovesAllRules ==
  ASSUME Faults = {}, RulesTypeOK, NEW id \in JobIds, RemoveRulesAsync(id)
  PROVE  \A ip \in Ips :
            /\ \A j \in JobIds \ {id} : oss_rules'[ip][j] = oss_rules[ip][j]
            /\ ip \in active_rules[id] => oss_rules'[ip][id] = Null
            /\ ip \notin active_rules[id] => oss_rules'[ip] = oss_rules[ip]
<1>1. oss_rules' = StopRule(oss_rules, id, active_rules[id], {})
  BY DEF RemoveRulesAsync, Hit
<1>2. \A ip \in Ips : oss_rules[ip] \in [JobIds -> Mbs \cup {Null}]
  BY DEF RulesTypeOK
<1> QED
  BY <1>1, <1>2 DEF StopRule

RuleSteps == {"insert_rule", "start_update", "erase_rule", "stop_update"}

\* A step that leaves the rules, and for which each job is where it was.
LEMMA RulesStay ==
  ASSUME RulesFollow, UNCHANGED <<active_rules, oss_rules>>,
         \A j \in JobIds :
            /\ Active(j)' <=> Active(j)
            /\ \A steps \in SUBSET RuleSteps : MonitorAt(j, steps)' <=> MonitorAt(j, steps)
            /\ jobs'[j] # Null => jobs'[j].state \in {"SCHEDULED", "ACTIVE", "DONE"}
            /\ Placed(j) => jobs'[j] = jobs[j]
            /\ Tracked(j) => jobs'[j] = jobs[j]
            /\ Active(j) => jobs'[j] = jobs[j]
  PROVE  RulesFollow'
<1>1. ASSUME NEW j \in JobIds
      PROVE  (Placed(j)' <=> Placed(j)) /\ (Tracked(j)' <=> Tracked(j))
  BY DEF Placed, Tracked, RuleSteps
<1>2. ASSUME NEW j \in JobIds, NEW ip \in Ips, Placed(j)
      PROVE  (RulesFor(TermsOf(jobs[j]))[ip])' = RulesFor(TermsOf(jobs[j]))[ip]
  BY <1>2 DEF RulesFor, TermsOf
<1>3. ASSUME NEW j \in JobIds, Tracked(j)
      PROVE  IpsOf(jobs[j].osts)' = IpsOf(jobs[j].osts)
  BY <1>3 DEF IpsOf
<1> QED
  BY <1>1, <1>2, <1>3 DEF RulesFollow, Follows

\* The steps that change neither the rules nor a job that is active.
LEMMA MostStepsFollow ==
  ASSUME TypeOK, OrderInv, RulesFollow,
         \/ \E id \in JobIds, r \in Requests : ServeJobSubmission(id, r)
         \/ RegisterJob \/ Tick \/ UNCHANGED vars
         \/ PopReady \/ HandleEnters \/ StartGetsStatus \/ StartGetsThroughput
         \/ StartGetsOsts \/ StartGetsEnd \/ StartPushesStop \/ StopGetsStatus("monitor")
         \/ Unblock("monitor")
  PROVE  RulesFollow'
<1> DEFINE Stays == /\ UNCHANGED <<active_rules, oss_rules>>
                    /\ \A j \in JobIds, steps \in SUBSET RuleSteps :
                         MonitorAt(j, steps)' <=> MonitorAt(j, steps)
<1>0. /\ pc \in [Threads -> Steps["monitor"] \cup Steps["server"]]
      /\ cur \in [Threads -> JobIds \cup {Null}]
      /\ jobs \in [JobIds -> Job \cup {Null}]
  BY DEF TypeOK, MonitorTypeOK, ScheduleTypeOK
<1>1. ASSUME UNCHANGED jobs, Stays
      PROVE  RulesFollow'
  BY <1>1, RulesStay DEF Active, RulesFollow, Follows
<1>2. ASSUME NEW id \in JobIds, NEW r \in Requests, ServeJobSubmission(id, r)
      PROVE  RulesFollow'
  <2> DEFINE job == [BuildJob(r) EXCEPT !.state = "SCHEDULED"]
  <2>1. /\ jobs[id] = Null /\ jobs' = [jobs EXCEPT ![id] = job] /\ job.state = "SCHEDULED"
    BY <1>2 DEF ServeJobSubmission, ScheduleJob, AddJob, BuildJob
  <2>2. Stays
    BY <1>0, <1>2 DEF ServeJobSubmission, MonitorAt
  <2>3. ~InCharge(id)
    BY <2>1 DEF OrderInv, MonitorKnows, InCharge
  <2>4. ~Active(id) /\ ~Active(id)' /\ ~Placed(id) /\ ~Tracked(id)
    BY <1>0, <2>1, <2>3 DEF Active, Placed, Tracked, MonitorAt, InCharge
  <2>5. \A j \in JobIds \ {id} : jobs'[j] = jobs[j]
    BY <1>0, <2>1
  <2>6. jobs'[id].state = "SCHEDULED"
    BY <1>0, <2>1
  <2>7. \A j \in JobIds :
            /\ Active(j)' <=> Active(j)
            /\ \A steps \in SUBSET RuleSteps : MonitorAt(j, steps)' <=> MonitorAt(j, steps)
            /\ jobs'[j] # Null => jobs'[j].state \in {"SCHEDULED", "ACTIVE", "DONE"}
            /\ Placed(j) => jobs'[j] = jobs[j]
            /\ Tracked(j) => jobs'[j] = jobs[j]
            /\ Active(j) => jobs'[j] = jobs[j]
    BY <2>2, <2>4, <2>5, <2>6 DEF RulesFollow, Follows, Active
  <2> QED
    BY <2>2, <2>7, RulesStay
<1>3. RegisterJob \/ Tick \/ UNCHANGED vars => UNCHANGED jobs /\ Stays
  BY <1>0 DEF RegisterJob, Tick, vars, MonitorAt
<1>4. PopReady \/ HandleEnters \/ StartGetsStatus \/ StartPushesStop => UNCHANGED jobs /\ Stays
  BY <1>0 DEF PopReady, HandleEnters, StartGetsStatus, StartPushesStop, MonitorAt, RuleSteps
<1>5. StartGetsThroughput \/ StartGetsOsts \/ StartGetsEnd => UNCHANGED jobs /\ Stays
  BY <1>0 DEF StartGetsThroughput, StartGetsOsts, StartGetsEnd, MonitorAt, RuleSteps
<1>6. StopGetsStatus("monitor") \/ Unblock("monitor") => UNCHANGED jobs /\ Stays
  BY <1>0 DEF StopGetsStatus, AfterStop, Unblock, MonitorAt, RuleSteps
<1> QED
  BY <1>1, <1>2, <1>3, <1>4, <1>5, <1>6

\* The jobs that the monitor does not work on are left alone by its steps.
LEMMA OthersFollow ==
  ASSUME TypeOK, RulesFollow, cur' = cur, NEW j \in JobIds, j # cur["monitor"],
         jobs'[j] = jobs[j], active_rules'[j] = active_rules[j],
         \A ip \in Ips : oss_rules'[ip][j] = oss_rules[ip][j]
  PROVE  Follows(j)'
<1>1. (Active(j)' <=> Active(j)) /\ (Placed(j)' <=> Placed(j)) /\ (Tracked(j)' <=> Tracked(j))
  BY DEF Active, Placed, Tracked, MonitorAt
<1>2. \A ip \in Ips : (RulesFor(TermsOf(jobs[j]))[ip])' = RulesFor(TermsOf(jobs[j]))[ip]
  BY DEF RulesFor, TermsOf
<1> QED
  BY <1>1, <1>2 DEF RulesFollow, Follows, IpsOf

\* SetNrsRules finds no rules of the job, sets them all and makes a note of it.
LEMMA StartFollows ==
  ASSUME Faults = {}, TypeOK, OrderInv, RulesFollow,
         StartSetsRules \/ StartInsertsRules \/ StartUpdatesJob
  PROVE  RulesFollow'
<1>m. PICK m \in JobIds : m = cur["monitor"]
  BY HolderHasJob DEF StartSetsRules, StartInsertsRules, StartUpdatesJob
<1> USE <1>m
<1>0. /\ pc \in [Threads -> Steps["monitor"] \cup Steps["server"]]
      /\ cur \in [Threads -> JobIds \cup {Null}]
      /\ jobs \in [JobIds -> Job \cup {Null}] /\ active_rules \in [JobIds -> SUBSET Ips]
      /\ oss_rules \in [Ips -> [JobIds -> Mbs \cup {Null}]]
      /\ args.osts \in SUBSET Osts /\ args.mbs \in Mbs /\ event \in JobEvent
  BY DEF TypeOK, MonitorTypeOK, ScheduleTypeOK, RulesTypeOK, StartSetsRules,
         StartInsertsRules, StartUpdatesJob
<1>1. cur' = cur
  BY DEF StartSetsRules, StartInsertsRules, StartUpdatesJob
<1>2. /\ jobs[m] # Null /\ jobs[m].state = "SCHEDULED" /\ ~Active(m) /\ Follows(m)
      /\ args.mbs = jobs[m].mbs /\ args.osts = jobs[m].osts /\ jobs[m] \in Job
      /\ ~At("monitor", "set_rules") => args.osts # {}
  BY <1>0 DEF OrderInv, MonitorKnows, InCharge, StartSetsRules, StartInsertsRules,
              StartUpdatesJob, JobEvent, StartSteps, EndSteps, StopSteps, Active, RulesFollow
<1>3. CASE StartSetsRules
  <2>1. /\ UNCHANGED <<jobs, active_rules>> /\ pc["monitor"] = "set_rules"
        /\ ~Placed(m) /\ ~Tracked(m) /\ \A ip \in Ips : oss_rules[ip][m] = Null
    BY <1>2, <1>3 DEF StartSetsRules, Placed, Tracked, MonitorAt, Follows
  <2>2. \A j \in JobIds \ {m} : jobs'[j] = jobs[j] /\ active_rules'[j] = active_rules[j]
    BY <2>1
  <2>3. Find("monitor", m) = {HasRules(m)}
    BY NoRace DEF OrderInv
  <2>4. CASE UNCHANGED oss_rules /\ pc' = [pc EXCEPT !["monitor"] = "unblock"]
    <3>1. ~Placed(m)' /\ ~Tracked(m)' /\ ~Active(m)'
      BY <1>0, <1>1, <1>2, <2>1, <2>4 DEF Placed, Tracked, MonitorAt, Active
    <3>2. Follows(m)'
      BY <1>2, <2>1, <2>4, <3>1 DEF Follows
    <3>3. \A j \in JobIds \ {m} : Follows(j)'
      BY <1>1, <2>2, <2>4, OthersFollow
    <3> QED
      BY <3>2, <3>3 DEF RulesFollow
  <2>5. ASSUME NEW ok \in BOOLEAN, SetRulesAsync(m, args.osts, args.mbs, ok), args.osts # {},
               pc' = [pc EXCEPT !["monitor"] = AfterSetRules(ok)]
        PROVE  RulesFollow'
    <3>1. /\ ok = TRUE
          /\ \A ip \in Ips :
               /\ \A j \in JobIds \ {m} : oss_rules'[ip][j] = oss_rules[ip][j]
               /\ oss_rules'[ip][m] = IF ip \in IpsOf(args.osts)
                                      THEN Rate(args.osts, args.mbs, ip) ELSE Null
      <4>1. RulesTypeOK /\ args.osts \in SUBSET Osts /\ args.mbs \in Mbs
        BY <1>0 DEF TypeOK
      <4>2. \A ip \in Ips : oss_rules[ip][m] = Null
        BY <2>1
      <4> HIDE <1>m
      <4> QED
        BY <4>1, <4>2, <2>5, SetsAllRules, Zenon
    <3>2. pc'["monitor"] = "insert_rule"
      BY <1>0, <2>5, <3>1 DEF AfterSetRules
    <3>3. Placed(m)' /\ ~Tracked(m)' /\ ~Active(m)'
      BY <1>1, <1>2, <2>1, <3>2 DEF Placed, Tracked, MonitorAt, Active
    <3>4. \A ip \in Ips : oss_rules'[ip][m] = RulesFor(TermsOf(jobs[m]))[ip]
      BY <1>2, <3>1 DEF RulesFor, TermsOf
    <3>5. Follows(m)'
      BY <1>1, <1>2, <2>1, <3>3, <3>4 DEF Follows
    <3>6. \A j \in JobIds \ {m} : Follows(j)'
      BY <1>1, <2>2, <3>1, OthersFollow
    <3> QED
      BY <3>5, <3>6 DEF RulesFollow
  <2> QED
    BY <1>3, <2>4, <2>5 DEF StartSetsRules, SetRulesProceeds, AfterSetRules
<1>4. CASE StartInsertsRules
  <2>1. /\ UNCHANGED <<jobs, oss_rules>> /\ pc["monitor"] = "insert_rule"
        /\ pc' = [pc EXCEPT !["monitor"] = "start_update"]
        /\ active_rules' = [active_rules EXCEPT ![m] = IpsOf(args.osts)]
    BY <1>4, NoRace DEF StartInsertsRules, InsertRules, OrderInv
  <2>2. Placed(m) /\ Placed(m)' /\ Tracked(m)' /\ ~Active(m)'
    BY <1>0, <1>1, <1>2, <2>1 DEF Placed, Tracked, MonitorAt, Active
  <2>3. Follows(m)'
    BY <1>0, <1>1, <1>2, <2>1, <2>2 DEF Follows, RulesFor, TermsOf
  <2>4. \A j \in JobIds \ {m} : Follows(j)'
    BY <1>0, <1>1, <2>1, OthersFollow
  <2> QED
    BY <2>3, <2>4 DEF RulesFollow
<1>5. CASE StartUpdatesJob
  <2>1. /\ \A j \in JobIds \ {m} : jobs'[j] = jobs[j]
        /\ jobs'[m] = [jobs[m] EXCEPT !.state = "ACTIVE"]
        /\ jobs'[m] # Null /\ jobs'[m].state = "ACTIVE"
    BY <1>0, <1>2, <1>5, UpdateJobEffect DEF StartUpdatesJob, JobState
  <2>2. /\ UNCHANGED <<active_rules, oss_rules>> /\ pc["monitor"] = "start_update"
        /\ pc' = [pc EXCEPT !["monitor"] = "start_end"]
    BY <1>2, <1>5 DEF StartUpdatesJob
  <2>3. /\ jobs'[m].osts = jobs[m].osts /\ jobs'[m].mbs = jobs[m].mbs
    BY <1>2, <2>1 DEF Job
  <2>4. Placed(m) /\ Tracked(m) /\ Placed(m)' /\ Tracked(m)' /\ Active(m)'
    BY <1>0, <1>1, <1>2, <2>1, <2>2 DEF Placed, Tracked, MonitorAt, Active
  <2>5. Follows(m)'
    BY <1>1, <1>2, <2>1, <2>2, <2>3, <2>4 DEF Follows, RulesFor, TermsOf, IpsOf
  <2>6. \A j \in JobIds \ {m} : Follows(j)'
    BY <1>1, <2>1, <2>2, OthersFollow
  <2> QED
    BY <2>5, <2>6 DEF RulesFollow
<1> QED
  BY <1>3, <1>4, <1>5

\* StopJob finds the rules of the job, and removes them all.
LEMMA StopFollows ==
  ASSUME Faults = {}, TypeOK, OrderInv, RulesFollow,
         \/ StopRemovesRules("monitor") \/ StopErasesRules("monitor")
         \/ StopUpdatesJob("monitor") \/ HandleRemovesJob
  PROVE  RulesFollow'
<1>m. PICK m \in JobIds : m = cur["monitor"]
  BY HolderHasJob DEF StopRemovesRules, StopErasesRules, StopUpdatesJob, HandleRemovesJob
<1> USE <1>m
<1>0. /\ pc \in [Threads -> Steps["monitor"] \cup Steps["server"]]
      /\ cur \in [Threads -> JobIds \cup {Null}]
      /\ jobs \in [JobIds -> Job \cup {Null}] /\ active_rules \in [JobIds -> SUBSET Ips]
      /\ oss_rules \in [Ips -> [JobIds -> Mbs \cup {Null}]] /\ event \in JobEvent
  BY DEF TypeOK, MonitorTypeOK, ScheduleTypeOK, RulesTypeOK, StopRemovesRules,
         StopErasesRules, StopUpdatesJob, HandleRemovesJob
<1>1. cur' = cur
  BY DEF StopRemovesRules, StopErasesRules, StopUpdatesJob, HandleRemovesJob
<1>2. /\ jobs[m] # Null /\ Follows(m) /\ jobs[m] \in Job
      /\ ~At("monitor", "remove_job") => Active(m)
      /\ At("monitor", "remove_job") => ~Active(m)
  BY <1>0 DEF OrderInv, MonitorKnows, InCharge, StopRemovesRules, StopErasesRules,
              StopUpdatesJob, HandleRemovesJob, JobEvent, StartSteps, QueueSteps, EndSteps,
              StopSteps, Active, RulesFollow
<1>3. CASE StopRemovesRules("monitor")
  <2>1. /\ UNCHANGED <<jobs, active_rules>> /\ pc["monitor"] = "remove_rules" /\ Active(m)
        /\ Placed(m) /\ Tracked(m) /\ active_rules[m] = IpsOf(jobs[m].osts)
        /\ \A ip \in Ips : oss_rules[ip][m] = RulesFor(TermsOf(jobs[m]))[ip]
    BY <1>2, <1>3 DEF StopRemovesRules, Placed, Tracked, MonitorAt, Follows
  <2>2. HasRules(cur["monitor"]) = TRUE
    BY <1>2, <2>1 DEF Follows, HasRules, IpsOf
  <2>3. RemoveRulesAsync(m) /\ pc' = [pc EXCEPT !["monitor"] = "erase_rule"]
    <3>1. Find("monitor", cur["monitor"]) = {TRUE}
      BY <2>2, NoRace DEF OrderInv
    <3> QED
      BY <1>3, <3>1 DEF StopRemovesRules
  <2>4. \A ip \in Ips :
            /\ \A j \in JobIds \ {m} : oss_rules'[ip][j] = oss_rules[ip][j]
            /\ ip \in active_rules[m] => oss_rules'[ip][m] = Null
            /\ ip \notin active_rules[m] => oss_rules'[ip] = oss_rules[ip]
    BY <1>0, <2>3, RemovesAllRules DEF TypeOK
  <2>5. \A ip \in Ips : oss_rules'[ip][m] = Null
    BY <2>1, <2>4 DEF RulesFor, TermsOf
  <2>6. ~Placed(m)' /\ Tracked(m)' /\ Active(m)'
    BY <1>0, <1>1, <1>2, <2>1, <2>3 DEF Placed, Tracked, MonitorAt, Active
  <2>7. Follows(m)'
    BY <1>1, <1>2, <2>1, <2>5, <2>6 DEF Follows, IpsOf
  <2>8. \A j \in JobIds \ {m} : Follows(j)'
    BY <1>1, <2>1, <2>4, OthersFollow
  <2> QED
    BY <2>7, <2>8 DEF RulesFollow
<1>4. CASE StopErasesRules("monitor")
  <2>1. /\ UNCHANGED <<jobs, oss_rules>> /\ pc["monitor"] = "erase_rule"
        /\ pc' = [pc EXCEPT !["monitor"] = "stop_update"]
        /\ active_rules' = [active_rules EXCEPT ![m] = {}]
    BY <1>4, NoRace DEF StopErasesRules, EraseRules, OrderInv
  <2>2. ~Placed(m) /\ ~Placed(m)' /\ ~Tracked(m)' /\ Active(m)'
    BY <1>0, <1>1, <1>2, <2>1 DEF Placed, Tracked, MonitorAt, Active
  <2>3. Follows(m)'
    BY <1>0, <1>1, <1>2, <2>1, <2>2 DEF Follows
  <2>4. \A j \in JobIds \ {m} : Follows(j)'
    BY <1>0, <1>1, <2>1, OthersFollow
  <2> QED
    BY <2>3, <2>4 DEF RulesFollow
<1>5. CASE StopUpdatesJob("monitor")
  <2>1. /\ \A j \in JobIds \ {m} : jobs'[j] = jobs[j]
        /\ jobs'[m] # Null /\ jobs'[m].state = "DONE"
    BY <1>0, <1>2, <1>5, UpdateJobEffect DEF StopUpdatesJob, JobState
  <2>2. /\ UNCHANGED <<active_rules, oss_rules>> /\ pc["monitor"] = "stop_update"
        /\ pc' = [pc EXCEPT !["monitor"] = "remove_job"]
    BY <1>5 DEF StopUpdatesJob, AfterStop
  <2>3. ~Placed(m) /\ ~Tracked(m) /\ ~Placed(m)' /\ ~Tracked(m)' /\ ~Active(m)'
    BY <1>0, <1>1, <2>1, <2>2 DEF Placed, Tracked, MonitorAt, Active
  <2>4. Follows(m)'
    BY <1>1, <1>2, <2>1, <2>2, <2>3 DEF Follows
  <2>5. \A j \in JobIds \ {m} : Follows(j)'
    BY <1>1, <2>1, <2>2, OthersFollow
  <2> QED
    BY <2>4, <2>5 DEF RulesFollow
<1>6. CASE HandleRemovesJob
  <2>1. /\ jobs' = [jobs EXCEPT ![m] = Null] /\ UNCHANGED <<active_rules, oss_rules>>
        /\ pc["monitor"] = "remove_job" /\ pc' = [pc EXCEPT !["monitor"] = "unblock"]
    BY <1>6 DEF HandleRemovesJob, RemoveJob
  <2>2. ~Placed(m) /\ ~Tracked(m) /\ ~Placed(m)' /\ ~Tracked(m)' /\ ~Active(m)'
    BY <1>0, <1>1, <1>2, <2>1 DEF Placed, Tracked, MonitorAt, Active
  <2>3. Follows(m)'
    BY <1>0, <1>1, <1>2, <2>1, <2>2 DEF Follows
  <2>4. \A j \in JobIds \ {m} : Follows(j)'
    BY <1>0, <1>1, <2>1, OthersFollow
  <2> QED
    BY <2>3, <2>4 DEF RulesFollow
<1> QED
  BY <1>3, <1>4, <1>5, <1>6

\* QuietInv is inductive.
LEMMA QuietStep ==
  ASSUME MaxRemovals = 0, Faults = {}, TypeOK, QuietInv, [Next]_vars
  PROVE  QuietInv'
<1>1. OrderInv'
  BY OrderStep DEF QuietInv
<1>2. RulesFollow'
  BY QuietSteps, MostStepsFollow, StartFollows, StopFollows DEF QuietInv, OrderInv
<1> QED
  BY <1>1, <1>2 DEF QuietInv

\* It holds as long as nobody removes a reservation and no command fails.
LEMMA QuietHolds ==
  ASSUME MaxRemovals = 0, Faults = {}
  PROVE  Spec => []QuietInv
<1>1. Init => OrderInv
  BY QueueAssumption DEF Contract, Init, MonitorInit, ScheduleInit, OrderInv, OneItemEach,
     ServerRegisters, MonitorKnows, InCharge
<1>2. ASSUME Init
      PROVE  RulesFollow
  <2>1. \A j \in JobIds : ~Active(j) /\ jobs[j] = Null /\ active_rules[j] = {}
    BY <1>2 DEF Init, ScheduleInit, RulesInit, Active
  <2>2. \A j \in JobIds : ~Placed(j) /\ ~Tracked(j)
    BY <1>2, <2>1 DEF Init, MonitorInit, Placed, Tracked, MonitorAt
  <2>3. \A ip \in Ips, j \in JobIds : oss_rules[ip][j] = Null
    BY <1>2 DEF Init, RulesInit
  <2> QED
    BY <2>1, <2>2, <2>3 DEF RulesFollow, Follows
<1>3. TypeOK /\ QuietInv /\ [Next]_vars => QuietInv'
  BY QuietStep
<1> QED
  BY <1>1, <1>2, <1>3, TypeCorrect, PTL DEF Spec, QuietInv

\* As long as nobody removes a reservation and no command fails, the OSSs have,
\* outside of the processing of a job, exactly the rules of the active jobs: for
\* every number of OSTs, OSSs and reservations and every order of the threads.
THEOREM FollowsHolds ==
  ASSUME MaxRemovals = 0, Faults = {}
  PROVE  Spec => []LustreFollowsSchedule
<1>1. ASSUME TypeOK, InFlightExclusion, QuietInv, NEW j \in JobIds \ in_flight, NEW ip \in Ips
      PROVE  oss_rules[ip][j] = IF Active(j) /\ ip \in IpsOf(jobs[j].osts)
                                THEN Rate(jobs[j].osts, jobs[j].mbs, ip) ELSE Null
  <2>1. ~MonitorAt(j, RuleSteps)
    BY <1>1 DEF InFlightExclusion, Holds, Holding, StopSteps, MonitorAt, RuleSteps
  <2>2. Placed(j) <=> Active(j)
    BY <2>1 DEF Placed, MonitorAt, RuleSteps
  <2>3. oss_rules[ip][j] = IF Placed(j) THEN RulesFor(TermsOf(jobs[j]))[ip] ELSE Null
    BY <1>1 DEF QuietInv, RulesFollow, Follows
  <2> QED
    BY <2>2, <2>3 DEF RulesFor, TermsOf
<1>2. TypeOK /\ InFlightExclusion /\ QuietInv => LustreFollowsSchedule
  BY <1>1 DEF LustreFollowsSchedule
<1> QED
  BY <1>2, QuietHolds, TypeCorrect, ExclusionHolds, PTL

-----------------------------------------------------------------------------
(* The planner implements the reservation service.                         *)

phaseBar == [j \in JobIds |-> PhaseOf(j)]
termsBar == [j \in JobIds |-> IF jobs[j] = Null THEN Null ELSE TermsOf(jobs[j])]
rulesBar == [j \in JobIds |-> [ip \in Ips |-> oss_rules[ip][j]]]

\* The phase of a reservation, from its state and from where the monitor is.
LEMMA PhaseIs ==
  ASSUME TypeOK, QuietInv, NEW j \in JobIds
  PROVE  /\ jobs[j] = Null => PhaseOf(j) = "free" /\ ~Placed(j)
         /\ jobs[j] # Null /\ Placed(j) => PhaseOf(j) = "enforced"
         /\ jobs[j] # Null /\ ~Placed(j) =>
              PhaseOf(j) = IF jobs[j].state = "SCHEDULED" THEN "granted" ELSE "released"
<1>0. Follows(j) /\ jobs \in [JobIds -> Job \cup {Null}]
  BY DEF QuietInv, RulesFollow, TypeOK, ScheduleTypeOK
<1>1. Placed(j) => jobs[j] # Null /\ jobs[j].osts # {}
  <2>1. Active(j) => jobs[j] # Null /\ jobs[j].osts # {}
    BY <1>0 DEF Active, Follows
  <2>2. MonitorAt(j, {"insert_rule", "start_update"}) => jobs[j] # Null /\ jobs[j].osts # {}
    BY DEF QuietInv, OrderInv, MonitorKnows, InCharge, MonitorAt
  <2> QED
    BY <2>1, <2>2 DEF Placed
<1>2. ASSUME Placed(j)
      PROVE  \E ip \in Ips : oss_rules[ip][j] # Null
  <2>1. PICK o \in jobs[j].osts : TRUE
    BY <1>1, <1>2
  <2>2. /\ jobs[j] \in Job /\ jobs[j].osts \in SUBSET Osts /\ jobs[j].mbs \in Mbs
    BY <1>0, <1>1, <1>2 DEF Job
  <2>3. IpOf[o] \in Ips /\ IpOf[o] \in IpsOf(jobs[j].osts)
    BY <2>1, <2>2, IpOfAssumption DEF IpsOf
  <2>4. oss_rules[IpOf[o]][j] = Rate(jobs[j].osts, jobs[j].mbs, IpOf[o])
    BY <1>0, <1>2, <2>3 DEF Follows, RulesFor, TermsOf
  <2>5. Rate(jobs[j].osts, jobs[j].mbs, IpOf[o]) \in Mbs
    BY <2>2, <2>3, RateType
  <2> QED
    BY <2>3, <2>4, <2>5, NullAssumption
<1>3. ~Placed(j) => \A ip \in Ips : oss_rules[ip][j] = Null
  BY <1>0 DEF Follows
<1> QED
  BY <1>1, <1>2, <1>3 DEF PhaseOf, Enforced

\* Steps that change nothing the client sees.
LEMMA Unseen ==
  ASSUME UNCHANGED <<jobs, oss_rules>>
  PROVE  UNCHANGED <<phaseBar, termsBar, rulesBar>>
<1>1. \A j \in JobIds : PhaseOf(j)' = PhaseOf(j)
  BY DEF PhaseOf, Enforced
<1> QED
  BY <1>1 DEF phaseBar, termsBar, rulesBar, TermsOf

\* A step on one job changes the abstract state of that one.
LEMMA SeenOfOne ==
  ASSUME TypeOK, NEW m \in JobIds,
         \A j \in JobIds \ {m} : /\ jobs'[j] = jobs[j]
                                 /\ \A ip \in Ips : oss_rules'[ip][j] = oss_rules[ip][j]
  PROVE  /\ phaseBar' = [phaseBar EXCEPT ![m] = PhaseOf(m)']
         /\ termsBar' = [termsBar EXCEPT ![m] = IF jobs'[m] = Null THEN Null ELSE TermsOf(jobs'[m])]
         /\ rulesBar' = [rulesBar EXCEPT ![m] = [ip \in Ips |-> oss_rules'[ip][m]]]
<1>1. \A j \in JobIds \ {m} : PhaseOf(j)' = PhaseOf(j)
  BY DEF PhaseOf, Enforced
<1>2. phaseBar' = [phaseBar EXCEPT ![m] = PhaseOf(m)']
  BY <1>1 DEF phaseBar
<1>3. termsBar' = [termsBar EXCEPT ![m] = IF jobs'[m] = Null THEN Null ELSE TermsOf(jobs'[m])]
  BY DEF termsBar, TermsOf
<1>4. rulesBar' = [rulesBar EXCEPT ![m] = [ip \in Ips |-> oss_rules'[ip][m]]]
  BY DEF rulesBar
<1> QED
  BY <1>2, <1>3, <1>4

\* An accepted request grants a reservation.
LEMMA GrantStep ==
  ASSUME TypeOK, QuietInv, NEW id \in JobIds, NEW r \in Requests, ServeJobSubmission(id, r)
  PROVE  Service!Grant(id)
<1> DEFINE job == [BuildJob(r) EXCEPT !.state = "SCHEDULED"]
<1>0. /\ jobs \in [JobIds -> Job \cup {Null}] /\ pc \in [Threads -> Steps["monitor"] \cup Steps["server"]]
      /\ cur \in [Threads -> JobIds \cup {Null}]
  BY DEF TypeOK, MonitorTypeOK, ScheduleTypeOK
<1>1. /\ jobs[id] = Null /\ jobs' = [jobs EXCEPT ![id] = job] /\ UNCHANGED <<now, oss_rules>>
      /\ job.state = "SCHEDULED" /\ job.tstart = now
      /\ cur'["monitor"] = cur["monitor"] /\ pc'["monitor"] = pc["monitor"]
  BY <1>0 DEF ServeJobSubmission, ScheduleJob, AddJob, BuildJob
<1>2. job \in Job /\ job # Null /\ jobs'[id] = job
  <2>1. job \in Job
    BY BuildJobType DEF ServeJobSubmission, TypeOK, MonitorTypeOK
  <2> QED
    BY <1>0, <1>1, <2>1, NullAssumption
<1>3. PhaseOf(id) = "free" /\ ~Placed(id)
  BY <1>1, PhaseIs
<1>4. PhaseOf(id)' = "granted"
  <2>1. \A ip \in Ips : oss_rules[ip][id] = Null
    BY <1>3 DEF QuietInv, RulesFollow, Follows
  <2> QED
    BY <1>1, <1>2, <2>1 DEF PhaseOf, Enforced
<1>5. /\ phaseBar' = [phaseBar EXCEPT ![id] = "granted"]
      /\ termsBar' = [termsBar EXCEPT ![id] = TermsOf(job)] /\ UNCHANGED rulesBar
  <2>1. \A j \in JobIds \ {id} : jobs'[j] = jobs[j]
    BY <1>0, <1>1
  <2> QED
    BY <1>1, <1>2, <1>4, <2>1, SeenOfOne DEF rulesBar
<1>6. /\ TermsOf(job) \in [start : Time, end : Time, osts : SUBSET Osts, mbs : Mbs]
      /\ TermsOf(job).start = now
  BY <1>1, <1>2 DEF TermsOf, Job
<1> QED
  BY <1>1, <1>3, <1>5, <1>6 DEF Service!Grant, Service!Moves, phaseBar, termsBar, rulesBar

\* Setting the rules enforces it, after its start and on all its OSSs.
LEMMA EnforceStep ==
  ASSUME Faults = {}, TypeOK, QuietInv, NEW m \in JobIds,
         At("monitor", "set_rules"), args.osts # {}, UNCHANGED <<now, jobs>>,
         NEW ok \in BOOLEAN, SetRulesAsync(m, args.osts, args.mbs, ok)
  PROVE  m = cur["monitor"] => Service!Enforce(m)
<1>m. SUFFICES ASSUME m = cur["monitor"] PROVE Service!Enforce(m)
  OBVIOUS
<1>0. /\ jobs \in [JobIds -> Job \cup {Null}] /\ event \in JobEvent
      /\ args.osts \in SUBSET Osts /\ args.mbs \in Mbs /\ now \in Nat
  BY TimeAssumption DEF TypeOK, MonitorTypeOK, ScheduleTypeOK
<1>1. /\ jobs[m] # Null /\ jobs[m].state = "SCHEDULED" /\ jobs[m].tstart < now
      /\ args.osts = jobs[m].osts /\ args.mbs = jobs[m].mbs
  BY <1>m, <1>0 DEF QuietInv, OrderInv, MonitorKnows, InCharge, JobEvent, StartSteps, EndSteps,
              StopSteps
<1>2. ~Placed(m) /\ \A ip \in Ips : oss_rules[ip][m] = Null
  <2>1. ~Placed(m)
    BY <1>m, <1>1 DEF Placed, Active, MonitorAt
  <2> QED
    BY <2>1 DEF QuietInv, RulesFollow, Follows
<1>3. PhaseOf(m) = "granted"
  BY <1>1, <1>2, PhaseIs
<1>4. /\ ok = TRUE
      /\ \A ip \in Ips :
           /\ \A j \in JobIds \ {m} : oss_rules'[ip][j] = oss_rules[ip][j]
           /\ oss_rules'[ip][m] = IF ip \in IpsOf(args.osts)
                                  THEN Rate(args.osts, args.mbs, ip) ELSE Null
  <2>1. RulesTypeOK /\ args.osts \in SUBSET Osts /\ args.mbs \in Mbs
    BY <1>0 DEF TypeOK
  <2>2. \A ip \in Ips : oss_rules[ip][m] = Null
    BY <1>2
  <2> QED
    BY <2>1, <2>2, SetsAllRules, Zenon
<1>5. PhaseOf(m)' = "enforced"
  <2>1. PICK o \in args.osts : TRUE
    OBVIOUS
  <2>2. IpOf[o] \in Ips /\ IpOf[o] \in IpsOf(args.osts)
    BY <1>0, <2>1, IpOfAssumption DEF IpsOf
  <2>3. oss_rules'[IpOf[o]][m] \in Mbs
    BY <1>0, <1>4, <2>2, RateType
  <2> QED
    BY <1>1, <2>2, <2>3, NullAssumption DEF PhaseOf, Enforced
<1>6. [ip \in Ips |-> oss_rules'[ip][m]] = RulesFor(TermsOf(jobs[m]))
  BY <1>1, <1>4 DEF RulesFor, TermsOf
<1>7. /\ phaseBar' = [phaseBar EXCEPT ![m] = "enforced"]
      /\ rulesBar' = [rulesBar EXCEPT ![m] = RulesFor(TermsOf(jobs[m]))]
  BY <1>4, <1>5, <1>6, SeenOfOne
<1>8. termsBar' = termsBar /\ termsBar[m] = TermsOf(jobs[m]) /\ TermsOf(jobs[m]).start < now
  BY <1>1 DEF termsBar, TermsOf
<1>9. TermsOf(jobs[m]).start \in Int
  BY <1>0, <1>1, TimeAssumption DEF TermsOf, Job, Time, Forever
<1> QED
  BY <1>0, <1>3, <1>7, <1>8, <1>9
     DEF Service!Enforce, Service!Moves, phaseBar, termsBar, rulesBar

\* Removing the rules releases it, after its end.
LEMMA ReleaseStep ==
  ASSUME Faults = {}, TypeOK, QuietInv, NEW m \in JobIds, m = cur["monitor"],
         StopRemovesRules("monitor")
  PROVE  Service!Release(m)
<1>0. /\ jobs \in [JobIds -> Job \cup {Null}] /\ event \in JobEvent /\ now \in Nat
      /\ UNCHANGED <<now, jobs>> /\ pc["monitor"] = "remove_rules"
  BY TimeAssumption DEF TypeOK, MonitorTypeOK, ScheduleTypeOK, StopRemovesRules
<1>1. jobs[m] # Null /\ jobs[m].state = "ACTIVE" /\ jobs[m].tend < now /\ Follows(m)
  BY <1>0 DEF QuietInv, OrderInv, MonitorKnows, InCharge, JobEvent, StartSteps, QueueSteps,
              EndSteps, StopSteps, RulesFollow
<1>2. /\ Placed(m) /\ jobs[m].osts # {} /\ active_rules[m] = IpsOf(jobs[m].osts)
      /\ \A ip \in Ips : oss_rules[ip][m] = RulesFor(TermsOf(jobs[m]))[ip]
  BY <1>0, <1>1 DEF Placed, Tracked, Active, MonitorAt, Follows
<1>3. PhaseOf(m) = "enforced"
  BY <1>1, <1>2, PhaseIs
<1>4. RemoveRulesAsync(m)
  <2>1. HasRules(cur["monitor"]) = TRUE
    BY <1>2 DEF HasRules, IpsOf
  <2>2. Find("monitor", cur["monitor"]) = {TRUE}
    BY <2>1, NoRace DEF QuietInv, OrderInv
  <2> QED
    BY <2>2 DEF StopRemovesRules
<1>5. \A ip \in Ips : /\ \A j \in JobIds \ {m} : oss_rules'[ip][j] = oss_rules[ip][j]
                      /\ oss_rules'[ip][m] = Null
  <2>1. \A ip \in Ips : /\ \A j \in JobIds \ {m} : oss_rules'[ip][j] = oss_rules[ip][j]
                        /\ ip \in active_rules[m] => oss_rules'[ip][m] = Null
                        /\ ip \notin active_rules[m] => oss_rules'[ip] = oss_rules[ip]
    BY <1>4, RemovesAllRules DEF TypeOK
  <2> QED
    BY <1>2, <2>1 DEF RulesFor, TermsOf
<1>6. PhaseOf(m)' = "released"
  BY <1>0, <1>1, <1>5 DEF PhaseOf, Enforced
<1>7. /\ phaseBar' = [phaseBar EXCEPT ![m] = "released"]
      /\ rulesBar' = [rulesBar EXCEPT ![m] = [ip \in Ips |-> Null]]
  <2>1. [ip \in Ips |-> oss_rules'[ip][m]] = [ip \in Ips |-> Null]
    BY <1>5
  <2> QED
    BY <1>0, <1>5, <1>6, <2>1, SeenOfOne
<1>8. termsBar' = termsBar /\ termsBar[m] = TermsOf(jobs[m]) /\ TermsOf(jobs[m]).end < now
  BY <1>0, <1>1 DEF termsBar, TermsOf
<1>9. TermsOf(jobs[m]).end \in Int
  BY <1>0, <1>1, TimeAssumption DEF TermsOf, Job, Time, Forever
<1> QED
  BY <1>0, <1>3, <1>7, <1>8, <1>9
     DEF Service!Release, Service!Moves, phaseBar, termsBar, rulesBar

\* Handle's RemoveJob forgets it.
LEMMA ForgetStep ==
  ASSUME TypeOK, QuietInv, NEW m \in JobIds, m = cur["monitor"], HandleRemovesJob
  PROVE  Service!Forget(m)
<1>0. /\ jobs \in [JobIds -> Job \cup {Null}] /\ event \in JobEvent
      /\ UNCHANGED <<now, oss_rules>> /\ pc["monitor"] = "remove_job"
      /\ jobs' = [jobs EXCEPT ![m] = Null]
  BY DEF TypeOK, MonitorTypeOK, ScheduleTypeOK, HandleRemovesJob, RemoveJob
<1>1. jobs[m] # Null /\ jobs[m].state = "DONE"
  BY <1>0 DEF QuietInv, OrderInv, MonitorKnows, InCharge, JobEvent, StartSteps, QueueSteps
<1>2. ~Placed(m)
  BY <1>0, <1>1 DEF Placed, Active, MonitorAt
<1>3. PhaseOf(m) = "released"
  BY <1>1, <1>2, PhaseIs
<1>4. PhaseOf(m)' = "free"
  BY <1>0 DEF PhaseOf
<1>5. /\ phaseBar' = [phaseBar EXCEPT ![m] = "free"]
      /\ termsBar' = [termsBar EXCEPT ![m] = Null] /\ rulesBar' = rulesBar
  BY <1>0, <1>4, SeenOfOne DEF rulesBar
<1> QED
  BY <1>0, <1>3, <1>5 DEF Service!Forget, Service!Moves, phaseBar, termsBar, rulesBar

\* UpdateJob in StartJob comes when the rules are set, in StopJob when they are
\* gone: neither changes what the client sees.
LEMMA UpdatesUnseen ==
  ASSUME TypeOK, QuietInv, NEW m \in JobIds, m = cur["monitor"],
         StartUpdatesJob \/ StopUpdatesJob("monitor")
  PROVE  UNCHANGED <<phaseBar, termsBar, rulesBar>> /\ UNCHANGED now
<1>0. /\ jobs \in [JobIds -> Job \cup {Null}] /\ event \in JobEvent
      /\ UNCHANGED <<now, oss_rules>> /\ pc["monitor"] \in {"start_update", "stop_update"}
  BY DEF TypeOK, MonitorTypeOK, ScheduleTypeOK, StartUpdatesJob, StopUpdatesJob
<1>1. jobs[m] # Null /\ jobs[m] \in Job
  BY <1>0 DEF QuietInv, OrderInv, MonitorKnows, InCharge
<1>2. /\ \A j \in JobIds \ {m} : jobs'[j] = jobs[j]
      /\ jobs'[m] # Null /\ TermsOf(jobs'[m]) = TermsOf(jobs[m])
      /\ jobs'[m].state \in {"ACTIVE", "DONE"}
  <2>1. PICK state \in {"ACTIVE", "DONE"} : UpdateJob(m, state)
    BY DEF StartUpdatesJob, StopUpdatesJob
  <2>2. /\ \A j \in JobIds \ {m} : jobs'[j] = jobs[j]
        /\ jobs'[m] = [jobs[m] EXCEPT !.state = state] /\ jobs'[m] # Null
    BY <1>1, <2>1, UpdateJobEffect DEF JobState
  <2> QED
    BY <1>1, <2>2 DEF TermsOf, Job
<1>3. ASSUME pc["monitor"] = "start_update"
      PROVE  PhaseOf(m)' = PhaseOf(m)
  <2>1. Placed(m)
    BY <1>3 DEF Placed, MonitorAt
  <2>2. PhaseOf(m) = "enforced"
    BY <1>1, <2>1, PhaseIs
  <2>3. PhaseOf(m)' = PhaseOf(m)
    BY <1>0, <1>1, <1>2, <2>2 DEF PhaseOf, Enforced
  <2> QED
    BY <2>3
<1>4. ASSUME pc["monitor"] = "stop_update"
      PROVE  PhaseOf(m)' = PhaseOf(m)
  <2>1. ~Placed(m) /\ jobs[m].state = "ACTIVE"
    BY <1>0, <1>4 DEF Placed, MonitorAt, QuietInv, OrderInv, MonitorKnows, InCharge, JobEvent,
                      StartSteps, QueueSteps, EndSteps, StopSteps
  <2>2. PhaseOf(m) = "released"
    BY <1>1, <2>1, PhaseIs
  <2>3. PhaseOf(m)' = PhaseOf(m)
    BY <1>0, <1>1, <1>2, <2>2 DEF PhaseOf, Enforced
  <2> QED
    BY <2>3
<1>5. \A j \in JobIds \ {m} : PhaseOf(j)' = PhaseOf(j)
  BY <1>0, <1>2 DEF PhaseOf, Enforced
<1>6. phaseBar' = phaseBar
  BY <1>0, <1>3, <1>4, <1>5 DEF phaseBar
<1>7. termsBar' = termsBar
  BY <1>1, <1>2 DEF termsBar, TermsOf
<1> QED
  BY <1>0, <1>6, <1>7 DEF rulesBar

\* Each step of the planner is one of the service, or changes nothing there.
LEMMA ServiceStep ==
  ASSUME MaxRemovals = 0, Faults = {}, TypeOK, QuietInv, [Next]_vars
  PROVE  [Service!Next]_(Service!vars)
<1> DEFINE Stutters == UNCHANGED <<now, phaseBar, termsBar, rulesBar>>
<1>0. Stutters => UNCHANGED Service!vars
  BY DEF Service!vars, phaseBar, termsBar, rulesBar
<1>1. \/ RegisterJob \/ UNCHANGED vars \/ PopReady \/ HandleEnters \/ StartGetsStatus
      \/ StartGetsThroughput \/ StartGetsOsts \/ StartGetsEnd \/ StartPushesStop
      \/ StopGetsStatus("monitor") \/ Unblock("monitor")
      \/ StartInsertsRules \/ StopErasesRules("monitor")
      => UNCHANGED <<now, jobs, oss_rules>>
  BY DEF RegisterJob, vars, PopReady, HandleEnters, StartGetsStatus, StartGetsThroughput,
         StartGetsOsts, StartGetsEnd, StartPushesStop, StopGetsStatus, Unblock,
         StartInsertsRules, StopErasesRules
<1>2. UNCHANGED <<now, jobs, oss_rules>> => Stutters
  BY Unseen
<1>3. CASE Tick
  <2>1. now' = now + 1 /\ UNCHANGED <<jobs, oss_rules>>
    BY <1>3 DEF Tick
  <2>2. UNCHANGED <<phaseBar, termsBar, rulesBar>>
    BY <2>1, Unseen
  <2>3. Service!Passes
    BY <2>1, <2>2 DEF Service!Passes, phaseBar, termsBar, rulesBar
  <2> QED
    BY <2>3 DEF Service!Next
<1>4. ASSUME NEW id \in JobIds, NEW r \in Requests, ServeJobSubmission(id, r)
      PROVE  Service!Next
  BY <1>4, GrantStep DEF Service!Next
<1>5. StartSetsRules => Service!Next \/ Stutters
  <2>1. SUFFICES ASSUME StartSetsRules PROVE Service!Next \/ Stutters
    OBVIOUS
  <2>2. At("monitor", "set_rules") /\ UNCHANGED <<now, jobs>>
    BY <2>1 DEF StartSetsRules
  <2>3. CASE UNCHANGED oss_rules
    BY <1>2, <2>2, <2>3
  <2>4. CASE args.osts # {} /\ \E ok \in BOOLEAN :
                                 SetRulesAsync(cur["monitor"], args.osts, args.mbs, ok)
    <3>1. PICK m \in JobIds : m = cur["monitor"]
      BY <2>2, HolderHasJob
    <3>2. PICK ok \in BOOLEAN : SetRulesAsync(m, args.osts, args.mbs, ok)
      BY <2>4, <3>1
    <3>3. Service!Enforce(m)
      BY <2>2, <2>4, <3>1, <3>2, EnforceStep
    <3> QED
      BY <3>3 DEF Service!Next
  <2> QED
    BY <2>1, <2>3, <2>4 DEF StartSetsRules, SetRulesProceeds
<1>6. ASSUME StopRemovesRules("monitor")
      PROVE  Service!Next
  <2>1. PICK m \in JobIds : m = cur["monitor"]
    BY <1>6, HolderHasJob DEF StopRemovesRules
  <2>2. Service!Release(m)
    BY <1>6, <2>1, ReleaseStep
  <2> QED
    BY <2>2 DEF Service!Next
<1>7. ASSUME HandleRemovesJob
      PROVE  Service!Next
  <2>1. PICK m \in JobIds : m = cur["monitor"]
    BY <1>7, HolderHasJob DEF HandleRemovesJob
  <2>2. Service!Forget(m)
    BY <1>7, <2>1, ForgetStep
  <2> QED
    BY <2>2 DEF Service!Next
<1>8. ASSUME StartUpdatesJob \/ StopUpdatesJob("monitor")
      PROVE  Stutters
  <2>1. cur["monitor"] \in JobIds
    BY <1>8, HolderHasJob DEF StartUpdatesJob, StopUpdatesJob
  <2> QED
    BY <1>8, <2>1, UpdatesUnseen
<1> QED
  BY <1>0, <1>1, <1>2, <1>3, <1>4, <1>5, <1>6, <1>7, <1>8, QuietSteps DEF QuietInv, OrderInv

\* The planner without removals and failures is the reservation service: for
\* every number of jobs, OSTs and OSSs, every queue and every interleaving of the
\* two threads, each reservation is enforced, released and forgotten in this
\* order, each once, on all its OSSs at once and not before its time.
THEOREM ServiceImplemented ==
  ASSUME MaxRemovals = 0, Faults = {}
  PROVE  Spec => ImplementsService
<1>1. Init => Service!Init
  <2> SUFFICES ASSUME Init PROVE Service!Init
    OBVIOUS
  <2>1. /\ jobs = [j \in JobIds |-> Null] /\ now = 0
        /\ oss_rules = [ip \in Ips |-> [j \in JobIds |-> Null]]
    BY DEF Init, ScheduleInit, RulesInit, MonitorInit
  <2>2. [j \in JobIds |-> PhaseOf(j)] = [j \in JobIds |-> "free"]
    BY <2>1 DEF PhaseOf
  <2>3. [j \in JobIds |-> IF jobs[j] = Null THEN Null ELSE TermsOf(jobs[j])]
          = [j \in JobIds |-> Null]
    BY <2>1
  <2>4. [j \in JobIds |-> [ip \in Ips |-> oss_rules[ip][j]]]
          = [j \in JobIds |-> [ip \in Ips |-> Null]]
    BY <2>1
  <2> QED
    BY <2>1, <2>2, <2>3, <2>4 DEF Service!Init
<1>2. TypeOK /\ QuietInv /\ [Next]_vars => [Service!Next]_(Service!vars)
  BY ServiceStep
<1> QED
  BY <1>1, <1>2, QuietHolds, TypeCorrect, PTL DEF Spec, ImplementsService, Service!Safety

-----------------------------------------------------------------------------
(* The life of the planner, with removals.                                 *)

\* Where the owner and the monitor's thread are, and what they leave alone there.
LifeInv ==
  /\ monitor # "loop" => At("monitor", "idle")
  /\ owner # "serving" => At("server", "idle")
  /\ owner = "down" => monitor = "ended"
  /\ owner = "init" => monitor = "none" /\ \A j, i \in Accepted : i = j

\* The start of a job is on its way to the queue, in it, or in the hands of the
\* server, who removes the job and then perhaps accepts another of that name.
StartWaits(j) ==
  \/ cur["server"] = j
  \/ \E item \in QItems(queue) : item.jobid = j /\ item.eventType = "JOBSTART"
\* The monitor has come for the start.  Having read no OSTs it has missed the job.
MonitorStarts(j) ==
  /\ cur["monitor"] = j
  /\ \/ At("monitor", "handle") /\ event = "JOBSTART"
     \/ pc["monitor"] \in {"start_status", "start_throughput", "start_osts", "start_update"}
     \/ pc["monitor"] \in {"set_rules", "insert_rule"} /\ args.osts # {}
\* The rules are there, and the monitor is not about to take them away.
RulesKept(j) ==
  HasRules(j) /\ ~MonitorAt(j, {"remove_rules", "erase_rule", "stop_update"})

Scheduled(j) == jobs[j] # Null /\ jobs[j].state = "SCHEDULED"
StartsInv ==
  /\ \A j \in Accepted : jobs[j].osts # {}
  /\ At("monitor", "insert_rule") => args.osts # {}
  /\ owner # "init" /\ ~raced => \A j \in JobIds :
        Scheduled(j) => StartWaits(j) \/ MonitorStarts(j) \/ RulesKept(j)

\* Around its loop the planner does what Planner says; only Init adds to it.
LEMMA LifeSteps ==
  ASSUME [LifeNext]_allVars
  PROVE  [Next]_vars \/ InitMonitor
BY DEF LifeNext, Serving, Monitoring, Serves, InitScheduler, TearDown, Wakes, Returns, Begins,
       Tests, Waits, Works, Exits, Next, allVars

\* The schedule that the planner finds at the start is one.
LEMMA LifeInitType == LifeInit => TypeOK
<1> SUFFICES ASSUME LifeInit PROVE TypeOK
  OBVIOUS
<1>1. jobs \in [JobIds -> Job \cup {Null}]
  BY ExistingAssumption DEF LifeInit
<1>2. schedule \in [Osts -> Seq(Listed)]
  <2> DEFINE any == CHOOSE i \in Accepted : TRUE
  <2>1. schedule = [o \in Osts |-> IF \E j \in Accepted : o \in jobs[j].osts
                                   THEN <<Entry(any, jobs[any])>> ELSE <<>>]
    BY DEF LifeInit
  <2>2. ASSUME Accepted # {}
        PROVE  Entry(any, jobs[any]) \in Listed
    <3>1. any \in Accepted
      BY <2>2
    <3>2. jobs[any] \in Job /\ any \in JobIds
      BY <1>1, <3>1 DEF Accepted
    <3> QED
      BY <3>2 DEF Entry, Listed, Job
  <2>3. Accepted # {} => <<Entry(any, jobs[any])>> \in Seq(Listed)
    BY <2>2
  <2> HIDE DEF any
  <2>4. \A o \in Osts : (IF \E j \in Accepted : o \in jobs[j].osts
                         THEN <<Entry(any, jobs[any])>> ELSE <<>>) \in Seq(Listed)
    BY <2>3
  <2> QED
    BY <2>1, <2>4
<1>3. RulesTypeOK
  <2>1. \A j \in JobIds : Active(j) => jobs[j] \in Job
    BY <1>1 DEF Active
  <2>2. \A j \in JobIds, ip \in Ips :
           Active(j) => Rate(jobs[j].osts, jobs[j].mbs, ip) \in Mbs
    BY <2>1, RateType DEF Job
  <2>3. active_rules = [j \in JobIds |-> {}]
    BY DEF LifeInit
  <2>4. oss_rules = [ip \in Ips |-> [j \in JobIds |->
                      IF Active(j) /\ ip \in IpsOf(jobs[j].osts)
                      THEN Rate(jobs[j].osts, jobs[j].mbs, ip) ELSE Null]]
    BY DEF LifeInit
  <2> QED
    BY <2>2, <2>3, <2>4 DEF RulesTypeOK
<1>4. MonitorTypeOK
  BY MonitorInitType DEF LifeInit
<1> QED
  BY <1>1, <1>2, <1>3, <1>4, BoundsAssumption DEF LifeInit, TypeOK, ScheduleTypeOK

\* JobMonitor::Init puts at most one item into the queue, and touches nothing else.
LEMMA InitMonitorType ==
  ASSUME TypeOK, InitMonitor
  PROVE  TypeOK'
<1>1. queue' \in Queue
  BY DEF InitMonitor, TypeOK, MonitorTypeOK
<1> QED
  BY <1>1 DEF InitMonitor, TypeOK, MonitorTypeOK, ScheduleTypeOK, RulesTypeOK

\* Types and the exclusion on a job, from Init to TearDown.
LEMMA LifeTypes == LifeSpec => [](TypeOK /\ InFlightExclusion)
<1>0. MonitorInit => InFlightExclusion
  BY DEF MonitorInit, InFlightExclusion, Holds, Holding, StopSteps
<1>1. LifeInit => TypeOK /\ InFlightExclusion
  BY <1>0, LifeInitType DEF LifeInit
<1>2. TypeOK /\ InFlightExclusion /\ InitMonitor => InFlightExclusion'
  BY DEF InitMonitor, InFlightExclusion, Holds
<1>3. TypeOK /\ InFlightExclusion /\ [LifeNext]_allVars => (TypeOK /\ InFlightExclusion)'
  BY <1>2, LifeSteps, TypeStep, ExclusionStep, InitMonitorType
<1> QED
  BY <1>1, <1>3, PTL DEF LifeSpec

\* Which thread moves in which step.
LEMMA ThreadSteps ==
  ASSUME TypeOK
  PROVE  /\ MonitorNext => pc'["server"] = pc["server"]
         /\ Request \/ ServerNext => pc'["monitor"] = pc["monitor"]
<1>0. pc \in [Threads -> Steps["monitor"] \cup Steps["server"]]
  BY DEF TypeOK, MonitorTypeOK
<1>1. ASSUME NEW t \in Threads, StopStep(t) \/ Unblock(t)
      PROVE  \A u \in Threads \ {t} : pc'[u] = pc[u]
  BY <1>0, <1>1 DEF StopStep, StopGetsStatus, StopRemovesRules, StopErasesRules,
                    StopUpdatesJob, Unblock
<1>2. MonitorNext => pc'["server"] = pc["server"]
  BY <1>0, <1>1 DEF MonitorNext, MonitorStep, PopReady, HandleEnters, StartGetsStatus,
     StartGetsThroughput, StartGetsOsts, StartSetsRules, StartInsertsRules, StartUpdatesJob,
     StartGetsEnd, StartPushesStop, HandleRemovesJob
<1>3. Request \/ ServerNext => pc'["monitor"] = pc["monitor"]
  BY <1>0, <1>1 DEF Request, ServeJobSubmission, RefuseJobSubmission, ServeJobRemove,
     ServerNext, RegisterJob, UnregisterStep, BlockJob, RemoveJobFromPrioQueue,
     UnregisterGetsStatus, RemoveFromSchedule, vars
<1> QED
  BY <1>2, <1>3

\* LifeInv is kept: the monitor's thread leaves its loop between two jobs, and
\* TearDown is called between two requests.
LEMMA LifeInvStep ==
  ASSUME TypeOK, LifeInv, [LifeNext]_allVars
  PROVE  LifeInv'
<1> USE DEF LifeInv
<1>1. CASE InitMonitor
  BY <1>1 DEF InitMonitor
<1>2. CASE InitScheduler \/ TearDown \/ Wakes \/ Returns
  BY <1>2 DEF InitScheduler, TearDown, Wakes, Returns, Joined, vars
<1>3. CASE Begins \/ Tests \/ Exits
  BY <1>3 DEF Begins, Tests, Exits, Notified, NotifiedAtExit, vars
<1>4. CASE Waits
  BY <1>4 DEF Waits, WaitForWork
<1>5. CASE Works
  BY <1>5, ThreadSteps DEF Works, lifeVars
<1>6. CASE Serves \/ (owner = "serving" /\ Request /\ UNCHANGED lifeVars)
  BY <1>6, ThreadSteps DEF Serves, lifeVars
<1>7. CASE Tick /\ UNCHANGED lifeVars
  BY <1>7 DEF Tick, lifeVars, Accepted
<1>8. CASE UNCHANGED allVars
  BY <1>8 DEF allVars, vars, lifeVars, Accepted
<1> QED
  BY <1>1, <1>2, <1>3, <1>4, <1>5, <1>6, <1>7, <1>8 DEF LifeNext, Serving, Monitoring

\* It holds from the start.
LEMMA LifeInvHolds == LifeSpec => []LifeInv
<1>1. LifeInit => LifeInv
  BY DEF LifeInit, LifeInv, MonitorInit, Accepted
<1>2. TypeOK /\ LifeInv /\ [LifeNext]_allVars => LifeInv'
  BY LifeInvStep
<1> QED
  BY <1>1, <1>2, LifeTypes, PTL DEF LifeSpec

\* When TearDown has returned the monitor's thread has ended, and neither thread
\* has left a job half started or half stopped, whenever TearDown was called.
THEOREM TearDownHolds == LifeSpec => []NothingInFlightAfterTearDown
<1>1. ASSUME InFlightExclusion, LifeInv, owner = "down"
      PROVE  monitor = "ended" /\ At("monitor", "idle") /\ in_flight = {}
  <2>1. monitor = "ended" /\ At("monitor", "idle") /\ At("server", "idle")
    BY <1>1 DEF LifeInv
  <2>2. \A t \in Threads : ~Holds(t)
    BY <2>1 DEF Holds, Holding, StopSteps
  <2> QED
    BY <1>1, <2>1, <2>2 DEF InFlightExclusion
<1>2. InFlightExclusion /\ LifeInv => NothingInFlightAfterTearDown
  BY <1>1 DEF NothingInFlightAfterTearDown
<1> QED
  BY <1>2, LifeTypes, LifeInvHolds, PTL

-----------------------------------------------------------------------------
(* From Init on every job waits for what comes next.                       *)

\* Only JobMonitor::Init ends the time before it.
LEMMA BeforeInit ==
  ASSUME LifeInv, [LifeNext]_allVars, owner = "init"
  PROVE  InitMonitor \/ owner' = "init"
BY DEF LifeInv, LifeNext, Serving, Monitoring, Serves, InitScheduler, TearDown, Wakes, Returns,
       Begins, Tests, Waits, Works, Exits, lifeVars, allVars

\* FillWithExistingJobs leaves out no job that waits for something.
LEMMA InitQueues ==
  ASSUME TypeOK, LifeInv, InitMonitor, NEW j \in JobIds
  PROVE  /\ Active(j)' => StopIsDue(j)'
         /\ Scheduled(j)' => StartWaits(j)'
<1>0. /\ owner = "init" /\ jobs' = jobs /\ jobs \in [JobIds -> Job \cup {Null}]
      /\ queue \in Queue
  BY DEF InitMonitor, TypeOK, ScheduleTypeOK, MonitorTypeOK
<1> SUFFICES ASSUME Active(j) \/ Scheduled(j)
             PROVE  /\ Active(j) => StopIsDue(j)'
                    /\ Scheduled(j) => StartWaits(j)'
  BY <1>0 DEF Active, Scheduled
<1>1. /\ j \in Accepted /\ jobs[j] \in Job /\ jobs[j].state \in TouchedStates
      /\ \A i \in Accepted : i = j
  BY <1>0 DEF LifeInv, Accepted, Active, Scheduled, TouchedStates
<1>2. queue' = QPush(queue, Due(j)) /\ queue' \in Queue
  BY <1>1 DEF InitMonitor
<1>3. Due(j) \in WaitingItem /\ Due(j).jobid = j
  BY <1>1 DEF Due, StartItem, StopItem, WaitingItem, JobEvent, Job
<1>4. Due(j) \in QItems(queue')
  <2>1. QPush(queue, Due(j)) \in Queue
    BY <1>2
  <2>2. QItems(QPush(queue, Due(j))) = QItems(queue) \cup {Due(j)}
    BY <1>0, <1>3, <2>1, QueueItems
  <2> QED
    BY <1>2, <2>2
<1>5. /\ Active(j) => Due(j).eventType = "JOBSTOP"
      /\ Scheduled(j) => Due(j).eventType = "JOBSTART"
  BY DEF Active, Scheduled, Due, StartItem, StopItem
<1> QED
  BY <1>3, <1>4, <1>5 DEF StopIsDue, StartWaits

\* A job that is SCHEDULED was so before the step, unless it is being accepted.
LEMMA ScheduledBefore ==
  ASSUME TypeOK, [Next]_vars, NEW j \in JobIds, Scheduled(j)'
  PROVE  Scheduled(j) \/ cur'["server"] = j
<1> USE DEF Scheduled
<1>0. /\ jobs \in [JobIds -> Job \cup {Null}] /\ cur \in [Threads -> JobIds \cup {Null}]
  BY DEF TypeOK, ScheduleTypeOK, MonitorTypeOK
<1>1. CASE UNCHANGED <<jobs, schedule>>
  BY <1>1
<1>2. ASSUME NEW id \in JobIds, NEW r \in Requests, AddsJob(id, r), ServeJobSubmission(id, r)
      PROVE  Scheduled(j) \/ cur'["server"] = j
  <2>1. cur'["server"] = id
    BY <1>0, <1>2 DEF ServeJobSubmission
  <2>2. j # id => jobs'[j] = jobs[j]
    BY <1>0, <1>2 DEF AddsJob
  <2> QED
    BY <2>1, <2>2
<1>3. CASE DropsJob(cur["monitor"]) \/ DropsJob(cur["server"])
  BY <1>0, <1>3 DEF DropsJob
<1>4. CASE StartUpdatesJob
  <2>1. cur["monitor"] \in JobIds /\ UpdateJob(cur["monitor"], "ACTIVE")
    BY <1>4, HolderHasJob DEF StartUpdatesJob
  <2> QED
    BY <1>4, <2>1, UpdateJobEffect DEF JobState
<1>5. ASSUME NEW t \in Threads, StopUpdatesJob(t)
      PROVE  Scheduled(j)
  <2>1. cur[t] \in JobIds /\ UpdateJob(cur[t], "DONE")
    BY <1>5, HolderHasJob DEF StopUpdatesJob
  <2> QED
    BY <2>1, UpdateJobEffect DEF JobState
<1> QED
  BY <1>1, <1>2, <1>3, <1>4, <1>5, JobChanges

\* A start that waits goes on waiting, or the monitor has come for it.
LEMMA StartGoesOn ==
  ASSUME TypeOK, [Next]_vars, NEW j \in JobIds, Scheduled(j)', StartWaits(j)
  PROVE  StartWaits(j)' \/ MonitorStarts(j)'
<1> DEFINE Keeps == /\ cur'["server"] = cur["server"]
                    /\ QItems(queue) \subseteq QItems(queue')
<1>0. /\ pc \in [Threads -> Steps["monitor"] \cup Steps["server"]]
      /\ cur \in [Threads -> JobIds \cup {Null}] /\ queue \in Queue
      /\ args \in [mbs : Mbs, osts : SUBSET Osts, tend : Time] /\ start_at \in Time
      /\ QItems(queue) \subseteq WaitingItem /\ jobs \in [JobIds -> Job \cup {Null}]
  BY QueueItems DEF TypeOK, MonitorTypeOK, ScheduleTypeOK
<1>1. Keeps => StartWaits(j)'
  BY DEF StartWaits
<1>2. CASE PopReady
  <2>1. /\ queue' = QPop(queue) /\ QItems(queue) \subseteq QItems(queue') \cup {QPeek(queue)}
        /\ cur'["server"] = cur["server"]
    BY <1>0, <1>2, QueueItems DEF PopReady
  <2>2. /\ cur'["monitor"] = QPeek(queue).jobid /\ event' = QPeek(queue).eventType
        /\ pc'["monitor"] = "handle"
    BY <1>0, <1>2 DEF PopReady
  <2> QED
    BY <2>1, <2>2 DEF StartWaits, MonitorStarts
<1>3. CASE RegisterJob
  <2> DEFINE new == StartItem(cur["server"], start_at)
  <2>1. new \in WaitingItem /\ new.jobid = cur["server"] /\ new.eventType = "JOBSTART"
    BY <1>0, <1>3, HolderHasJob DEF RegisterJob, StartItem, WaitingItem, JobEvent
  <2>2. queue' = QPush(queue, new) /\ queue' \in Queue
    BY <1>3 DEF RegisterJob
  <2>3. QItems(queue') = QItems(queue) \cup {new}
    BY <1>0, <2>1, <2>2, QueueItems
  <2> QED
    BY <2>1, <2>3 DEF StartWaits
<1>4. CASE RemoveJobFromPrioQueue
  <2>1. /\ queue' = QRemove(queue, cur["server"]) /\ cur["server"] \in JobIds
        /\ cur' = cur
    BY <1>4, HolderHasJob DEF RemoveJobFromPrioQueue
  <2>2. {item \in QItems(queue) : item.jobid # cur["server"]} \subseteq QItems(queue')
    BY <1>0, <2>1, QueueItems
  <2> QED
    BY <2>1, <2>2 DEF StartWaits
<1>5. CASE StartPushesStop
  <2> DEFINE new == StopItem(cur["monitor"], args.tend)
  <2>1. new \in WaitingItem
    BY <1>0, <1>5, HolderHasJob DEF StartPushesStop, StopItem, WaitingItem, JobEvent
  <2>2. queue' = QPush(queue, new) /\ queue' \in Queue /\ cur' = cur
    BY <1>5 DEF StartPushesStop
  <2>3. QItems(queue') = QItems(queue) \cup {new}
    BY <1>0, <2>1, <2>2, QueueItems
  <2> QED
    BY <1>1, <2>2, <2>3
<1>6. CASE Request
  <2>1. queue' = queue /\ At("server", "idle")
    BY <1>6 DEF Request, ServeJobSubmission, RefuseJobSubmission, ServeJobRemove, vars
  <2>2. cur["server"] # j
    BY <2>1, JobIdsAssumption DEF TypeOK, MonitorTypeOK
  <2> QED
    BY <2>1, <2>2 DEF StartWaits
<1>7. CASE RemoveFromSchedule
  <2>1. queue' = queue /\ jobs' = [jobs EXCEPT ![cur["server"]] = Null]
    BY <1>7 DEF RemoveFromSchedule, RemoveJob
  <2>2. j # cur["server"]
    BY <1>0, <2>1 DEF Scheduled
  <2> QED
    BY <2>1, <2>2 DEF StartWaits
<1>8. Tick \/ UNCHANGED vars \/ HandleRemovesJob \/ StartSetsRules \/ StartInsertsRules
        \/ StartUpdatesJob => Keeps
  BY DEF Tick, vars, HandleRemovesJob, StartSetsRules, StartInsertsRules, StartUpdatesJob
<1>9. ASSUME NEW t \in Threads, StopStep(t) \/ Unblock(t)
      PROVE  Keeps
  BY <1>0, <1>9 DEF StopStep, StopGetsStatus, StopRemovesRules, StopErasesRules,
                    StopUpdatesJob, Unblock
<1>10. WaitForWork \/ HandleEnters \/ StartGetsStatus \/ StartGetsThroughput \/ StartGetsOsts
         \/ StartGetsEnd \/ BlockJob \/ UnregisterGetsStatus => Keeps
  BY DEF WaitForWork, HandleEnters, StartGetsStatus, StartGetsThroughput, StartGetsOsts,
         StartGetsEnd, BlockJob, UnregisterGetsStatus
<1> QED
  BY <1>1, <1>2, <1>3, <1>4, <1>5, <1>6, <1>7, <1>8, <1>9, <1>10, StepCases DEF StopStep

\* The monitor, once it has come for a start, makes the job active or finds rules.
LEMMA StartComesToRules ==
  ASSUME "lookup" \notin Faults, "exec" \notin Faults, TypeOK, [Next]_vars, ~raced',
         NEW j \in JobIds, Scheduled(j), jobs[j].osts # {}, Scheduled(j)', MonitorStarts(j)
  PROVE  MonitorStarts(j)' \/ RulesKept(j)'
<1>0. /\ pc \in [Threads -> Steps["monitor"] \cup Steps["server"]]
      /\ cur \in [Threads -> JobIds \cup {Null}]
      /\ args \in [mbs : Mbs, osts : SUBSET Osts, tend : Time]
      /\ jobs \in [JobIds -> Job \cup {Null}]
  BY DEF TypeOK, MonitorTypeOK, ScheduleTypeOK
<1>1. pc'["monitor"] = pc["monitor"] /\ cur'["monitor"] = cur["monitor"]
        /\ UNCHANGED <<event, args>> => MonitorStarts(j)'
  BY DEF MonitorStarts
<1>2. CASE HandleEnters
  BY <1>0, <1>2 DEF HandleEnters, MonitorStarts
<1>3. CASE StartGetsStatus
  BY <1>0, <1>3 DEF StartGetsStatus, MonitorStarts, Scheduled
<1>4. CASE StartGetsThroughput
  BY <1>0, <1>4 DEF StartGetsThroughput, MonitorStarts, Scheduled
<1>5. CASE StartGetsOsts
  BY <1>0, <1>5 DEF StartGetsOsts, MonitorStarts, Scheduled
<1>6. CASE StartSetsRules
  <2>1. /\ cur["monitor"] = j /\ cur' = cur /\ args.osts # {} /\ UNCHANGED <<args, active_rules>>
        /\ pc["monitor"] = "set_rules"
    BY <1>6 DEF StartSetsRules, MonitorStarts
  <2>2. Find("monitor", j) = {HasRules(j)}
    BY <1>6 DEF StartSetsRules, NotesRace, Find
  <2>3. CASE HasRules(j)
    <3>1. Find("monitor", cur["monitor"]) = {TRUE}
      <4>1. HasRules(j) = TRUE
        BY <2>3 DEF HasRules
      <4> QED
        BY <2>1, <2>2, <4>1
    <3>2. pc' = [pc EXCEPT !["monitor"] = "unblock"]
      BY <1>6, <3>1 DEF StartSetsRules, SetRulesProceeds, AfterSetRules
    <3> QED
      BY <1>0, <2>1, <2>3, <3>2 DEF RulesKept, MonitorAt, HasRules
  <2>4. CASE ~HasRules(j)
    <3>1. Find("monitor", cur["monitor"]) = {FALSE}
      <4>1. HasRules(j) = FALSE
        BY <2>4 DEF HasRules
      <4> QED
        BY <2>1, <2>2, <4>1
    <3>2. \E ok \in BOOLEAN : /\ SetRulesAsync(cur["monitor"], args.osts, args.mbs, ok)
                              /\ pc' = [pc EXCEPT !["monitor"] = AfterSetRules(ok)]
      BY <1>6, <2>1, <3>1 DEF StartSetsRules, SetRulesProceeds, IpsFound
    <3>3. ASSUME NEW ok \in BOOLEAN, SetRulesAsync(cur["monitor"], args.osts, args.mbs, ok)
          PROVE  ok = TRUE
      <4>1. Hit(IpsOf(args.osts), {"exec"}) = {{}}
        BY DEF Hit
      <4> QED
        BY <3>3, <4>1 DEF SetRulesAsync
    <3>4. pc' = [pc EXCEPT !["monitor"] = "insert_rule"]
      BY <3>2, <3>3 DEF AfterSetRules
    <3> QED
      BY <1>0, <2>1, <3>4 DEF MonitorStarts
  <2> QED
    BY <2>3, <2>4
<1>7. CASE StartInsertsRules
  BY <1>0, <1>7 DEF StartInsertsRules, MonitorStarts
<1>8. ~StartUpdatesJob
  <2>1. SUFFICES ASSUME StartUpdatesJob PROVE FALSE
    OBVIOUS
  <2>2. cur["monitor"] = j /\ UpdateJob(j, "ACTIVE")
    BY <2>1 DEF StartUpdatesJob, MonitorStarts
  <2>3. jobs'[j].state = "ACTIVE"
    BY <2>2, UpdateJobEffect DEF Scheduled, JobState
  <2> QED
    BY <2>3 DEF Scheduled
<1>9. ~(PopReady \/ StartGetsEnd \/ StartPushesStop \/ HandleRemovesJob \/ StopStep("monitor")
          \/ Unblock("monitor"))
  BY DEF MonitorStarts, PopReady, StartGetsEnd, StartPushesStop, HandleRemovesJob, StopStep,
         StopGetsStatus, StopRemovesRules, StopErasesRules, StopUpdatesJob, Unblock
<1>10. Request \/ RemoveFromSchedule \/ Tick \/ UNCHANGED vars \/ WaitForWork \/ RegisterJob
         \/ BlockJob \/ RemoveJobFromPrioQueue \/ UnregisterGetsStatus \/ StopStep("server")
         \/ Unblock("server")
       => pc'["monitor"] = pc["monitor"] /\ cur'["monitor"] = cur["monitor"]
          /\ UNCHANGED <<event, args>>
  BY <1>0 DEF Request, ServeJobSubmission, RefuseJobSubmission, ServeJobRemove,
     RemoveFromSchedule, Tick, vars, WaitForWork, RegisterJob, BlockJob, RemoveJobFromPrioQueue,
     UnregisterGetsStatus, StopStep, StopGetsStatus, StopRemovesRules, StopErasesRules,
     StopUpdatesJob, Unblock
<1> QED
  BY <1>1, <1>2, <1>3, <1>4, <1>5, <1>6, <1>7, <1>8, <1>9, <1>10, StepCases DEF StopStep

\* The monitor comes to removing rules only for an active job.
LEMMA StoppingSteps ==
  ASSUME TypeOK, [Next]_vars, pc'["monitor"] \in {"remove_rules", "erase_rule", "stop_update"}
  PROVE  /\ cur'["monitor"] = cur["monitor"]
         /\ \/ pc["monitor"] \in {"remove_rules", "erase_rule", "stop_update"}
            \/ Active(cur["monitor"])
<1> DEFINE Goal == /\ cur'["monitor"] = cur["monitor"]
                   /\ \/ pc["monitor"] \in {"remove_rules", "erase_rule", "stop_update"}
                      \/ Active(cur["monitor"])
<1>0. /\ pc \in [Threads -> Steps["monitor"] \cup Steps["server"]]
      /\ cur \in [Threads -> JobIds \cup {Null}]
  BY DEF TypeOK, MonitorTypeOK
<1>1. Request \/ RemoveFromSchedule \/ Tick \/ UNCHANGED vars => Goal
  BY <1>0 DEF Request, ServeJobSubmission, RefuseJobSubmission, ServeJobRemove,
              RemoveFromSchedule, Tick, vars
<1>2. HandleRemovesJob \/ StartSetsRules \/ StartInsertsRules \/ StartUpdatesJob => Goal
  BY <1>0 DEF HandleRemovesJob, StartSetsRules, StartInsertsRules, StartUpdatesJob,
              AfterSetRules
<1>3. ASSUME NEW t \in Threads, StopStep(t) \/ Unblock(t)
      PROVE  Goal
  BY <1>0, <1>3 DEF StopStep, StopGetsStatus, StopRemovesRules, StopErasesRules,
                    StopUpdatesJob, AfterStop, Unblock
<1>4. PopReady \/ WaitForWork \/ HandleEnters \/ StartGetsStatus \/ StartGetsThroughput
        \/ StartGetsOsts \/ StartGetsEnd \/ StartPushesStop => Goal
  BY <1>0 DEF PopReady, WaitForWork, HandleEnters, StartGetsStatus, StartGetsThroughput,
              StartGetsOsts, StartGetsEnd, StartPushesStop
<1>5. RegisterJob \/ BlockJob \/ RemoveJobFromPrioQueue \/ UnregisterGetsStatus => Goal
  BY <1>0 DEF RegisterJob, BlockJob, RemoveJobFromPrioQueue, UnregisterGetsStatus
<1> QED
  BY <1>1, <1>2, <1>3, <1>4, <1>5, StepCases DEF StopStep

\* Rules that a scheduled job has are taken away by the server only.
LEMMA RulesStayKept ==
  ASSUME TypeOK, At("monitor", "insert_rule") => args.osts # {}, [Next]_vars, ~raced',
         NEW j \in JobIds, Scheduled(j), RulesKept(j)
  PROVE  RulesKept(j)' \/ StartWaits(j)
<1>1. ASSUME NEW t \in Threads, cur[t] = j, StopErasesRules(t)
      PROVE  StartWaits(j)
  BY <1>1 DEF StopErasesRules, RulesKept, MonitorAt, StartWaits
<1>2. HasRules(j)' \/ StartWaits(j)
  BY <1>1, RulesAfter DEF RulesKept
<1>3. ~MonitorAt(j, {"remove_rules", "erase_rule", "stop_update"})'
  BY StoppingSteps DEF MonitorAt, RulesKept, Scheduled, Active
<1> QED
  BY <1>2, <1>3 DEF RulesKept

\* Reservations have OSTs, and so has every rule definition.
LEMMA OstsStay ==
  ASSUME \A r \in Requests : r.osts # {}, TypeOK, [Next]_vars,
         \A j \in Accepted : jobs[j].osts # {}
  PROVE  \A j \in JobIds : jobs'[j] # Null => jobs'[j].osts # {}
<1>0. jobs \in [JobIds -> Job \cup {Null}]
  BY DEF TypeOK, ScheduleTypeOK
<1>1. \A j \in JobIds : jobs[j] # Null => jobs[j] \in Job /\ jobs[j].osts # {}
  BY <1>0 DEF Accepted
<1>2. CASE UNCHANGED <<jobs, schedule>>
  BY <1>1, <1>2
<1>3. ASSUME NEW id \in JobIds, NEW r \in Requests, AddsJob(id, r)
      PROVE  \A j \in JobIds : jobs'[j] # Null => jobs'[j].osts # {}
  <2>1. [BuildJob(r) EXCEPT !.state = "SCHEDULED"].osts = r.osts
    BY DEF BuildJob
  <2>2. jobs' = [jobs EXCEPT ![id] = [BuildJob(r) EXCEPT !.state = "SCHEDULED"]]
    BY <1>3 DEF AddsJob
  <2>3. jobs'[id].osts = r.osts /\ \A j \in JobIds \ {id} : jobs'[j] = jobs[j]
    BY <1>0, <2>1, <2>2
  <2> QED
    BY <1>1, <2>3
<1>4. CASE DropsJob(cur["monitor"]) \/ DropsJob(cur["server"])
  BY <1>0, <1>1, <1>4 DEF DropsJob
<1>5. ASSUME NEW id \in JobIds, NEW state \in JobState, UpdateJob(id, state)
      PROVE  \A j \in JobIds : jobs'[j] # Null => jobs'[j].osts # {}
  <2>1. /\ \A j \in JobIds \ {id} : jobs'[j] = jobs[j]
        /\ jobs[id] = Null => jobs'[id] = Null
        /\ jobs[id] # Null => jobs'[id] = [jobs[id] EXCEPT !.state = state]
    BY <1>5, UpdateJobEffect
  <2>2. jobs'[id] # Null => jobs'[id].osts = jobs[id].osts /\ jobs[id] # Null
    BY <1>1, <2>1 DEF Job
  <2> QED
    BY <1>1, <2>1, <2>2
<1>6. StartUpdatesJob => \E id \in JobIds, state \in JobState : UpdateJob(id, state)
  BY HolderHasJob DEF StartUpdatesJob, JobState
<1>7. ASSUME NEW t \in Threads, StopUpdatesJob(t)
      PROVE  \E id \in JobIds, state \in JobState : UpdateJob(id, state)
  BY <1>7, HolderHasJob DEF StopUpdatesJob, JobState
<1> QED
  BY <1>2, <1>3, <1>4, <1>5, <1>6, <1>7, JobChanges

\* StartsInv is inductive.
LEMMA StartsInvStep ==
  ASSUME "lookup" \notin Faults, "exec" \notin Faults, \A r \in Requests : r.osts # {},
         TypeOK, LifeInv, StartsInv, [LifeNext]_allVars
  PROVE  StartsInv'
<1>1. CASE InitMonitor
  <2>1. UNCHANGED <<jobs, pc, args>> /\ owner = "init"
    BY <1>1 DEF InitMonitor
  <2>2. \A j \in JobIds : Scheduled(j)' => StartWaits(j)'
    BY <1>1, InitQueues
  <2> QED
    BY <2>1, <2>2 DEF StartsInv, Accepted
<1>2. CASE [Next]_vars
  <2>1. \A j \in Accepted' : jobs'[j].osts # {}
    BY <1>2, OstsStay DEF StartsInv, Accepted
  <2>2. At("monitor", "insert_rule")' => args'.osts # {}
    BY <1>2, SettingSteps DEF StartsInv
  <2>3. ASSUME owner' # "init", ~raced', ~InitMonitor, NEW j \in JobIds, Scheduled(j)'
        PROVE  StartWaits(j)' \/ MonitorStarts(j)' \/ RulesKept(j)'
    <3>1. owner # "init" /\ ~raced
      BY <1>2, <2>3, BeforeInit, RuleChanges
    <3>2. CASE cur'["server"] = j
      BY <3>2 DEF StartWaits
    <3>3. CASE Scheduled(j)
      <4>1. StartWaits(j) \/ MonitorStarts(j) \/ RulesKept(j)
        BY <3>1, <3>3 DEF StartsInv
      <4>2. jobs[j].osts # {}
        BY <3>3 DEF StartsInv, Scheduled, Accepted
      <4>3. CASE StartWaits(j)
        BY <1>2, <2>3, <4>3, StartGoesOn
      <4>4. CASE MonitorStarts(j)
        BY <1>2, <2>3, <3>3, <4>2, <4>4, StartComesToRules
      <4>5. CASE RulesKept(j) /\ ~StartWaits(j)
        BY <1>2, <2>3, <3>3, <4>5, RulesStayKept DEF StartsInv
      <4> QED
        BY <4>1, <4>3, <4>4, <4>5
    <3> QED
      BY <1>2, <2>3, <3>2, <3>3, ScheduledBefore
  <2> QED
    BY <1>1, <2>1, <2>2, <2>3 DEF StartsInv
<1> QED
  BY <1>1, <1>2, LifeSteps

\* From Init on, and whatever comes later, nothing is SCHEDULED without a start or
\* ACTIVE without a stop ahead of it, neither a job of the schedule that was there
\* before nor one that takes over the id of another; as long as the commands are
\* sent, be they lost on their way, and reservations have OSTs.
THEOREM DueHolds ==
  ASSUME "lookup" \notin Faults, "exec" \notin Faults,
         \A r \in Requests : r.osts # {}, \A job \in ExistingJobs : job.osts # {}
  PROVE  LifeSpec => []JobsAreDue
<1> DEFINE Stops == owner # "init" => ActiveJobsHaveStop
<1>1. LifeInit => Stops /\ StartsInv
  BY DEF LifeInit, MonitorInit, StartsInv, Accepted
<1>2. TypeOK /\ LifeInv /\ StartsInv /\ [LifeNext]_allVars => StartsInv'
  BY StartsInvStep
<1>3. TypeOK /\ LifeInv /\ Stops /\ [LifeNext]_allVars => Stops'
  <2>1. InitMonitor /\ TypeOK /\ LifeInv => ActiveJobsHaveStop'
    BY InitQueues DEF ActiveJobsHaveStop
  <2>2. TypeOK /\ Stops /\ owner # "init" /\ [Next]_vars => ActiveJobsHaveStop'
    BY StopStaysDue
  <2> QED
    BY <2>1, <2>2, LifeSteps, BeforeInit
<1>4. TypeOK /\ Stops /\ StartsInv => JobsAreDue
  <2>1. \A j \in JobIds : MonitorStarts(j) \/ StartWaits(j) => StartIsDue(j)
    BY DEF MonitorStarts, StartWaits, StartIsDue, Holding, StopSteps
  <2> QED
    BY <2>1 DEF StartsInv, JobsAreDue, ActiveJobsHaveStop, Scheduled, RulesKept
<1> QED
  BY <1>1, <1>2, <1>3, <1>4, LifeTypes, LifeInvHolds, PTL DEF LifeSpec
=============================================================================
