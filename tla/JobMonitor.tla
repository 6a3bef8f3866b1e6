----------------------------- MODULE JobMonitor -----------------------------
(***************************************************************************)
(* The job monitor (src/common/JobMonitor.cpp) and the steps of the two    *)
(* threads that run its code: "monitor", the thread of Monitor(), and      *)
(* "server", the one that serves requests and calls RegisterJob and        *)
(* UnregisterJob.  pc says what a thread does next; between two steps it   *)
(* holds none of the mutexes, so the other thread may take any number of   *)
(* steps there.  in_flight_jobs_ is what the threads hold across steps.    *)
(***************************************************************************)
EXTENDS JobScheduler, RuleManager, QueueContract

ASSUME QueueAssumption == Contract
ASSUME ItemAssumption == Null \notin WaitingItem /\ Null \notin JobEvent

VARIABLES
  now,          \* system_clock::now()
  queue,        \* job_priority_queue_
  in_flight,    \* in_flight_jobs_
  pc,           \* thread -> its next step
  cur,          \* thread -> the job it works on, Null when it works on none
  event,        \* monitor: eventType of the popped item
  args,         \* monitor: the locals of StartJob and SetNrsRules
  start_at,     \* server: GetStartTime() of the job to register
  raced         \* the threads have accessed active_rules_ at the same time

Threads == {"monitor", "server"}

scheduleVars == <<jobs, schedule>>
ruleVars     == <<active_rules, oss_rules, raced>>
localVars    == <<cur, event, args, start_at>>

NoArgs == [mbs |-> 0, osts |-> {}, tend |-> 0]

StopSteps == {"stop_status", "remove_rules", "erase_rule", "stop_update"}
\* The steps at which a thread has its job in in_flight_jobs_.
Holding == [monitor |-> StopSteps \cup {"start_status", "start_throughput", "start_osts",
                          "set_rules", "insert_rule", "start_update", "start_end",
                          "start_push", "remove_job", "unblock"},
            server  |-> StopSteps \cup {"dequeue", "unreg_status", "unblock"}]
Steps   == [monitor |-> Holding["monitor"] \cup {"idle", "handle"},
            server  |-> Holding["server"] \cup {"idle", "register", "block", "remove_job"}]

At(t, step)   == pc[t] = step
Goto(t, step) == pc' = [pc EXCEPT ![t] = step]

\* A thread works on a job unless it waits for one.
MonitorTypeOK ==
  /\ now \in 0 .. MaxTime /\ queue \in Queue /\ in_flight \subseteq JobIds
  /\ pc \in [Threads -> Steps["monitor"] \cup Steps["server"]]
  /\ pc["monitor"] \in Steps["monitor"] /\ pc["server"] \in Steps["server"]
  /\ cur \in [Threads -> JobIds \cup {Null}]
  /\ \A t \in Threads : At(t, "idle") <=> cur[t] = Null
  /\ event \in JobEvent \cup {Null} /\ (At("monitor", "idle") <=> event = Null)
  /\ args \in [mbs : Mbs, osts : SUBSET Osts, tend : Time] /\ start_at \in Time
  /\ raced \in BOOLEAN

MonitorInit ==
  /\ now = 0 /\ queue = EmptyQueue /\ in_flight = {}
  /\ pc = [t \in Threads |-> "idle"]
  /\ cur = [t \in Threads |-> Null]
  /\ event = Null /\ args = NoArgs /\ start_at = 0
  /\ raced = FALSE

-----------------------------------------------------------------------------
(* active_rules_ has no mutex.  Two steps that access it race when both are *)
(* about to be taken and one of them writes: the find then may miss the     *)
(* entry, the write may be lost.  (It may also crash the planner, after     *)
(* which there is nothing left to say.)                                     *)
MapWrites   == {"insert_rule", "erase_rule"}
MapAccesses == MapWrites \cup {"set_rules", "remove_rules"}
Races(t) == \E u \in Threads \ {t} : /\ pc[u] \in MapAccesses
                                     /\ pc[t] \in MapWrites \/ pc[u] \in MapWrites
Find(t, id) == {HasRules(id)} \cup IF Races(t) THEN {FALSE} ELSE {}
NotesRace(t) == raced' = (raced \/ Races(t))

-----------------------------------------------------------------------------
(* Blocking a job: waiting until the other thread does not process it.     *)

\* Plausible bug: the wait for the other thread to finish with the job is left out.
EnterWithoutWait(t) == in_flight' = in_flight \cup {cur[t]}

Enter(t) == cur[t] \notin in_flight /\ in_flight' = in_flight \cup {cur[t]}

\* Plausible bug: the job is not erased from in_flight_jobs_.
LeaveBlocked(t) == UNCHANGED in_flight

Leave(t) == in_flight' = in_flight \ {cur[t]}

\* Handle lets the next waiting job in once it is through with its own; the
\* monitor thread has then no item in hand, the server goes on in ServeJobRemove.
Unblock(t) ==
  /\ At(t, "unblock")
  /\ Leave(t)
  /\ IF t = "monitor"
     THEN /\ Goto(t, "idle")
          /\ cur' = [cur EXCEPT ![t] = Null]
          /\ event' = Null /\ args' = NoArgs
     ELSE Goto(t, "remove_job") /\ UNCHANGED <<cur, event, args>>
  /\ UNCHANGED <<now, queue, start_at, scheduleVars, ruleVars>>

-----------------------------------------------------------------------------
(* The monitor thread's loop.                                              *)

\* Plausible bugs: the comparison with the clock is missing, or is turned round.
isThereAnyJob == QPeek(queue) # Null
isThereAFutureJob == QPeek(queue) # Null /\ QPeek(queue).time_of_event > now

isThereAReadyJob == QPeek(queue) # Null /\ QPeek(queue).time_of_event < now

PopReady ==
  /\ At("monitor", "idle") /\ isThereAReadyJob
  /\ queue' = QPop(queue)
  /\ cur' = [cur EXCEPT !["monitor"] = QPeek(queue).jobid]
  /\ event' = QPeek(queue).eventType
  /\ Goto("monitor", "handle")
  /\ UNCHANGED <<now, in_flight, args, start_at, scheduleVars, ruleVars>>

\* job_priority_queue_cv_.wait_for: until notified or for waiting_time_sec_.
WaitForWork ==
  /\ At("monitor", "idle") /\ ~isThereAReadyJob
  /\ UNCHANGED <<now, queue, in_flight, pc, localVars, scheduleVars, ruleVars>>

HandleEnters ==
  /\ At("monitor", "handle")
  /\ Enter("monitor")
  /\ Goto("monitor", IF event = "JOBSTART" THEN "start_status" ELSE "stop_status")
  /\ UNCHANGED <<now, queue, localVars, scheduleVars, ruleVars>>

\* Handle after StopJob, whatever it returned and whatever job has the id now.
HandleRemovesJob ==
  /\ At("monitor", "remove_job")
  /\ RemoveJob(cur["monitor"])
  /\ Goto("monitor", "unblock")
  /\ UNCHANGED <<now, queue, in_flight, localVars, ruleVars>>

-----------------------------------------------------------------------------
(* StartJob.  Each question to the schedule is a call of its own.          *)

StartGetsStatus ==
  /\ At("monitor", "start_status")
  /\ LET job == jobs[cur["monitor"]]
     IN  Goto("monitor", IF job # Null /\ job.state = "SCHEDULED"
                         THEN "start_throughput" ELSE "unblock")
  /\ UNCHANGED <<now, queue, in_flight, localVars, scheduleVars, ruleVars>>

StartGetsThroughput ==
  /\ At("monitor", "start_throughput")
  /\ LET job == jobs[cur["monitor"]]
     IN  IF job = Null THEN Goto("monitor", "unblock") /\ UNCHANGED args
         ELSE Goto("monitor", "start_osts") /\ args' = [args EXCEPT !.mbs = job.mbs]
  /\ UNCHANGED <<now, queue, in_flight, cur, event, start_at, scheduleVars, ruleVars>>

\* The result of GetJobOstIds is ignored: no job, no OSTs.
StartGetsOsts ==
  /\ At("monitor", "start_osts")
  /\ LET job == jobs[cur["monitor"]]
     IN  args' = [args EXCEPT !.osts = IF job = Null THEN {} ELSE job.osts]
  /\ Goto("monitor", "set_rules")
  /\ UNCHANGED <<now, queue, in_flight, cur, event, start_at, scheduleVars, ruleVars>>

\* Plausible bug: StartJob goes on when the rules could not be set.
AfterSetRulesRegardless(ok) == IF ok THEN "insert_rule" ELSE "start_update"

AfterSetRules(ok) == IF ok THEN "insert_rule" ELSE "unblock"

StartSetsRules ==
  /\ At("monitor", "set_rules")
  /\ \E found \in Find("monitor", cur["monitor"]), ips_found \in IpsFound :
       IF SetRulesProceeds(args.osts, found) /\ ips_found
       THEN \E ok \in BOOLEAN :
              /\ SetRulesAsync(cur["monitor"], args.osts, args.mbs, ok)
              /\ Goto("monitor", AfterSetRules(ok))
       ELSE Goto("monitor", AfterSetRules(FALSE)) /\ UNCHANGED oss_rules
  /\ NotesRace("monitor")
  /\ UNCHANGED <<now, queue, in_flight, localVars, scheduleVars, active_rules>>

StartInsertsRules ==
  /\ At("monitor", "insert_rule")
  /\ \/ InsertRules(cur["monitor"], args.osts)
     \/ Races("monitor") /\ UNCHANGED active_rules
  /\ NotesRace("monitor")
  /\ Goto("monitor", "start_update")
  /\ UNCHANGED <<now, queue, in_flight, localVars, scheduleVars, oss_rules>>

StartUpdatesJob ==
  /\ At("monitor", "start_update")
  /\ UpdateJob(cur["monitor"], "ACTIVE")
  /\ Goto("monitor", IF jobs[cur["monitor"]] = Null THEN "unblock" ELSE "start_end")
  /\ UNCHANGED <<now, queue, in_flight, localVars, ruleVars>>

StartGetsEnd ==
  /\ At("monitor", "start_end")
  /\ LET job == jobs[cur["monitor"]]
     IN  IF job = Null THEN Goto("monitor", "unblock") /\ UNCHANGED args
         ELSE Goto("monitor", "start_push") /\ args' = [args EXCEPT !.tend = job.tend]
  /\ UNCHANGED <<now, queue, in_flight, cur, event, start_at, scheduleVars, ruleVars>>

\* Plausible bug: the event that was handled is queued again.
StopItemStarts(id, tend) == [jobid |-> id, time_of_event |-> tend, eventType |-> "JOBSTART"]

StopItem(id, tend) == [jobid |-> id, time_of_event |-> tend, eventType |-> "JOBSTOP"]

StartPushesStop ==
  /\ At("monitor", "start_push")
  /\ queue' = QPush(queue, StopItem(cur["monitor"], args.tend))
  /\ queue' \in Queue
  /\ Goto("monitor", "unblock")
  /\ UNCHANGED <<now, in_flight, localVars, scheduleVars, ruleVars>>

-----------------------------------------------------------------------------
(* StopJob, which both threads run; afterwards Handle removes the job from *)
(* the schedule and UnregisterJob unblocks it.                             *)

\* Plausible bug: Handle leaves the job that has ended in the schedule.
AfterStopKept == [monitor |-> "unblock", server |-> "unblock"]

AfterStop == [monitor |-> "remove_job", server |-> "unblock"]

StopGetsStatus(t) ==
  /\ At(t, "stop_status")
  /\ Goto(t, IF Active(cur[t]) THEN "remove_rules" ELSE AfterStop[t])
  /\ UNCHANGED <<now, queue, in_flight, localVars, scheduleVars, ruleVars>>

StopRemovesRules(t) ==
  /\ At(t, "remove_rules")
  /\ \E found \in Find(t, cur[t]) :
       IF found THEN RemoveRulesAsync(cur[t]) /\ Goto(t, "erase_rule")
                ELSE UNCHANGED oss_rules /\ Goto(t, "stop_update")
  /\ NotesRace(t)
  /\ UNCHANGED <<now, queue, in_flight, localVars, scheduleVars, active_rules>>

StopErasesRules(t) ==
  /\ At(t, "erase_rule")
  /\ EraseRules(cur[t]) \/ (Races(t) /\ UNCHANGED active_rules)
  /\ NotesRace(t)
  /\ Goto(t, "stop_update")
  /\ UNCHANGED <<now, queue, in_flight, localVars, scheduleVars, oss_rules>>

StopUpdatesJob(t) ==
  /\ At(t, "stop_update")
  /\ UpdateJob(cur[t], "DONE")
  /\ Goto(t, AfterStop[t])
  /\ UNCHANGED <<now, queue, in_flight, localVars, ruleVars>>

StopStep(t) == StopGetsStatus(t) \/ StopRemovesRules(t) \/ StopErasesRules(t) \/ StopUpdatesJob(t)

-----------------------------------------------------------------------------
(* RegisterJob and UnregisterJob, called by the server thread.             *)

StartItem(id, tstart) == [jobid |-> id, time_of_event |-> tstart, eventType |-> "JOBSTART"]

RegisterJob ==
  /\ At("server", "register")
  /\ queue' = QPush(queue, StartItem(cur["server"], start_at))
  /\ queue' \in Queue
  /\ Goto("server", "idle")
  /\ cur' = [cur EXCEPT !["server"] = Null] /\ start_at' = 0
  /\ UNCHANGED <<now, in_flight, event, args, scheduleVars, ruleVars>>

BlockJob ==
  /\ At("server", "block")
  /\ Enter("server")
  /\ Goto("server", "dequeue")
  /\ UNCHANGED <<now, queue, localVars, scheduleVars, ruleVars>>

RemoveJobFromPrioQueue ==
  /\ At("server", "dequeue")
  /\ queue' = QRemove(queue, cur["server"])
  /\ Goto("server", "unreg_status")
  /\ UNCHANGED <<now, in_flight, localVars, scheduleVars, ruleVars>>

\* Plausible bug: an active job is unregistered like one that has not started.
UnregisterSkipsStop ==
  /\ At("server", "unreg_status")
  /\ Goto("server", "unblock")
  /\ UNCHANGED <<now, queue, in_flight, localVars, scheduleVars, ruleVars>>

UnregisterGetsStatus ==
  /\ At("server", "unreg_status")
  /\ Goto("server", IF Active(cur["server"]) THEN "stop_status" ELSE "unblock")
  /\ UNCHANGED <<now, queue, in_flight, localVars, scheduleVars, ruleVars>>

-----------------------------------------------------------------------------
MonitorStep ==
  \/ PopReady \/ HandleEnters
  \/ StartGetsStatus \/ StartGetsThroughput \/ StartGetsOsts \/ StartSetsRules
  \/ StartInsertsRules \/ StartUpdatesJob \/ StartGetsEnd \/ StartPushesStop
  \/ StopStep("monitor") \/ HandleRemovesJob \/ Unblock("monitor")

UnregisterStep ==
  \/ BlockJob \/ RemoveJobFromPrioQueue \/ UnregisterGetsStatus
  \/ StopStep("server") \/ Unblock("server")
=============================================================================
