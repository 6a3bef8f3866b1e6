------------------------------- MODULE Startup -------------------------------
(***************************************************************************)
(* The life of the planner (Planner::Init and TearDown, JobMonitor::Init   *)
(* and TearDown): the jobs a schedule brings along are queued, the monitor *)
(* thread starts, the scheduler's Init may fail, requests are served, and  *)
(* the thread is stopped and joined.  The thread that does all this is the *)
(* server's.  The exit flag is written with the queue's mutex and read     *)
(* without one, between two rounds of the monitor's loop.                  *)
(***************************************************************************)
EXTENDS Planner

CONSTANT ExistingJobs    \* a job that the schedule may hold at the start

ASSUME ExistingAssumption == ExistingJobs \subseteq Job

VARIABLES
  owner,      \* where the server's thread is in the life cycle
  monitor,    \* monitor_thread_: where it is around its loop
  active,     \* monitor_thread_is_active_
  exit_flag   \* monitor_thread_exit_flag_

lifeVars == <<owner, monitor, active, exit_flag>>
allVars  == <<vars, lifeVars>>

\* The schedule is empty, or holds one job, with its rules if it is active.
LifeInit ==
  /\ jobs \in {[j \in JobIds |-> Null]}
                \cup {[i \in JobIds |-> IF i = j THEN job ELSE Null] :
                        j \in JobIds, job \in ExistingJobs}
  /\ schedule = [o \in Osts |-> IF \E j \in Accepted : o \in jobs[j].osts
                                THEN <<LET j == CHOOSE i \in Accepted : TRUE
                                       IN  Entry(j, jobs[j])>> ELSE <<>>]
  /\ active_rules = [j \in JobIds |-> {}]
  /\ oss_rules = [ip \in Ips |-> [j \in JobIds |->
                    IF Active(j) /\ ip \in IpsOf(jobs[j].osts)
                    THEN Rate(jobs[j].osts, jobs[j].mbs, ip) ELSE Null]]
  /\ MonitorInit /\ submitted = 0 /\ removed = 0
  /\ owner = "init" /\ monitor = "none" /\ active = FALSE /\ exit_flag = FALSE

-----------------------------------------------------------------------------
\* Plausible bug: only the jobs that have not started are queued.
QueuedStates == {"SCHEDULED"}

TouchedStates == {"SCHEDULED", "ACTIVE"}

\* FillWithExistingJobs: what the job waits for.
Due(j) == IF jobs[j].state = "ACTIVE" THEN StopItem(j, jobs[j].tend)
          ELSE StartItem(j, jobs[j].tstart)

\* JobMonitor::Init.
InitMonitor ==
  /\ owner = "init"
  /\ LET touched == {j \in Accepted : jobs[j].state \in TouchedStates}
     IN  IF touched = {} THEN UNCHANGED queue
         ELSE \E j \in touched : queue' = QPush(queue, Due(j)) /\ queue' \in Queue
  /\ owner' = "started" /\ monitor' = "begin"
  /\ UNCHANGED <<now, in_flight, pc, localVars, scheduleVars, ruleVars, submitted, removed,
                 active, exit_flag>>

\* The scheduler reads the limits of the OSTs; without them Init gives up.
InitScheduler ==
  /\ owner = "started" /\ owner' = "serving"
  /\ UNCHANGED <<vars, monitor, active, exit_flag>>

\* Called when Init gives up, or by whoever has served enough.
TearDown ==
  /\ owner \in {"started", "serving"} /\ At("server", "idle")
  /\ exit_flag' = TRUE
  /\ owner' = IF active THEN "asleep" ELSE "join"
  /\ UNCHANGED <<vars, monitor, active>>

Wakes ==
  /\ owner = "woken"
  /\ owner' = IF active THEN "asleep" ELSE "join"
  /\ UNCHANGED <<vars, monitor, active, exit_flag>>

\* Plausible bug: the thread is left to itself.
Detached == TRUE

Joined == monitor = "ended"

Returns ==
  /\ owner = "join" /\ Joined /\ owner' = "down"
  /\ UNCHANGED <<vars, monitor, active, exit_flag>>

-----------------------------------------------------------------------------
Notified(at) == IF at = "asleep" THEN "woken" ELSE at

Begins ==
  /\ monitor = "begin" /\ monitor' = "test" /\ active' = TRUE
  /\ owner' = Notified(owner)
  /\ UNCHANGED <<vars, exit_flag>>

Tests ==
  /\ monitor = "test" /\ monitor' = IF exit_flag THEN "exit" ELSE "loop"
  /\ UNCHANGED <<vars, owner, active, exit_flag>>

\* No job is ready: wait_for returns after waiting_time_sec_ at the latest.
Waits ==
  /\ monitor = "loop" /\ WaitForWork /\ monitor' = "test"
  /\ UNCHANGED <<submitted, removed, owner, active, exit_flag>>

Works == monitor = "loop" /\ MonitorNext /\ UNCHANGED lifeVars

\* Plausible bug: the thread ends without a word to the one who waits.
NotNotified(at) == at

NotifiedAtExit(at) == Notified(at)

Exits ==
  /\ monitor = "exit" /\ monitor' = "ended" /\ active' = FALSE
  /\ owner' = NotifiedAtExit(owner)
  /\ UNCHANGED <<vars, exit_flag>>

-----------------------------------------------------------------------------
Serves == owner = "serving" /\ ServerNext /\ UNCHANGED lifeVars
Serving == Serves \/ InitMonitor \/ Wakes \/ Returns
Monitoring == Begins \/ Tests \/ Waits \/ Works \/ Exits

LifeNext == \/ Serving \/ Monitoring
            \/ InitScheduler \/ TearDown
            \/ owner = "serving" /\ Request /\ UNCHANGED lifeVars
            \/ Tick /\ UNCHANGED lifeVars
LifeSpec == LifeInit /\ [][LifeNext]_allVars

\* The threads run and time passes; nobody has to send requests or stop.
FairLifeSpec == LifeSpec /\ WF_allVars(Serving) /\ WF_allVars(Monitoring)
                         /\ WF_allVars(Tick /\ UNCHANGED lifeVars)

-----------------------------------------------------------------------------
\* Once TearDown has returned, and the monitor may be destroyed, its thread has
\* ended and left no job half started or half stopped, whenever TearDown was
\* called, be it before the thread was active (as JobMonitorTest.InitGetJobs does).
NothingInFlightAfterTearDown ==
  owner = "down" => monitor = "ended" /\ At("monitor", "idle") /\ in_flight = {}

\* From Init on every job waits for what comes next, also the one that was in the
\* schedule before (FillWithExistingJobs): nothing is SCHEDULED without a JOBSTART
\* or ACTIVE without a JOBSTOP in the queue or on its way to or from it.  Only a
\* job whose start has failed waits for nothing: its id has rules of an earlier one.
StartIsDue(j) ==
  \/ \E item \in QItems(queue) : item.jobid = j /\ item.eventType = "JOBSTART"
  \/ cur["monitor"] = j /\ pc["monitor"] \in Holding["monitor"] \cup {"handle"}
  \/ cur["server"] = j
JobsAreDue ==
  owner # "init" /\ ~raced => \A j \in JobIds :
     /\ Active(j) => StopIsDue(j)
     /\ jobs[j] # Null /\ jobs[j].state = "SCHEDULED" => StartIsDue(j) \/ HasRules(j)

\* TearDown returns, whatever the monitor is doing and how many jobs are ready:
\* its inner loop, which does not look at the flag, comes to an end.
TearDownReturns == owner \in {"asleep", "join"} ~> owner = "down"

\* An active reservation with an end comes to it as long as the planner serves,
\* once no more requests come and unless an endless one hides it for good: the
\* monitor compares the clock with the root of the heap alone, and the JOBSTOP of
\* an endless reservation that has got there stays until that is removed.
EndlessFirst == QPeek(queue) # Null /\ QPeek(queue).time_of_event = Forever
ServedJobsEnd ==
  \A j \in JobIds : (Active(j) /\ jobs[j].tend # Forever)
                       ~> (\/ ~Active(j) \/ []EndlessFirst
                           \/ owner \in {"asleep", "woken", "join", "down"})
=============================================================================
