------------------------------- MODULE Planner -------------------------------
(***************************************************************************)
(* The planner (src/common/Planner.cpp): the server thread that accepts    *)
(* and removes reservations, the monitor thread that starts and stops      *)
(* them, the schedule and the rule manager they share, and the clock.      *)
(***************************************************************************)
EXTENDS JobMonitor

CONSTANTS
  Requests,         \* the resource requests: OSTs of the files, MB/s, duration
  MaxSubmissions,   \* bound on the accepted reservations
  MaxRemovals       \* bound on the delete requests

ASSUME RequestsAssumption == Requests \subseteq [osts : SUBSET Osts, mbs : Mbs, dur : Nat]
ASSUME BoundsAssumption   == MaxSubmissions \in Nat /\ MaxRemovals \in Nat

VARIABLES submitted, removed    \* how many requests of each kind there were

vars == <<jobs, schedule, active_rules, oss_rules, now, queue, in_flight, pc,
          cur, event, args, start_at, raced, submitted, removed>>

Init == /\ ScheduleInit /\ RulesInit /\ MonitorInit
        /\ submitted = 0 /\ removed = 0

\* Plausible bug: the duration of an endless job is added to time_point::max().
BuildJobOverflows(r) == [state |-> "INITIALIZED", tstart |-> now,
                         tend |-> IF r.dur > 0 THEN now + r.dur ELSE Forever + now,
                         osts |-> r.osts, mbs |-> r.mbs]

\* A duration of 0 is one without end.
BuildJob(r) == [state |-> "INITIALIZED", tstart |-> now,
                tend |-> IF r.dur > 0 THEN now + r.dur ELSE Forever,
                osts |-> r.osts, mbs |-> r.mbs]

\* Bound: the clock goes on until every reservation that ends has ended.
EndsInTime(r) == now < MaxTime /\ now + r.dur < MaxTime

\* ServeJobSubmission of an accepted request, up to RegisterJob.  The files'
\* OSTs are found; a request without files, or with a file that is not found,
\* changes nothing and is refused like one that does not fit.
ServeJobSubmission(id, r) ==
  /\ At("server", "idle")
  /\ submitted < MaxSubmissions /\ EndsInTime(r)
  /\ ScheduleJob(id, BuildJob(r))
  /\ Goto("server", "register")
  /\ cur' = [cur EXCEPT !["server"] = id] /\ start_at' = now
  /\ submitted' = submitted + 1
  /\ UNCHANGED <<now, queue, in_flight, event, args, ruleVars, removed>>

RefuseJobSubmission(id, r) ==
  /\ At("server", "idle")
  /\ EndsInTime(r)
  /\ RefuseJob(id, BuildJob(r))
  /\ UNCHANGED vars

\* ServeJobRemove takes the ids of a request one after the other: each is
\* unregistered and then removed from the schedule.
ServeJobRemove(id) ==
  /\ At("server", "idle")
  /\ removed < MaxRemovals
  /\ Goto("server", "block")
  /\ cur' = [cur EXCEPT !["server"] = id]
  /\ removed' = removed + 1
  /\ UNCHANGED <<now, queue, in_flight, event, args, start_at, scheduleVars, ruleVars, submitted>>

RemoveFromSchedule ==
  /\ At("server", "remove_job")
  /\ RemoveJob(cur["server"])
  /\ Goto("server", "idle")
  /\ cur' = [cur EXCEPT !["server"] = Null]
  /\ UNCHANGED <<now, queue, in_flight, event, args, start_at, ruleVars, submitted, removed>>

Tick == /\ now < MaxTime
        /\ now' = now + 1
        /\ UNCHANGED <<queue, in_flight, pc, localVars, scheduleVars, ruleVars, submitted, removed>>

Request == \E id \in JobIds :
             \/ \E r \in Requests : ServeJobSubmission(id, r) \/ RefuseJobSubmission(id, r)
             \/ ServeJobRemove(id)

MonitorNext == MonitorStep /\ UNCHANGED <<submitted, removed>>
ServerNext  == \/ (RegisterJob \/ UnregisterStep) /\ UNCHANGED <<submitted, removed>>
               \/ RemoveFromSchedule

Next == \/ Request \/ ServerNext \/ MonitorNext \/ Tick
        \/ WaitForWork /\ UNCHANGED <<submitted, removed>>

Spec == Init /\ [][Next]_vars

\* Both threads run and time passes; nobody has to send a request.
Fairness == WF_vars(MonitorNext) /\ WF_vars(ServerNext) /\ WF_vars(Tick)
FairSpec == Spec /\ Fairness

-----------------------------------------------------------------------------
\* The variables have the values the code can give them: the schedule holds
\* jobs, the queue waiting items, each thread is at a step of its own code and
\* works on a job unless it waits for one (types of the members and locals).
TypeOK == /\ ScheduleTypeOK /\ RulesTypeOK /\ MonitorTypeOK
          /\ submitted \in 0 .. MaxSubmissions /\ removed \in 0 .. MaxRemovals

\* in_flight_jobs_ is exactly the jobs that a thread holds, and the threads
\* never hold the same one: UnregisterJob and Handle do not process the same
\* job at the same time (JobMonitor.h:69-72), and no job stays blocked.
Holds(t) == pc[t] \in Holding[t]
InFlightExclusion ==
  /\ in_flight = {cur[t] : t \in {u \in Threads : Holds(u)}}
  /\ Holds("monitor") /\ Holds("server") => cur["monitor"] # cur["server"]

\* An active job has a definition in active_rules_ until the thread that stops
\* it has erased it, so that StopJob finds something to remove: no interleaving
\* of starting, stopping and removing leaves an ACTIVE job whose rules nobody
\* could take away (StartJob's order of SetNrsRules and UpdateJob, StopJob's of
\* RemoveRules and UpdateJob).  Only the race on active_rules_ can break it.
ActiveJobsHaveRules ==
  ~raced => \A j \in JobIds :
     Active(j) => HasRules(j) \/ \E t \in Threads : cur[t] = j /\ At(t, "stop_update")

\* No reservation stays active for want of a stop: whenever a job is ACTIVE its
\* JOBSTOP waits in the queue, or a thread is about to queue it, or one is on
\* its way to stop the job (StartJob's push, Handle, RemoveJobFromPrioQueue
\* followed by StopJob in UnregisterJob).
StopIsDue(j) ==
  \/ \E item \in QItems(queue) : item.jobid = j /\ item.eventType = "JOBSTOP"
  \/ /\ cur["monitor"] = j
     /\ \/ pc["monitor"] \in {"start_end", "start_push"} \cup StopSteps
        \/ At("monitor", "handle") /\ event = "JOBSTOP"
  \/ cur["server"] = j /\ pc["server"] \in {"unreg_status"} \cup StopSteps
ActiveJobsHaveStop == \A j \in JobIds : Active(j) => StopIsDue(j)

\* A reservation's state only advances: UpdateJob, which sets whatever it is
\* given, never makes an active job scheduled or a finished one active again,
\* and nothing else of a job changes before it is removed.
Rank == [INITIALIZED |-> 0, SCHEDULED |-> 1, ACTIVE |-> 2, DONE |-> 3]
JobsOnlyAdvance ==
  [][\A j \in JobIds : jobs[j] # Null /\ jobs'[j] # Null =>
        /\ Rank[jobs[j].state] <= Rank[jobs'[j].state]
        /\ jobs'[j] = [jobs[j] EXCEPT !.state = jobs'[j].state]]_vars

\* "The JobMonitor module ensures that Lustre is configured according to the
\* schedule" (design.tex:113): outside of the processing of a job, the OSSs have
\* rules for it, with its throughput, exactly where it is active.
LustreFollowsSchedule ==
  \A j \in JobIds \ in_flight : \A ip \in Ips :
     oss_rules[ip][j] = IF Active(j) /\ ip \in IpsOf(jobs[j].osts)
                        THEN Rate(jobs[j].osts, jobs[j].mbs, ip) ELSE Null

\* "The Monitor then performs the actions at the defined times" (JobMonitor.h:
\* 47-48): it takes a job out of the schedule only once its end has come, be it
\* that the client has given the same id to a reservation before.
StopsNotBeforeEnd ==
  [][HandleRemovesJob /\ jobs[cur["monitor"]] # Null =>
        jobs[cur["monitor"]].tend < now]_vars

\* Every request is answered: the server thread is never blocked for good on
\* a job in flight (the loops on in_flight_jobs_cv_).
ServerReturns == ~At("server", "idle") ~> At("server", "idle")

\* "The JobMonitor tracks the time points when NRS settings for a given job
\* should be set or unset" (JobMonitor.h:47-48): a scheduled reservation whose
\* start has passed leaves the state SCHEDULED.
ScheduledJobsStart ==
  \A j \in JobIds : (jobs[j] # Null /\ jobs[j].state = "SCHEDULED")
                      ~> (jobs[j] = Null \/ jobs[j].state # "SCHEDULED")

-----------------------------------------------------------------------------
\* A reservation as its client sees it.
TermsOf(job) == [start |-> job.tstart, end |-> job.tend, osts |-> job.osts, mbs |-> job.mbs]

RulesFor(t) == [ip \in Ips |-> IF ip \in IpsOf(t.osts) THEN Rate(t.osts, t.mbs, ip) ELSE Null]

Enforced(j) == \E ip \in Ips : oss_rules[ip][j] # Null
PhaseOf(j) == IF jobs[j] = Null THEN "free" ELSE IF Enforced(j) THEN "enforced"
              ELSE IF jobs[j].state = "SCHEDULED" THEN "granted" ELSE "released"

Service == INSTANCE ReservationService WITH
  Ids <- JobIds, Nothing <- Null, NoRules <- [ip \in Ips |-> Null], RulesOf <- RulesFor,
  Terms <- [start : Time, end : Time, osts : SUBSET Osts, mbs : Mbs],
  clock <- now,
  phase <- [j \in JobIds |-> PhaseOf(j)],
  terms <- [j \in JobIds |-> IF jobs[j] = Null THEN Null ELSE TermsOf(jobs[j])],
  rules <- [j \in JobIds |-> [ip \in Ips |-> oss_rules[ip][j]]]

\* README.md:3 promises that "the user really sees this reserved performance":
\* with the two threads, the queue and one step for each call in between, every
\* granted reservation is enforced, released and forgotten in this order, each
\* once, completely and not before its time, and the id may then be given again
\* at once (StartJob, StopJob, Handle and RegisterJob together).
ImplementsService == Service!Safety

\* And none is left waiting: what is due on the side of the reservation is done
\* (the monitor's loop over the queue, and the stop that StartJob queues).
ServesWhatIsDue == Service!Liveness
=============================================================================
