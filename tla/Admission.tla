------------------------------ MODULE Admission ------------------------------
(***************************************************************************)
(* The scheduler with its schedule as a component of its own: ScheduleJob  *)
(* is called with jobs in any order of their start times, and the other    *)
(* components remove jobs or reset the schedule at any moment              *)
(* (src/common/JobSchedulerStaticWorkloads.cpp, MemoryScheduleState.cpp).  *)
(***************************************************************************)
EXTENDS JobScheduler
LOCAL FX == INSTANCE FiniteSetsExt

CONSTANT NewJobs    \* the jobs the scheduler is given, not yet scheduled

ASSUME NewJobsAssumption ==
  NewJobs \subseteq {job \in Job : job.state = "INITIALIZED" /\ job.tstart <= job.tend}

vars == <<jobs, schedule>>
Next == \/ \E id \in JobIds, job \in NewJobs : ScheduleJob(id, job)
        \/ \E id \in JobIds, job \in NewJobs :
              RefuseJob(id, job) /\ UNCHANGED vars
        \/ \E id \in JobIds : RemoveJob(id)
        \/ Reset
Spec == ScheduleInit /\ [][Next]_vars

\* What the accepted jobs on an OST may ask of it together at instant t.
LoadAt(o, t) ==
  FX!MapThenSumSet(LAMBDA j : jobs[j].mbs,
    {j \in Accepted : o \in jobs[j].osts /\ jobs[j].tstart <= t /\ t <= jobs[j].tend})

\* The planner's promise (README.md:3, "check whether these are available and,
\* if so, ensure that the user really sees this reserved performance"): at no
\* instant do the accepted reservations of an OST exceed its limit.
NoOvercommit ==
  \A o \in Osts : \A t \in Time :
     LoadAt(o, t) <= IF Limits[o] = Null THEN 0 ELSE Limits[o]
=============================================================================
