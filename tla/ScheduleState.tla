---------------------------- MODULE ScheduleState ----------------------------
(***************************************************************************)
(* The in-memory schedule (src/common/MemoryScheduleState.cpp): a map of   *)
(* the accepted jobs and, for every OST, the list of jobs sorted by their  *)
(* start.  Each method holds schedule_mut_ from its first line to its      *)
(* last, so each is one atomic step.                                       *)
(***************************************************************************)
EXTENDS JobTypes

VARIABLES
  jobs,       \* jobs_: id -> Job, Null where the map has no such id
  schedule    \* schedule_: OST -> list of jobs, <<>> where the map has no OST

\* The part of a listed Job that GetOSTState's caller reads.
Listed == [id : JobIds, tstart : Time, tend : Time, mbs : Mbs]

Accepted == {j \in JobIds : jobs[j] # Null}
Active(j) == jobs[j] # Null /\ jobs[j].state = "ACTIVE"

ScheduleTypeOK == /\ jobs \in [JobIds -> Job \cup {Null}]
                  /\ schedule \in [Osts -> Seq(Listed)]

ScheduleInit == /\ jobs = [j \in JobIds |-> Null]
                /\ schedule = [o \in Osts |-> <<>>]

Entry(id, job) == [id |-> id, tstart |-> job.tstart, tend |-> job.tend, mbs |-> job.mbs]

\* Plausible bug: the search for the insertion point is left out.
InsertSortedAppends(list, e) == Append(list, e)

\* The new entry goes before the first one that starts later, or to the end.
InsertAt(list, e) ==
  CHOOSE p \in 1 .. Len(list) + 1 : /\ \A i \in 1 .. p - 1 : list[i].tstart <= e.tstart
                                    /\ p <= Len(list) => e.tstart < list[p].tstart
InsertSorted(list, e) ==
  LET p == InsertAt(list, e)
  IN  [k \in 1 .. Len(list) + 1 |-> IF k < p THEN list[k] ELSE IF k = p THEN e ELSE list[k - 1]]

\* Plausible bug: the job reaches the list of one of its OSTs only.
AddJobListsOnce(id, job) ==
  /\ jobs[id] = Null
  /\ jobs' = [jobs EXCEPT ![id] = job]
  /\ LET o == CHOOSE x \in job.osts : TRUE
     IN  schedule' = IF job.osts = {} THEN schedule
                     ELSE [schedule EXCEPT ![o] = InsertSorted(@, Entry(id, job))]

\* Plausible bug: the id is not looked up before the job is stored.
AddJobOverwrites(id, job) ==
  /\ jobs' = [jobs EXCEPT ![id] = job]
  /\ schedule' = [o \in Osts |->
                    IF o \in job.osts THEN InsertSorted(schedule[o], Entry(id, job))
                                      ELSE schedule[o]]

\* AddJob where it returns true; with the id taken it changes nothing.
AddJob(id, job) ==
  /\ jobs[id] = Null
  /\ jobs' = [jobs EXCEPT ![id] = job]
  /\ schedule' = [o \in Osts |->
                    IF o \in job.osts THEN InsertSorted(schedule[o], Entry(id, job))
                                      ELSE schedule[o]]

\* RemoveJob erases the job from *copies* of the lists (ost_job_list is a
\* value, not a reference): the lists themselves stay as they are.
RemoveJob(id) == /\ jobs' = [jobs EXCEPT ![id] = Null]
                 /\ UNCHANGED schedule

\* UpdateJob sets the state of a job that exists, whatever state it was in.
UpdateJob(id, state) ==
  /\ jobs' = IF jobs[id] = Null THEN jobs ELSE [jobs EXCEPT ![id].state = state]
  /\ UNCHANGED schedule

Reset == /\ jobs' = [j \in JobIds |-> Null]
         /\ schedule' = [o \in Osts |-> <<>>]

-----------------------------------------------------------------------------
\* The lists are sorted by start time, whatever the order in which jobs are
\* accepted, removed and accepted again ("the sorted list of of jobs for that
\* ost", MemoryScheduleState.h:39; insertion loop of AddJob).
ListsSorted ==
  \A o \in Osts : \A a, b \in 1 .. Len(schedule[o]) :
     a < b => schedule[o][a].tstart <= schedule[o][b].tstart

\* Admission control cannot overlook a reservation: every accepted job is in
\* the list of every OST it uses, with its current interval and throughput
\* (AddJob, and RemoveJob of an earlier job with the same id).
JobsAreListed ==
  \A j \in Accepted : \A o \in jobs[j].osts :
     \E k \in 1 .. Len(schedule[o]) : schedule[o][k] = Entry(j, jobs[j])
=============================================================================
