---------------------------- MODULE DynScheduler ----------------------------
(***************************************************************************)
(* The scheduler that takes the limit of an OST from the cluster state     *)
(* (src/common/JobSchedulerDynWorkloads.cpp), while the cluster state is   *)
(* updated.  It reads an OST's state twice.  The planner uses the static   *)
(* scheduler instead; here one thread calls this one.                      *)
(***************************************************************************)
EXTENDS ClusterState, ScheduleState

CONSTANTS
  NewJobs,    \* the jobs it is given
  MaxListed   \* bound on the length of an OST's list, which never shrinks

ASSUME NewJobsAssumption == NewJobs \subseteq {job \in Job : job.state = "INITIALIZED"}

VARIABLE call    \* the call of ScheduleJob in progress, Null for none

schedulerVars == <<jobs, schedule, call>>
vars == <<listed, clusterVars, schedulerVars>>

\* todo: the OSTs still to check; loaded: the one whose load is known.
Call == [id : JobIds, job : NewJobs, todo : SUBSET Osts, loaded : Osts \cup {Null}]

TypeOK == ClusterTypeOK /\ ScheduleTypeOK /\ call \in Call \cup {Null}

ScheduleJobBegins(id, job) ==
  /\ call = Null
  /\ call' = [id |-> id, job |-> job, todo |-> job.osts, loaded |-> Null]
  /\ UNCHANGED <<listed, clusterVars, jobs, schedule>>

\* All of the cluster state but the read in progress.
otherVars == <<listed, ost_state, started, active, exit_flag, pc, got, raced, returned>>

\* Both reads begin alike: the mutex is taken.
ReadBegins ==
  /\ call # Null /\ call.todo # {} /\ LocksToRead
  /\ UNCHANGED <<otherVars, schedulerVars>>

\* GetMaxLoadInTimeInterval gives up on an OST for which no state is found.
ReadsLoad(o) ==
  /\ call # Null /\ o \in call.todo /\ call.loaded = Null
  /\ \E rate \in Rates \cup {Null} :
       /\ Reads(o, rate)
       /\ call' = IF rate # Null THEN [call EXCEPT !.loaded = o] ELSE Null
  /\ UNCHANGED <<otherVars, jobs, schedule>>

\* The load it returns: 0 without a list, else *maxLoadMBSec stays unassigned.
GetMaxLoadInTimeInterval(o) == IF schedule[o] = <<>> THEN {0} ELSE Mbs

\* RPCsToMBs multiplies by max_rpc_size_, which is 1.
AreEnoughResAvail(job, load, rate) == (load + job.mbs) % UintMod <= rate

\* The second read; what is enough for the load as well leads on to the next OST.
ReadsState(o) ==
  /\ call # Null /\ call.loaded = o
  /\ \E load \in GetMaxLoadInTimeInterval(o), rate \in Rates \cup {Null} :
       /\ Reads(o, rate)
       /\ call' = IF rate # Null /\ AreEnoughResAvail(call.job, load, rate)
                  THEN [call EXCEPT !.loaded = Null, !.todo = @ \ {o}] ELSE Null
  /\ UNCHANGED <<otherVars, jobs, schedule>>

\* The job stays INITIALIZED: a monitor it is registered with will not start it.
ScheduleJobEnds ==
  /\ call # Null /\ call.todo = {}
  /\ \A o \in call.job.osts : Len(schedule[o]) < MaxListed
  /\ IF jobs[call.id] = Null THEN AddJob(call.id, call.job) ELSE UNCHANGED <<jobs, schedule>>
  /\ call' = Null
  /\ UNCHANGED <<listed, clusterVars>>

RemoveScheduled(id) ==
  /\ call = Null /\ jobs[id] # Null
  /\ RemoveJob(id)
  /\ UNCHANGED <<listed, clusterVars, call>>

ReadEnds  == \E o \in Osts : ReadsLoad(o) \/ ReadsState(o)
Scheduler == \/ \E id \in JobIds, job \in NewJobs : ScheduleJobBegins(id, job)
             \/ ReadBegins
             \/ ReadEnds
             \/ ScheduleJobEnds
             \/ \E id \in JobIds : RemoveScheduled(id)

InitAll == ClusterInit /\ ScheduleInit /\ call = Null
Next    == (ClusterNext /\ UNCHANGED schedulerVars) \/ Scheduler
Spec    == InitAll /\ [][Next]_vars

\* The threads run: the updater, an owner in a call and a scheduler that holds
\* the mutex.  Reads go on for ever, so that a mutex that is free again and again
\* has to be given to those who wait for it.
FairSpec == Spec /\ SF_vars(Updater /\ UNCHANGED schedulerVars)
                 /\ SF_vars(Owner /\ UNCHANGED schedulerVars)
                 /\ WF_vars(ReadEnds)

-----------------------------------------------------------------------------
\* What a read of ScheduleJob has found stays in the map, also when lfs fails in
\* silence, so that the second read of an OST finds it again unless UpdateNode
\* inserts another one meanwhile; and what such a torn read gets makes the
\* scheduler refuse jobs, never accept one for an OST that is not known: those
\* with a reservation are and stay known.  Until an UpdateNode ran into a write
\* of the map, which may lose anything.
KnownOstsStay ==
  ~raced => /\ call # Null /\ call.loaded # Null =>
                 /\ ost_state[call.loaded] # Null
                 /\ reading # "torn" => Null \notin MayRead(call.loaded)
            /\ \A j \in Accepted : \A o \in jobs[j].osts : ost_state[o] # Null

\* Once TearDown has returned, and the object may be destroyed, its thread has
\* ended, whenever TearDown was called: before Init, before the thread became
\* active, in the middle of an update (TearDown waits and joins).
NoThreadLeft == returned => pc["updater"] \in {"none", "ended"}

\* TearDown returns: no wait without a notification to come, no join of a thread
\* that goes on.
TearDownReturns == pc["owner"] \in {"asleep", "join"} ~> pc["owner"] = "idle"
=============================================================================
