---------------------------- MODULE ClusterProofs ----------------------------
(***************************************************************************)
(* Proofs about the cluster state, its thread and the scheduler that reads *)
(* it, for every Lustre and every rate.                                    *)
(***************************************************************************)
EXTENDS DynScheduler, ScheduleProofs

-----------------------------------------------------------------------------
(* Type correctness.                                                       *)

\* Each step of the cluster state keeps its type.
LEMMA ClusterStepType ==
  ASSUME ClusterTypeOK, ClusterNext
  PROVE  ClusterTypeOK'
<1> USE DEF ClusterTypeOK, Actors, OwnerSteps, UpdaterSteps, At, Goes, clusterVars
<1>1. ASSUME NEW a \in Actors, Asks(a)
      PROVE  ClusterTypeOK'
  <2>1. \A answer \in GetOstList : answer.out \subseteq Osts
    BY DEF GetOstList, Popen
  <2>2. /\ got' = got \/ \E osts \in SUBSET Osts : got' = [got EXCEPT ![a] = osts]
        /\ Goes(a, "lock") \/ Goes(a, IF a = "owner" THEN "idle" ELSE "test")
        /\ UNCHANGED <<listed, ost_state, started, active, exit_flag, raced, reading, returned>>
    BY <1>1, <2>1 DEF Asks
  <2>3. got' \in [Actors -> SUBSET Osts]
    BY <2>2
  <2> QED
    BY <2>2, <2>3
<1>2. ASSUME NEW a \in Actors, Writes(a)
      PROVE  ClusterTypeOK'
  <2>1. Written(got[a]) \in [Osts -> Rates \cup {Null}]
    BY RatesAssumption DEF Written, UpdatedRate
  <2>2. ost_state' \in [Osts -> Rates \cup {Null}] /\ got' \in [Actors -> SUBSET Osts]
    BY <1>2, <2>1 DEF Writes
  <2>3. CASE a = "updater"
    BY <1>2, <2>2, <2>3 DEF Writes
  <2>4. CASE a = "owner"
    <3>1. /\ pc' = At("idle", IF started THEN pc["updater"] ELSE "begin")
          /\ started' = TRUE
          /\ UNCHANGED <<listed, active, exit_flag, raced, reading, returned>>
      BY <1>2, <2>4 DEF Writes
    <3> QED
      BY <2>2, <3>1
  <2> QED
    BY <2>3, <2>4
<1>3. ASSUME NEW a \in Actors, Locks(a)
      PROVE  ClusterTypeOK'
  BY <1>3 DEF Locks
<1>4. CASE Begins \/ Tests \/ Exits
  BY <1>4 DEF Begins, Tests, Exits, Notified, NotifiedAtExit
<1>5. CASE Init \/ TearDown \/ Wakes \/ Returns
  <2>1. /\ UNCHANGED <<listed, ost_state, started, active, got, raced, reading>>
        /\ exit_flag' \in BOOLEAN /\ returned' \in BOOLEAN
        /\ \E where \in OwnerSteps : Goes("owner", where)
    BY <1>5 DEF Init, TearDown, Wakes, Returns
  <2> QED
    BY <2>1
<1>6. ASSUME NEW o \in Osts, NEW rate \in Rates, UpdateNode(o, rate)
      PROVE  ClusterTypeOK'
  <2>1. ost_state' \in [Osts -> Rates \cup {Null}]
    BY <1>6 DEF UpdateNode
  <2>2. reading' \in {reading, "torn"} /\ raced' \in BOOLEAN
    BY <1>6 DEF UpdateNode
  <2> QED
    BY <1>6, <2>1, <2>2 DEF UpdateNode
<1>7. CASE AddOst /\ UNCHANGED clusterVars
  BY <1>7 DEF AddOst
<1> HIDE DEF ClusterTypeOK, OwnerSteps, UpdaterSteps, At, Goes, clusterVars
<1> QED
  BY <1>1, <1>2, <1>4, <1>5, <1>6, <1>7, <1>3 DEF ClusterNext, Updater, Owner

\* The scheduler changes nothing of the cluster state but the read it is in.
LEMMA SchedulerReads ==
  ASSUME Scheduler
  PROVE  UNCHANGED otherVars /\ reading' \in {reading, "clean", "no"}
<1> USE DEF otherVars, clusterVars
<1>1. CASE ReadBegins
  BY <1>1 DEF ReadBegins, LocksToRead
<1>2. CASE ReadEnds
  BY <1>2 DEF ReadEnds, ReadsLoad, ReadsState, Reads
<1>3. CASE \E id \in JobIds, job \in NewJobs : ScheduleJobBegins(id, job)
  BY <1>3 DEF ScheduleJobBegins
<1>4. CASE ScheduleJobEnds \/ \E id \in JobIds : RemoveScheduled(id)
  BY <1>4 DEF ScheduleJobEnds, RemoveScheduled
<1> QED
  BY <1>1, <1>2, <1>3, <1>4 DEF Scheduler

\* So does each step of the scheduler.
LEMMA SchedulerStepType ==
  ASSUME TypeOK, Scheduler
  PROVE  TypeOK'
<1> USE DEF TypeOK
<1>1. UNCHANGED otherVars /\ reading' \in {reading, "clean", "no"}
  BY SchedulerReads
<1>2. ClusterTypeOK'
  BY <1>1 DEF ClusterTypeOK, otherVars
<1>3. ASSUME NEW id \in JobIds, NEW job \in NewJobs, ScheduleJobBegins(id, job)
      PROVE  TypeOK'
  <2>1. job.osts \in SUBSET Osts
    BY NewJobsAssumption DEF Job
  <2> QED
    BY <1>2, <1>3, <2>1 DEF ScheduleJobBegins, ScheduleTypeOK, Call
<1>4. ASSUME NEW o \in Osts, ReadsLoad(o) \/ ReadsState(o)
      PROVE  TypeOK'
  <2>1. call' \in Call \cup {Null}
    BY <1>4 DEF ReadsLoad, ReadsState, Call
  <2> QED
    BY <1>2, <1>4, <2>1 DEF ReadsLoad, ReadsState, ScheduleTypeOK
<1>5. CASE ScheduleJobEnds
  <2>1. call.id \in JobIds /\ call.job \in Job
    BY <1>5, NewJobsAssumption DEF ScheduleJobEnds, Call
  <2>2. ScheduleTypeOK'
    BY <1>5, <2>1, AddJobType DEF ScheduleJobEnds, ScheduleTypeOK
  <2> QED
    BY <1>2, <1>5, <2>2 DEF ScheduleJobEnds
<1>6. ASSUME NEW id \in JobIds, RemoveScheduled(id)
      PROVE  TypeOK'
  BY <1>2, <1>6, RemoveJobType DEF RemoveScheduled
<1>7. CASE ReadBegins
  BY <1>2, <1>7 DEF ReadBegins, schedulerVars, ScheduleTypeOK
<1> QED
  BY <1>3, <1>4, <1>5, <1>6, <1>7 DEF Scheduler, ReadEnds

\* It holds at the start.
LEMMA InitType == InitAll => TypeOK
<1>1. ClusterInit => ClusterTypeOK
  BY DEF ClusterInit, ClusterTypeOK, Actors, OwnerSteps, UpdaterSteps, At
<1>2. ScheduleInit => ScheduleTypeOK
  BY DEF ScheduleInit, ScheduleTypeOK
<1> QED
  BY <1>1, <1>2 DEF InitAll, TypeOK

\* Every step keeps it.
LEMMA NextType == TypeOK /\ [Next]_vars => TypeOK'
<1>1. TypeOK /\ ClusterNext /\ UNCHANGED schedulerVars => TypeOK'
  BY ClusterStepType DEF TypeOK, schedulerVars, ScheduleTypeOK
<1>2. TypeOK /\ UNCHANGED vars => TypeOK'
  BY DEF TypeOK, vars, clusterVars, schedulerVars, ClusterTypeOK, ScheduleTypeOK
<1> QED
  BY <1>1, <1>2, SchedulerStepType DEF Next

\* The variables of the cluster state and of the call of ScheduleJob have their
\* types, whatever interleaving of updater, owner, UpdateNode and scheduler.
THEOREM ClusterTyped == Spec => []TypeOK
BY InitType, NextType, PTL DEF Spec

-----------------------------------------------------------------------------
(* The life of the thread.                                                 *)

\* While a TearDown that returned was the last call, nobody starts a thread.
Quiet == returned => /\ pc["updater"] \in {"none", "ended"}
                     /\ pc["owner"] \notin {"list", "lock", "write"}

\* A thread is started only by an Init that has begun, and then returned is FALSE.
LEMMA QuietStep == TypeOK /\ Quiet /\ [Next]_vars => Quiet'
<1> SUFFICES ASSUME TypeOK, Quiet, [Next]_vars
             PROVE  Quiet'
  OBVIOUS
<1> USE DEF Quiet, TypeOK, ClusterTypeOK, OwnerSteps, UpdaterSteps, At, Goes, Actors
<1>1. CASE Begins \/ Tests \/ Exits
  BY <1>1 DEF Begins, Tests, Exits, Notified, NotifiedAtExit
<1>2. ASSUME NEW a \in Actors, Asks(a) \/ Locks(a) \/ Writes(a)
      PROVE  Quiet'
  <2>1. ~returned' /\ ~returned
    BY <1>2 DEF Asks, Locks, Writes
  <2> QED
    BY <2>1
<1>6. CASE Wakes \/ Returns
  BY <1>6 DEF Wakes, Returns, Joined
<1>3. CASE Init \/ TearDown
  BY <1>3 DEF Init, TearDown
<1>4. ASSUME NEW o \in Osts, NEW rate \in Rates, UpdateNode(o, rate)
      PROVE  Quiet'
  BY <1>4 DEF UpdateNode
<1>5. CASE Scheduler \/ UNCHANGED vars \/ UNCHANGED clusterVars
  <2>1. UNCHANGED <<pc, returned>>
    BY <1>5, SchedulerReads DEF vars, clusterVars, otherVars
  <2> QED
    BY <2>1
<1> HIDE DEF Quiet, TypeOK, ClusterTypeOK, OwnerSteps, UpdaterSteps, At, Goes
<1> QED
  BY <1>1, <1>2, <1>3, <1>4, <1>5, <1>6 DEF Next, ClusterNext, Updater, Owner

\* TearDown leaves no thread behind, whenever it is called (the join).
THEOREM NoThreadHolds == Spec => []NoThreadLeft
<1>1. InitAll => Quiet
  BY DEF InitAll, ClusterInit, Quiet, At, Actors
<1>2. Quiet => NoThreadLeft
  BY DEF Quiet, NoThreadLeft
<1> QED
  BY <1>1, <1>2, QuietStep, InitType, NextType, PTL DEF Spec

-----------------------------------------------------------------------------
(* What the scheduler reads.                                               *)

\* The OSTs the call in progress has checked are known, too.
CheckedKnown ==
  ~raced /\ call # Null => \A o \in call.job.osts \ call.todo : ost_state[o] # Null

KnownInv == KnownOstsStay /\ CheckedKnown

\* Without a race the cluster state never forgets an OST.
LEMMA StateGrows ==
  ASSUME TypeOK, ClusterNext, ~raced'
  PROVE  ~raced /\ \A o \in Osts : ost_state[o] # Null => ost_state'[o] # Null
<1> USE DEF TypeOK, ClusterTypeOK, clusterVars
<1>1. ASSUME NEW a \in Actors, Writes(a)
      PROVE  ~raced /\ \A o \in Osts : ost_state[o] # Null => ost_state'[o] # Null
  BY <1>1, RatesAssumption DEF Writes, Written, UpdatedRate
<1>2. ASSUME NEW o \in Osts, NEW rate \in Rates, UpdateNode(o, rate)
      PROVE  ~raced /\ \A p \in Osts : ost_state[p] # Null => ost_state'[p] # Null
  BY <1>2, RatesAssumption DEF UpdateNode
<1>3. ASSUME NEW a \in Actors, Asks(a) \/ Locks(a)
      PROVE  UNCHANGED <<ost_state, raced>>
  BY <1>3 DEF Asks, Locks
<1>4. CASE \/ Begins \/ Tests \/ Exits \/ Init \/ TearDown \/ Wakes \/ Returns
           \/ UNCHANGED clusterVars
  BY <1>4 DEF Begins, Tests, Exits, Init, TearDown, Wakes, Returns
<1> HIDE DEF TypeOK, ClusterTypeOK, clusterVars
<1> QED
  BY <1>1, <1>2, <1>3, <1>4 DEF ClusterNext, Updater, Owner, Actors

\* The steps of the cluster state only add, those of ScheduleJob ask before they trust.
LEMMA KnownStep == TypeOK /\ KnownInv /\ [Next]_vars => KnownInv'
<1> SUFFICES ASSUME TypeOK, KnownInv, [Next]_vars
             PROVE  KnownInv'
  OBVIOUS
<1> USE DEF KnownInv, KnownOstsStay, CheckedKnown, Accepted, MayRead
<1>0. /\ call # Null => call \in Call
      /\ \A j \in JobIds : jobs[j] # Null => jobs[j].osts \subseteq Osts
      /\ call # Null => call.job.osts \subseteq Osts
  BY NewJobsAssumption DEF TypeOK, ScheduleTypeOK, Call, Job
<1>1. CASE ClusterNext /\ UNCHANGED schedulerVars
  <2>1. ~raced' => ~raced /\ \A o \in Osts : ost_state[o] # Null => ost_state'[o] # Null
    BY <1>1, StateGrows
  <2>2. UNCHANGED <<jobs, call>> /\ (call # Null => call.loaded \in Osts \cup {Null})
    BY <1>0, <1>1 DEF schedulerVars, Call
  <2> QED
    BY <1>0, <2>1, <2>2
<1>2. ASSUME NEW id \in JobIds, NEW job \in NewJobs, ScheduleJobBegins(id, job)
      PROVE  KnownInv'
  BY <1>2 DEF ScheduleJobBegins, clusterVars
<1>3. ASSUME NEW o \in Osts, ReadsLoad(o)
      PROVE  KnownInv'
  BY <1>0, <1>3 DEF ReadsLoad, Reads, Call, otherVars
<1>4. ASSUME NEW o \in Osts, ReadsState(o)
      PROVE  KnownInv'
  BY <1>0, <1>4 DEF ReadsState, Reads, Call, otherVars
<1>5. CASE ScheduleJobEnds
  <2>1. jobs' = IF jobs[call.id] = Null THEN [jobs EXCEPT ![call.id] = call.job] ELSE jobs
    BY <1>5 DEF ScheduleJobEnds, AddJob
  <2>2. ~raced => \A o \in call.job.osts : ost_state[o] # Null
    BY <1>5 DEF ScheduleJobEnds
  <2>3. jobs \in [JobIds -> Job \cup {Null}] /\ call' = Null /\ UNCHANGED <<ost_state, raced>>
    BY <1>5 DEF ScheduleJobEnds, clusterVars, TypeOK, ScheduleTypeOK
  <2> QED
    BY <2>1, <2>2, <2>3
<1>6. ASSUME NEW id \in JobIds, RemoveScheduled(id)
      PROVE  KnownInv'
  BY <1>6 DEF RemoveScheduled, RemoveJob, clusterVars, TypeOK, ScheduleTypeOK
<1>7. CASE ReadBegins
  BY <1>7 DEF ReadBegins, otherVars, schedulerVars
<1>8. CASE UNCHANGED vars
  BY <1>8 DEF vars, clusterVars, schedulerVars
<1> QED
  BY <1>1, <1>2, <1>3, <1>4, <1>5, <1>6, <1>7, <1>8 DEF Next, Scheduler, ReadEnds

\* What ScheduleJob's first read of an OST has found stays in the map, the second
\* read misses it only when UpdateNode inserts an entry into the middle of it
\* (ClusterState.cpp:131 against 32), and the OSTs of a reservation are known for
\* ever: unless an UpdateNode ran into a write.
THEOREM KnownHolds == Spec => []KnownOstsStay
<1>1. InitAll => KnownInv
  BY DEF InitAll, ClusterInit, ScheduleInit, KnownInv, KnownOstsStay, CheckedKnown, Accepted
<1>2. KnownInv => KnownOstsStay
  BY DEF KnownInv
<1> QED
  BY <1>1, <1>2, KnownStep, InitType, NextType, PTL DEF Spec
=============================================================================
