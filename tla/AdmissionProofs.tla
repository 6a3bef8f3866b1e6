--------------------------- MODULE AdmissionProofs ---------------------------
(***************************************************************************)
(* Proofs about the scheduler with its schedule.                           *)
(***************************************************************************)
EXTENDS Admission, ScheduleProofs

\* ScheduleJob, RemoveJob and Reset keep the lists sorted and complete.
LEMMA AdmissionStep ==
  ASSUME Lists, [Next]_vars
  PROVE  Lists'
<1>1. ASSUME NEW id \in JobIds, NEW job \in NewJobs, ScheduleJob(id, job)
      PROVE  Lists'
  <2>1. [job EXCEPT !.state = "SCHEDULED"] \in Job
    BY NewJobsAssumption DEF Job, JobState
  <2>2. AddJob(id, [job EXCEPT !.state = "SCHEDULED"])
    BY <1>1 DEF ScheduleJob
  <2> QED
    BY <2>1, <2>2, AddJobType, AddJobLists DEF Lists
<1>2. ASSUME NEW id \in JobIds, RemoveJob(id)
      PROVE  Lists'
  BY <1>2, RemoveJobType, RemoveJobLists DEF Lists
<1>3. CASE Reset
  BY <1>3 DEF Reset, Lists, ScheduleTypeOK, ListsSorted, JobsAreListed, Accepted
<1>4. CASE UNCHANGED vars
  BY <1>4 DEF vars, Lists, ScheduleTypeOK, ListsSorted, JobsAreListed, Accepted
<1> QED
  BY <1>1, <1>2, <1>3, <1>4 DEF Next

\* Whatever jobs are accepted, removed and accepted again, admission control
\* looks at lists that are sorted and that no accepted job is missing from.
THEOREM ListsHold == Spec => [](ListsSorted /\ JobsAreListed)
<1>1. ScheduleInit => Lists
  BY DEF ScheduleInit, Lists, ScheduleTypeOK, ListsSorted, JobsAreListed, Accepted
<1>2. Lists /\ [Next]_vars => Lists'
  BY AdmissionStep
<1>3. Lists => ListsSorted /\ JobsAreListed
  BY DEF Lists
<1> QED
  BY <1>1, <1>2, <1>3, PTL DEF Spec
=============================================================================
