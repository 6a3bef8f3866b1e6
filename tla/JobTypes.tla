------------------------------ MODULE JobTypes ------------------------------
(***************************************************************************)
(* The data every module of the planner shares: what a reservation (a      *)
(* "job") is, which states it goes through, which events wait for it, and  *)
(* the clock and the integers they are measured in (src/common/Job.h).     *)
(***************************************************************************)
EXTENDS Integers, Sequences, FiniteSets

CONSTANTS
  JobIds,     \* the ids clients give to their reservations
  Osts,       \* the object storage targets of the Lustre system
  MaxTime,    \* bound: the last instant of the system clock
  UintMod,    \* uint32_t throughputs are taken modulo this number (2^32)
  Null        \* a null pointer, an absent map entry

ASSUME JobIdsAssumption == Null \notin JobIds /\ JobIds # {}
ASSUME OstsAssumption   == IsFiniteSet(Osts)
ASSUME TimeAssumption   == MaxTime \in Nat
ASSUME UintAssumption   == UintMod \in Nat \ {0}

JobState == {"INITIALIZED", "SCHEDULED", "ACTIVE", "DONE"}
JobEvent == {"JOBSTART", "JOBSTOP"}

\* time_point::max(), the end of a reservation without a duration: an instant
\* that the clock never reaches.
Forever == MaxTime + 1
Time    == 0 .. Forever
Mbs     == 0 .. UintMod - 1

\* min_read_throughput_MB is the only throughput the planner uses; the id is
\* the key under which the schedule keeps the job.
Job == [state : JobState, tstart : Time, tend : Time,
        osts : SUBSET Osts, mbs : Mbs]

ASSUME NullAssumption == Null \notin Job /\ Null \notin Mbs

WaitingItem == [jobid : JobIds, time_of_event : Time, eventType : JobEvent]
=============================================================================
