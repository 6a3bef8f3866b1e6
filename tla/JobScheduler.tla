---------------------------- MODULE JobScheduler ----------------------------
(***************************************************************************)
(* Admission control (src/common/JobSchedulerStaticWorkloads.cpp) on top   *)
(* of the schedule.  ScheduleJob reads only the OST lists, which no other  *)
(* thread writes, before AddJob: the decision and AddJob are one step.     *)
(***************************************************************************)
EXTENDS ScheduleState

CONSTANTS
  Limits,     \* osts_max_mbs_limits_: OST -> MB/s, Null for an OST not in the file
  FloatExact, \* up to this number every integer is a float (2^24)
  MaxListed   \* bound on the length of an OST's list, which never shrinks

ASSUME FloatAssumption == FloatExact \in Nat \ {0}

\* The distance of the floats around the integer n: 1 below FloatExact, and
\* twice as much from each power of 2 to the next.
Spacing(n) == 2 ^ (CHOOSE k \in 0 .. n : /\ n < FloatExact * 2^k
                                         /\ k = 0 \/ FloatExact * 2^(k-1) <= n)

\* An integer as a float: the nearest one, of two the one with an even significand.
ToFloat(n) ==
  LET down == n \div Spacing(n)
      rest == n % Spacing(n)
      up   == 2 * rest > Spacing(n) \/ (2 * rest = Spacing(n) /\ down % 2 = 1)
  IN  Spacing(n) * IF up THEN down + 1 ELSE down

\* Limits are floats.  What is compared with them are integers as floats, so
\* that a limit between two of these is as good as the lower one.
ASSUME LimitsAssumption ==
  \A o \in Osts : Limits[o] = Null \/ (Limits[o] \in Nat /\ ToFloat(Limits[o]) = Limits[o])

\* What *maxLoadMBSec may be after GetMaxLoadInTimeInterval: it is assigned
\* only when the OST has no list yet.  Otherwise the sum goes to a local that
\* is dropped, and the caller's variable was never initialised: any uint32_t.
GetMaxLoadInTimeInterval(ost) == IF schedule[ost] = <<>> THEN {0} ELSE Mbs

\* The sum is one of uint32_t, the comparison one of floats: a sum that is
\* rounded down to the limit passes.  An OST without a limit is never enough.
AreEnoughResAvail(job, ost, load) ==
  Limits[ost] # Null /\ ToFloat((load + job.mbs) % UintMod) <= Limits[ost]

MayAdmit(job) == \A ost \in job.osts : \E load \in GetMaxLoadInTimeInterval(ost) :
                    AreEnoughResAvail(job, ost, load)
MayRefuse(job) == \E ost \in job.osts : \E load \in GetMaxLoadInTimeInterval(ost) :
                    ~AreEnoughResAvail(job, ost, load)

\* ScheduleJob up to RegisterJob, where it accepts the job ...
ScheduleJob(id, job) ==
  /\ MayAdmit(job)
  /\ \A ost \in job.osts : Len(schedule[ost]) < MaxListed
  /\ AddJob(id, [job EXCEPT !.state = "SCHEDULED"])

\* ... and where it does not: too little is left, or the id is in use.
RefuseJob(id, job) == MayRefuse(job) \/ jobs[id] # Null
=============================================================================
