--------------------------- MODULE MCAdmission ---------------------------
\* Admission for TLC: two OSTs with a limit and one without; jobs on one or
\* two OSTs, that start earlier or later, within the limit or above it.  As a
\* float of MCAdmission.cfg, whose integers are exact up to 4, 5 is 4.
EXTENDS Admission, TLC

CONSTANTS o1, o2, o3

MCOsts      == {o1, o2, o3}
MCLimits    == o1 :> 4 @@ o2 :> 4 @@ o3 :> Null
MCNewJobs   == [state : {"INITIALIZED"}, tstart : {0, 1}, tend : {1},
                osts : {{o1}, {o1, o2}, {o3}}, mbs : {3, 5}]
JobSymmetry == Permutations(JobIds)
=============================================================================
