--------------------------- MODULE MCDynScheduler ---------------------------
\* DynScheduler for TLC: two OSTs, one job on each, or on both.
EXTENDS DynScheduler, TLC

CONSTANTS u1, u2, ossA

MCUuidOf  == 1 :> u1 @@ 2 :> u2
MCHomes   == 1 :> {ossA} @@ 2 :> {ossA}
MCNewJobs == [state : {"INITIALIZED"}, tstart : {0}, tend : {0}, osts : {{1}, {1, 2}}, mbs : {1}]
=============================================================================
