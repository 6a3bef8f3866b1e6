------------------------------ MODULE MCStartup ------------------------------
\* Startup for TLC: the job found at the start is yet to start, active or done, and
\* an endless one submitted later may hide its end.
EXTENDS MCPlanner, Startup

MCExistingJobs == [state : {"SCHEDULED", "ACTIVE", "DONE"}, tstart : {0}, tend : {1},
                   osts : {{o1}}, mbs : {1}]
=============================================================================
