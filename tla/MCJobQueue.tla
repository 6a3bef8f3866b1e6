----------------------------- MODULE MCJobQueue -----------------------------
\* JobQueue for TLC: job ids are interchangeable.
EXTENDS JobQueue, TLC

JobSymmetry == Permutations(JobIds)
=============================================================================
