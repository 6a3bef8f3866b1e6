----------------------------- MODULE MCOstRules -----------------------------
\* OstRules for TLC: two OSSs; one OST fails over, to the OSS of
\* another one; one has a long number.  The rates of two OSTs on one OSS fit a
\* uint32_t or do not.
EXTENDS OstRules, TLC

CONSTANTS u1, u2, u12, ossA, ossB

MCUuidOf == 1 :> u1 @@ 2 :> u2 @@ 12 :> u12
MCHomes  == 1 :> {ossA, ossB} @@ 2 :> {ossB} @@ 12 :> {ossA}
MCIpOf   == 1 :> ossA @@ 2 :> ossB @@ 12 :> ossA
MCRequests  == [stripe : {{1, 2}}, mbs : {1, 2}] \cup [stripe : {{1}, {12}}, mbs : {1}]
JobSymmetry == Permutations(JobIds)
=============================================================================
