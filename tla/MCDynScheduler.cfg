CONSTANTS
  JobIds = {j1}
  Osts = {1, 2}
  u1 = u1
  u2 = u2
  ossA = ossA
  UuidOf <- MCUuidOf
  NoUuid = NoUuid
  Homes <- MCHomes
  NoIp = NoIp
  LustreFaults = {"exec", "silent"}
  Rates = {2}
  DefaultRate = 2
  NewJobs <- MCNewJobs
  MaxListed = 2
  MaxTime = 0
  UintMod = 4
  Null = Null
SPECIFICATION FairSpec
INVARIANTS TypeOK KnownOstsStay NoThreadLeft
PROPERTY TearDownReturns
