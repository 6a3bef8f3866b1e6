CONSTANTS
  JobIds = {j1, j2}
  Osts = {1, 2, 12}
  u1 = u1
  u2 = u2
  u12 = u12
  ossA = ossA
  ossB = ossB
  Ips = {ossA, ossB}
  UuidOf <- MCUuidOf
  NoUuid = NoUuid
  Homes <- MCHomes
  NoIp = NoIp
  Requests <- MCRequests
  IpOf <- MCIpOf
  Faults = {"exec"}
  LustreFaults = {"exec", "silent"}
  MaxTime = 0
  UintMod = 3
  Null = Null
SPECIFICATION Spec
SYMMETRY JobSymmetry
INVARIANTS TrackedRulesInstalled CachedAddressesOwn RulesAtHome RatesAddUp
