CONSTANTS
  JobIds = {j1, j2}
  o1 = o1
  o2 = o2
  ossA = ossA
  ossB = ossB
  Osts <- TwoOsts
  Ips <- TwoOsss
  IpOf <- TwoIpOf
  Limits <- AllLimits
  Requests <- AllRequests
  Faults = {"lookup", "exec"}
  MaxTime = 3
  UintMod = 2
  FloatExact = 4
  MaxListed = 3
  MaxSubmissions = 3
  MaxRemovals = 2
  Null = Null
  Queue <- FourItems
  EmptyQueue <- HeapEmpty
  QPush <- HeapPush
  QPop <- HeapPop
  QRemove <- HeapRemove
  QPeek <- HeapPeek
  QBag <- HeapBag
SPECIFICATION Spec
SYMMETRY JobSymmetry
INVARIANTS TypeOK InFlightExclusion ActiveJobsHaveRules ActiveJobsHaveStop
PROPERTY JobsOnlyAdvance
