CONSTANTS
  JobIds = {j1, j2}
  o1 = o1
  o2 = o2
  ossA = ossA
  ossB = ossB
  Osts <- OneOst
  Ips <- OneOss
  IpOf <- OneIpOf
  Limits <- AllLimits
  Requests <- MixedRequests
  Faults = {}
  MaxTime = 3
  UintMod = 2
  FloatExact = 4
  MaxListed = 3
  MaxSubmissions = 2
  MaxRemovals = 1
  Null = Null
  ExistingJobs <- MCExistingJobs
  Queue <- ThreeItems
  EmptyQueue <- HeapEmpty
  QPush <- HeapPush
  QPop <- HeapPop
  QRemove <- HeapRemove
  QPeek <- HeapPeek
  QBag <- HeapBag
SPECIFICATION FairLifeSpec
INVARIANTS NothingInFlightAfterTearDown JobsAreDue
PROPERTIES ServerReturns ServedJobsEnd TearDownReturns
CHECK_DEADLOCK FALSE
