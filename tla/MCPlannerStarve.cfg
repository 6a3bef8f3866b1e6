CONSTANTS
  JobIds = {j1, j2}
  o1 = o1
  o2 = o2
  ossA = ossA
  ossB = ossB
  Osts <- OneOst
  Ips <- OneOss
  IpOf <- OneIpOf
  Limits <- AllLimits
  Requests <- MixedRequests
  Faults = {}
  MaxTime = 3
  UintMod = 2
  FloatExact = 4
  MaxListed = 2
  MaxSubmissions = 2
  MaxRemovals = 0
  Null = Null
  Queue <- ThreeItems
  EmptyQueue <- HeapEmpty
  QPush <- HeapPush
  QPop <- HeapPop
  QRemove <- HeapRemove
  QPeek <- HeapPeek
  QBag <- HeapBag
SPECIFICATION FairSpec
PROPERTY ScheduledJobsStart
