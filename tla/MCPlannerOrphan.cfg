CONSTANTS
  JobIds = {j1, j2}
  o1 = o1
  o2 = o2
  ossA = ossA
  ossB = ossB
  Osts <- OneOst
  Ips <- OneOss
  IpOf <- OneIpOf
  Limits <- AllLimits
  Requests <- ShortRequests
  Faults = {}
  MaxTime = 3
  UintMod = 2
  FloatExact = 4
  MaxListed = 1
  MaxSubmissions = 1
  MaxRemovals = 1
  Null = Null
  Queue <- ThreeItems
  EmptyQueue <- HeapEmpty
  QPush <- HeapPush
  QPop <- HeapPop
  QRemove <- HeapRemove
  QPeek <- HeapPeek
  QBag <- HeapBag
SPECIFICATION Spec
INVARIANT LustreFollowsSchedule
