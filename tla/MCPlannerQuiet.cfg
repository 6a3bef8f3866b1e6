CONSTANTS
  JobIds = {j1, j2, j3}
  o1 = o1
  o2 = o2
  ossA = ossA
  ossB = ossB
  Osts <- TwoOsts
  Ips <- TwoOsss
  IpOf <- TwoIpOf
  Limits <- AllLimits
  Requests <- EndingRequests
  Faults = {}
  MaxTime = 4
  UintMod = 4
  FloatExact = 4
  MaxListed = 3
  MaxSubmissions = 3
  MaxRemovals = 0
  Null = Null
  Queue <- ThreeItems
  EmptyQueue <- HeapEmpty
  QPush <- HeapPush
  QPop <- HeapPop
  QRemove <- HeapRemove
  QPeek <- HeapPeek
  QBag <- HeapBag
SPECIFICATION FairSpec
INVARIANT LustreFollowsSchedule
PROPERTIES StopsNotBeforeEnd ScheduledJobsStart ImplementsService ServesWhatIsDue
