CONSTANTS
  MaxCalls = 2
  k1 = k1
  Keys = {k1}
  NoKey = NoKey
  Unreadable = Unreadable
  Workloads <- MCWorkloads
  Retries = 3
  Strangers = {"planner"}
  Null = Null
SPECIFICATION FairSpec
INVARIANTS TypeOK CallsTakeEffect ServersStayInTurn
PROPERTIES ImplementsRemoteCall CallsReturn
CHECK_DEADLOCK FALSE
