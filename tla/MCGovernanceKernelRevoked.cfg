CONSTANTS
  NoRef = NoRef
  NoTime = NoTime
  NetworkApproval = "net"
  SensitiveCategories = {"pii"}
  Contracts <- MCRevoked
  AsOf = 1
  Start = 1
  Step = 1
  Missions = {"m"}
  Requests <- MCRequests
  Crossings <- MCCrossings
  Records <- MCRecords
  ApprovalRefs = {"net", "gone"}
  UnsupportedAction = "legacy.unsupported"
  MaxClock = 4
  MaxDepth = 2
SPECIFICATION Spec
CHECK_DEADLOCK FALSE
INVARIANTS
  NothingRevokedIsAllowed
