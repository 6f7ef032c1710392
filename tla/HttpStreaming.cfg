SPECIFICATION Spec
CONSTANTS
  MaxReq = 2
  ReqIdModulus = 16
  NoNotif = NoNotif
  NoGroup = NoGroup
  MaxIovLen = 1
  Scripts <- TwoGets
  Shapes <- StreamedResponses
  UserFaults = {"throw", "drop"}
  MaxRequests = 2
  MaxParts = 2
INVARIANTS
  WireInOrder
  NotificatorHonest
CHECK_DEADLOCK FALSE
