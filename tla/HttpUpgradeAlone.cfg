SPECIFICATION Spec
CONSTANTS
  MaxReq = 1
  ReqIdModulus = 16
  NoNotif = NoNotif
  NoGroup = NoGroup
  MaxIovLen = 2
  Scripts <- WithUpgrade
  Shapes <- WholeResponses
  UserFaults = {}
  MaxRequests = 3
  MaxParts = 1
INVARIANTS
  UpgradeIsAlone
CHECK_DEADLOCK FALSE
