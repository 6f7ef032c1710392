SPECIFICATION Spec
CONSTANTS
  MaxReq = 2
  ReqIdModulus = 16
  NoNotif = NoNotif
  NoGroup = NoGroup
  MaxIovLen = 2
  Scripts <- MixedScripts
  Shapes <- WholeResponses
  UserFaults = {"throw", "drop"}
  MaxRequests = 3
  MaxParts = 1
INVARIANTS
  ReadBufferExclusive
  WireInOrder
  ServedInOrder
  StepsAreGuarded
  ReadingNotStalled
PROPERTIES
  EventuallyClosed
  EventuallyNotified
CHECK_DEADLOCK FALSE
