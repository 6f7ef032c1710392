SPECIFICATION Spec
CONSTANTS
  MaxReq = 2
  ReqIdModulus = 8
  NoNotif = NoNotif
  MaxRequests = 3
  MaxParts = 2
INVARIANTS
  TypeOK
  LookupExact
  FreeSlotsClean
  NoStuckResponse
  OutputExact
  NotificatorConservation
PROPERTY
  ImplementsPipeline
