SPECIFICATION FairSpec
CONSTANTS
  Workers = {w1, w2}
  Accepts = {s1}
  Clients = {c1, c2}
  Separate = TRUE
  Events <- BothEvents
  Faults <- AllFaults
INVARIANT OneAcceptPerSocket
INVARIANT ServerOutlivesItsJobs
INVARIANT OpenErrorReported
INVARIANT ClosedOnce
PROPERTY ShutdownReturns
PROPERTY ClientSettled
CHECK_DEADLOCK FALSE
