SPECIFICATION FairSpec
CONSTANTS
  Workers = {w1, w2}
  Accepts = {s1}
  Clients = {c1}
  Separate = FALSE
  Events = {}
  Faults <- OpenFault
PROPERTY OpenErrorPropagated
CHECK_DEADLOCK FALSE
