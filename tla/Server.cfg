SPECIFICATION FairSpec

CONSTANTS
  k1 = k1
  k2 = k2
  Key <- MCKey
  MaxConnections = 1
  Bridges = {TRUE, FALSE}
  MaxRequests = 2
  Bound = 2

INVARIANTS
  TypeOK
  CapacityRespected
  
  
  HookedLeaveReported

PROPERTIES
  SilentPeerDropped

CHECK_DEADLOCK FALSE
