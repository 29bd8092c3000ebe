SPECIFICATION FairSpec

CONSTANTS
  Proxies = {TRUE, FALSE}
  EarlyClose = FALSE
  MaxRetransmit = 2
  MaxRequests = 2

INVARIANTS
  SocketReleased
  LossReported

PROPERTIES
  ClosedForGood
  ConnectSettles
  DeadPeerNoticed

CHECK_DEADLOCK FALSE
