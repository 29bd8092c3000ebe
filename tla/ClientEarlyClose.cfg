SPECIFICATION Spec

CONSTANTS
  Proxies = {FALSE}
  EarlyClose = TRUE
  MaxRetransmit = 2
  MaxRequests = 2

INVARIANTS
  SocketReleased

CHECK_DEADLOCK FALSE
