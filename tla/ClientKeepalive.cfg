SPECIFICATION Spec

CONSTANTS
  Proxies = {FALSE}
  EarlyClose = FALSE
  MaxRetransmit = 2
  MaxRequests = 2

INVARIANTS
  KeepaliveReleased

CHECK_DEADLOCK FALSE
