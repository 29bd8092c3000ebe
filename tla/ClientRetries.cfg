SPECIFICATION PatientSpec

CONSTANTS
  Proxies = {FALSE}
  EarlyClose = FALSE
  MaxRetransmit = 2
  MaxRequests = 2

PROPERTIES
  ExhaustionSurfaces

CHECK_DEADLOCK FALSE
