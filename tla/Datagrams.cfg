SPECIFICATION Spec

CONSTANTS
  Mtu = 96
  Size <- MCSize
  MaxFrames = 5
  MaxCompounds = 1

INVARIANTS
  PackingTypeOK
  DatagramFits
  BytesConserved
  RoundTrip
  RecordsApart

PROPERTIES
  ImplementsReliability

CHECK_DEADLOCK FALSE
