SPECIFICATION Spec

CONSTANTS
  Kinds <- MCKinds
  MaxPackets <- MCMaxPackets

INVARIANTS
  BackendPassedOn
  PlayerPassedOn
  BackendTold

CHECK_DEADLOCK FALSE
