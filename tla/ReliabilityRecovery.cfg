CONSTANTS
  a = a
  b = b
  c = c
  Payload <- MCPayload
  ReceiveWindow = 1
  ReliableWindow = 1
  SplitIdSpace = 2
  FragmentsExpire = FALSE
  FramesGetLost = TRUE
  MaxFrames = 3
  MaxCompounds = 1
CHECK_DEADLOCK FALSE
SPECIFICATION FairSpec
INVARIANTS
  TypeOK
  NothingLost
PROPERTIES
  ImplementsOrderedChannel
  EverySentDelivered
  BackupDrains
