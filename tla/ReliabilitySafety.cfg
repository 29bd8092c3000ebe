CONSTANTS
  a = a
  b = b
  c = c
  Payload <- MCCompounds
  ReceiveWindow = 1
  ReliableWindow = 1
  SplitIdSpace = 2
  FragmentsExpire = TRUE
  FramesGetLost = FALSE
  MaxFrames = 4
  MaxCompounds = 2
CHECK_DEADLOCK FALSE
SPECIFICATION Spec
INVARIANTS
  InOrderExactlyOnce
  FramesCarryWhatWasSent
  QueueAheadOfCursor
  LostAreMissing
