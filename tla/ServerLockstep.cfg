SPECIFICATION FairSpec
CONSTANTS
  Server = TRUE
  HDR = 2
  MAX = 3
  Slack = 2
  WSize = 4
  PTR = 1
  SIZE_T = 64
  FbInfoSize = 1
  ReservationSize = 1
  Scripts <- MCBuffers
  AnyCut = FALSE
  Lockstep = TRUE
  OutCap = 3
  WriteErrors = FALSE
  MayClose = TRUE
  CmdSizes <- MCSizes
  AppFits = TRUE
  MaxFrames = 3
  MaxMeta = 0
CHECK_DEADLOCK FALSE
INVARIANTS
  DeliveredInOrder
  NoReadWhileHandling
  OnlyThePeerEndsIt
PROPERTIES
  FlushCompletes
  ReturnsToLoop
