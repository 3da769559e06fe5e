SPECIFICATION Spec
CONSTANTS
  Server = FALSE
  HDR = 2
  MAX = 3
  Slack = 2
  WSize = 4
  PTR = 1
  SIZE_T = 64
  FbInfoSize = 1
  ReservationSize = 1
  Scripts <- MCBuffers
  AnyCut = FALSE
  Lockstep = TRUE
  OutCap = 8
  WriteErrors = FALSE
  MayClose = FALSE
  CmdSizes <- MCSizes
  AppFits = FALSE
  MaxFrames = 2
  MaxMeta = 0
CHECK_DEADLOCK FALSE
INVARIANT
  SpaceIsInBuffer
