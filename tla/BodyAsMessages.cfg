SPECIFICATION Spec
CONSTANTS
  Server = TRUE
  HDR = 2
  MAX = 3
  Slack = 2
  WSize = 4
  PTR = 1
  SIZE_T = 64
  FbInfoSize = 1
  ReservationSize = 1
  Scripts <- MCBuffers
  AnyCut = TRUE
  Lockstep = TRUE
  OutCap = 8
  WriteErrors = FALSE
  MayClose = FALSE
  CmdSizes <- MCSizes
  AppFits = TRUE
  MaxFrames = 2
  MaxMeta = 0
CHECK_DEADLOCK FALSE
INVARIANT
  RemainingIsCommandData
