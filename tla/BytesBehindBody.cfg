SPECIFICATION FairSpec
CONSTANTS
  Server = TRUE
  HDR = 2
  MAX = 3
  Slack = 2
  WSize = 4
  PTR = 1
  SIZE_T = 64
  FbInfoSize = 1
  ReservationSize = 1
  Scripts <- MCTwo
  AnyCut = FALSE
  Lockstep = FALSE
  OutCap = 3
  WriteErrors = FALSE
  MayClose = FALSE
  CmdSizes <- MCSizes
  AppFits = TRUE
  MaxFrames = 0
  MaxMeta = 0
CHECK_DEADLOCK FALSE
PROPERTY
  ArrivedIsDelivered
