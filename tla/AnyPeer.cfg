SPECIFICATION Spec
CONSTANTS
  Server = FALSE
  HDR = 2
  MAX = 3
  Slack = 2
  WSize = 3
  PTR = 1
  SIZE_T = 64
  FbInfoSize = 1
  ReservationSize = 1
  Scripts <- MCMixed
  AnyCut = TRUE
  Lockstep = FALSE
  OutCap = 3
  WriteErrors = TRUE
  MayClose = TRUE
  CmdSizes <- MCEnds
  AppFits = FALSE
  MaxFrames = 2
  MaxMeta = 2
CHECK_DEADLOCK FALSE
INVARIANTS
  TypeOK
  NoLostWakeup
  FramesInOrder
  RoomToRead
  MetaBetweenFrames
  NoGapInRbuf
  NestsOnce
PROPERTY
  ImplementsFrameChannel
