SPECIFICATION FairSpec
CONSTANTS
  HDR = 2
  MAX = 5
  Slack = 60
  PTR = 1
  SIZE_T = 64
  OutCap = 14
  Small = 2
  ReplySizes <- MCReplySizes
  Ticks = 2
  MayRefuse = TRUE
  MayDie = TRUE
CHECK_DEADLOCK FALSE
INVARIANTS
  TypeOK
  BytesGoThrough
  InOrderUntilMapped
  ClientMayFlush
PROPERTIES
  ImplementsCalls
  DeviceObtained
  EndNoticed
