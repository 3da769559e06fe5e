SPECIFICATION Spec
CONSTANTS
  Lengths = {0, 1, 2, 8, 10, 21, 41}
  SIZE_MAX = 65535
CHECK_DEADLOCK FALSE
INVARIANTS
  FlushTraceInside
  NeverRefuses
