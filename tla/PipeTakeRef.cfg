SPECIFICATION Spec
CONSTANTS
  Size = 3
  Byte <- MCByte
  Requests <- MCRequests
INVARIANT
  RefValid
