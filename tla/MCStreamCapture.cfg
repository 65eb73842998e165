SPECIFICATION CaptureSpec
CONSTANTS
  none = none
  BufferSize = 2
  Cap = 5
  NoTimeout <- none
  Timeouts <- MCTimeouts
  MaxTime = 2
INVARIANTS
  CaptureTypeOK
  CompleteUpToOneBuffer
  NoChildLeft
  FilesRemoved
PROPERTY TimeoutHolds
\* The call ends by returning or raising.
CHECK_DEADLOCK FALSE
