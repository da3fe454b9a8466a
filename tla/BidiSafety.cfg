\* copy_bidirectional() with one byte each way, resets of either socket.
SPECIFICATION Spec
CONSTANTS
  None = None
  PipeSizes = {1}
  MaxSend = 1
  SndBuf = 1
  Rereports = FALSE
  Budget = 2
  IsizeMax = 3
  Fragmented = FALSE
  Requests <- CopyCall
  FileLens = {0}
  InitReady = {FALSE}
  FdsFail = TRUE
  RuntimeEnds = FALSE
INVARIANTS
  TypeOK RepollIsHarmless NeitherHeldBack CleanSuccessIsComplete
PROPERTY
  BothImplementByteCopy
CHECK_DEADLOCK FALSE
