\* A reset of one socket while the other direction is still waiting.
SPECIFICATION Spec
CONSTANTS
  None = None
  PipeSizes = {1}
  MaxSend = 1
  SndBuf = 1
  Rereports = FALSE
  Budget = 2
  IsizeMax = 3
  Fragmented = FALSE
  Requests <- CopyCall
  FileLens = {0}
  InitReady = {FALSE}
  FdsFail = TRUE
  RuntimeEnds = FALSE
INVARIANT
  ErrorReported
CHECK_DEADLOCK FALSE
