\* A source that stays open, and a pipe smaller than what it sends.
SPECIFICATION FairSpec
CONSTANTS
  None = None
  PipeSizes = {1}
  MaxSend = 2
  SndBuf = 2
  Rereports = TRUE
  Budget = 2
  IsizeMax = 7
  Fragmented = FALSE
  Requests <- UnboundedCopy
  FileLens = {0}
  InitReady = {TRUE, FALSE}
  FdsFail = FALSE
  RuntimeEnds = FALSE
PROPERTIES
  BytesGetThrough
CHECK_DEADLOCK FALSE
