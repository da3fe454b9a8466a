\* A source that stays open, a pipe as large as all it ever sends, and a destination
\* that can queue less than that.
SPECIFICATION FairSpec
CONSTANTS
  None = None
  PipeSizes = {2}
  MaxSend = 2
  SndBuf = 1
  Rereports = TRUE
  Budget = 2
  IsizeMax = 7
  Fragmented = FALSE
  Requests <- OpenCalls
  FileLens = {0}
  InitReady = {TRUE, FALSE}
  FdsFail = TRUE
  RuntimeEnds = FALSE
PROPERTIES
  BytesGetThrough TargetEnds DeadDestinationNoticed
CHECK_DEADLOCK FALSE
