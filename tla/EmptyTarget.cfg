\* A target length of zero and a source that stays silent.
SPECIFICATION FairSpec
CONSTANTS
  None = None
  PipeSizes = {2}
  MaxSend = 2
  SndBuf = 2
  Rereports = TRUE
  Budget = 2
  IsizeMax = 7
  Fragmented = FALSE
  Requests <- EmptyTarget
  FileLens = {0}
  InitReady = {TRUE, FALSE}
  FdsFail = FALSE
  RuntimeEnds = FALSE
PROPERTIES
  TargetEnds
CHECK_DEADLOCK FALSE
