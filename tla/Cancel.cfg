\* Each kind of call, dropped up to twice and made again on the same descriptors.
SPECIFICATION FairCancelSpec
CONSTANTS
  None = None
  PipeSizes = {1, 2}
  MaxSend = 2
  SndBuf = 1
  Rereports = FALSE
  Budget = 2
  IsizeMax = 7
  Fragmented = TRUE
  Requests <- MixedCalls
  FileLens = {2}
  InitReady = {TRUE, FALSE}
  FdsFail = TRUE
  RuntimeEnds = FALSE
  MaxDrops = 2
INVARIANTS
  BytesAccounted
PROPERTIES
  IdleDropIsLossless ClosedSourceEnds NoBusyLoop
CHECK_DEADLOCK FALSE
