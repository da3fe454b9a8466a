\* Half-closes travel, and two of them end the bidirectional copy; the direction that
\* is polled second may never be idle.
SPECIFICATION EndlessSpec2
CONSTANTS
  None = None
  PipeSizes = {1}
  MaxSend = 1
  SndBuf = 1
  Rereports = FALSE
  Budget = 2
  IsizeMax = 3
  Fragmented = FALSE
  Requests <- CopyCall
  FileLens = {0}
  InitReady = {FALSE}
  FdsFail = FALSE
  RuntimeEnds = FALSE
PROPERTIES
  HalfCloseForwarded BothClosedEnds
CHECK_DEADLOCK FALSE
