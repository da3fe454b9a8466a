\* The endless stream takes the whole budget of every poll.
SPECIFICATION EndlessSpec1
CONSTANTS
  None = None
  PipeSizes = {1}
  MaxSend = 2
  SndBuf = 1
  Rereports = FALSE
  Budget = 2
  IsizeMax = 3
  Fragmented = FALSE
  Requests <- CopyCall
  FileLens = {0}
  InitReady = {FALSE}
  FdsFail = FALSE
  RuntimeEnds = FALSE
PROPERTIES
  SecondGetsThrough
CHECK_DEADLOCK FALSE
