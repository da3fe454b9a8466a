\* Sockets and file ranges: every interleaving of the task, the reactor and the
\* peers; pipe smaller than the data, short and refused splices, faults, files
\* of another length than stated.
SPECIFICATION Spec
CONSTANTS
  None = None
  PipeSizes = {1, 2}
  MaxSend = 3
  SndBuf = 2
  Rereports = TRUE
  Budget = 2
  IsizeMax = 7
  Fragmented = TRUE
  Requests <- AllCalls
  FileLens = {0, 2, 4}
  InitReady = {TRUE, FALSE}
  FdsFail = TRUE
  RuntimeEnds = TRUE
INVARIANTS
  TypeOK CountersMatchKernel NoPanic NoBytesHeldBack WriterWakeupArmed SuccessIsComplete
  RangeKept
PROPERTIES
  ErrorSurvives ImplementsByteCopy
CHECK_DEADLOCK FALSE
