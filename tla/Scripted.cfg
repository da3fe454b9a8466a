\* Up to three attempts to read and two to write, any outcome of each, and the
\* scripts of the two unit tests.
SPECIFICATION ScriptedSpec
CONSTANTS
  ReadScripts <- Reads
  WriteScripts <- Writes
  IsizeMax = 9000
  MaxPolls = 2
  PipeSizes = {1}
INVARIANTS
  MetersMatchSplices OkIsComplete HeldBackNeedsOddFd AgreesWithTests
  RefillNeedsOddWriter
CHECK_DEADLOCK FALSE
