\* Concurrent calls that together need more descriptors than there are.
SPECIFICATION EntrySpec
CONSTANTS
  None = None
  Calls = {c1, c2}
  Fds = {3, 4, 5, 6}
  Requests <- SomeCalls
  DefaultSizes = {1, 2}
  Grants = {1, 2, 4}
  MAXIMUM_PIPE_SIZE = 4
INVARIANTS
  EntryTypeOK FdsOwnedOnce SizeIsGranted RangeAsAsked
PROPERTIES
  ShortageResolves
CHECK_DEADLOCK FALSE
