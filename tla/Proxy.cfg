\* A connection takes six descriptors, the listener one: of two connections the
\* second runs out at its first or second pipe, unless the first has closed some.
SPECIFICATION ProxySpec
CONSTANTS
  None = None
  Calls = {c1, c2}
  Fds = {3, 4, 5, 6, 7, 8, 9, 10, 11}
  Requests <- BidiCall
  DefaultSizes = {1}
  Grants = {1}
  MAXIMUM_PIPE_SIZE = 1
INVARIANTS
  ProxyFdsOwnedOnce ClosedConnectionsHoldNothing
PROPERTIES
  ShutdownReleases
CHECK_DEADLOCK FALSE
