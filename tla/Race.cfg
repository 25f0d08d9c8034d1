SPECIFICATION RaceSpec
CONSTANTS
  None = None
  Uninitialized = Uninitialized
  Unused = Unused
INVARIANT
  ChecksPass
CHECK_DEADLOCK FALSE
