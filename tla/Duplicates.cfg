SPECIFICATION CollectSpec
CONSTANTS
  None = None
  Uninitialized = Uninitialized
  Unused = Unused
INVARIANT
  OnlyPresent
CHECK_DEADLOCK FALSE
