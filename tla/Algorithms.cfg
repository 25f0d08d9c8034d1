SPECIFICATION Spec
CONSTANTS
  None = None
  Uninitialized = Uninitialized
  Unused = Unused
INVARIANTS
  WrittenOnce
  ResultRight
  StepsRight
  CellsAgree
PROPERTY
  Finishes
CHECK_DEADLOCK FALSE
