SPECIFICATION Spec
CONSTANTS
  NBlocks = 5
  NBuckets = 2
  Joined = 2
  MaxWrites = 2
INVARIANTS
  TableIsExact
  ReadsAreCurrent
PROPERTY
  ImplementsVolume
CHECK_DEADLOCK FALSE
