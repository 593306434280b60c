\* Any three events, in absolute or in relative mode.
CONSTANTS
  Codes <- MCCodes
  Buttons <- MCButtons
  KEY_BUFFER_SIZE = 3
  Points <- MCPoints
  Far = 1
  MaxEvents = 3
SPECIFICATION AdbFairSpec
CHECK_DEADLOCK FALSE
INVARIANTS KeysInOrder
PROPERTIES KeysCatchUp PointerCatchesUp
