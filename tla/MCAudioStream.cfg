\* One buffer, two blocks in turn, one source.
CONSTANTS
  Buffers = 1
  MaxBlocks = 2
  MaxOpens = 1
  MaxSources = 1
  Resets = TRUE
SPECIFICATION SoundFairSpec
INVARIANTS BlockIsCurrent DeviceKept
PROPERTIES WaitEnds MutedMeansClosed 
CHECK_DEADLOCK FALSE
