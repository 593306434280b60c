\* A ring of three buffers that fills up and wraps around.
CONSTANTS
  atalk = atalk
  ip = ip
  Types <- MCTypes
  NoPacket = NoPacket
  MAX_QUEUE_ITEMS = 3
SPECIFICATION FairSpec
INVARIANTS RingExact NoLostWakeup
PROPERTIES IsFifo PacketsAreFetched FeedEnds
CHECK_DEADLOCK FALSE
