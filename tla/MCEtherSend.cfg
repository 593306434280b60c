\* Four packets, one of which the router takes.
CONSTANTS
  MAX_ECHO = 4
  MaxSends = 4
  Routed <- MCRouted
SPECIFICATION FairSpec
INVARIANTS OneOwner SentInOrder
PROPERTIES QueueDrains
CHECK_DEADLOCK FALSE
