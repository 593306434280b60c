\* One direction of a port that is opened again, with threads that the close left.
CONSTANTS
  Sides <- MCInput
  MaxOpens = 2
  MaxPrimes = 3
SPECIFICATION SerialFairSpec
INVARIANTS DoneMeansTransferred
PROPERTIES RequestsEnd
CHECK_DEADLOCK FALSE
