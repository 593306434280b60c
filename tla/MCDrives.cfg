\* The user changes the disc once and asks for the drives once; the Mac ejects and restarts once.
CONSTANTS
  MaxInserts = 1
  MaxKeys = 1
  MaxEjects = 1
  MaxRestarts = 1
SPECIFICATION FairSpec
INVARIANTS TrayIsLocked DiscIsKnown
PROPERTIES DiscIsMounted
