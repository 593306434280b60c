\* The Mac sets palettes while the user switches desktops.
CONSTANT CpuPalettes = TRUE
SPECIFICATION FairSpec
INVARIANTS AwayFromScreen ScreenIsCurrent
 
CHECK_DEADLOCK FALSE
