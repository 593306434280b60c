\* Two sources on one processor, or one source on several processors.
CONSTANTS
  Sources <- MCSources
  SMPSources <- MCSMPSources
SPECIFICATION FairSpec
INVARIANTS NothingForgotten OneHandler ProgramMaskKept
PROPERTIES EveryInterruptServed
