\* Two bytes each way, in segments of one or two, over a ring of two packets; write_tcp() has one to take.
CONSTANTS
  MacBytes = 2
  RemoteBytes = 2
  Segment = 2
  Ring = 2
  Queue = 1
SPECIFICATION FairSpec
INVARIANTS OneTransferEachWay AckedIsWritten SegmentsMatchSequence
PROPERTY RemoteDataArrives
CHECK_DEADLOCK FALSE
