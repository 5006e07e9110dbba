SPECIFICATION Spec
CONSTANTS
  RingSize = 9
  FrameSize = 2
  OutSize = 2
  SilenceLimit = 4
  WaitLimit = 2
  MaxPauses = 1
  MaxAdjusts = 1
  Streams <- MCStreams
INVARIANTS TypeOK RingInOrder UnderflowOnlyIfLost SoundMatchesClock StuckOnlyIfMissed EndsAtEnd
PROPERTIES EofEnds
CHECK_DEADLOCK FALSE
