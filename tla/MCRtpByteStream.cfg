SPECIFICATION Spec
CONSTANTS
  Packets <- MCPackets
  NoPacket <- MCNoPacket
  Place <- MCPlace
  FrameNo <- MCFrameNo
  LastOfFrame <- MCLastOfFrame
  Streams <- MCStreams
  SeqMod = 65536
  TsMod = 8
  BaseTs = 7
  JumpSize = 3
  JumpLimit = 2
  RangeEnd = 2
INVARIANTS
  TypeOK
  QueueInOrder
  SearchEnds
  PointersAreLive
  CompleteUnlessSkipped
  FrameHasNoHole
  TimeIsRight
  SleepsOnFrameOnlyIfMissed
  BufferedIsStarted
PROPERTY EofEndsDecoding
CHECK_DEADLOCK FALSE
