SPECIFICATION Spec
CONSTANTS
  MaxBuffers = 3
  StreamLength = 5
  LateLimit = 1
  MaxPosts = 1
  PublishTwice = FALSE
INVARIANT TypeOK
INVARIANT RingAligned
INVARIANT LatestTakenIsShown
PROPERTY FramesTakenInOrder
PROPERTY ImplementsFrameQueue
CHECK_DEADLOCK FALSE
