SPECIFICATION Spec
CONSTANTS
  MaxBuffers = 2
  StreamLength = 4
  LateLimit = 1
  MaxPosts = 0
  PublishTwice = TRUE
PROPERTY FramesTakenInOrder
CHECK_DEADLOCK FALSE
