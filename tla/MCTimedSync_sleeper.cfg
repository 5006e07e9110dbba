SPECIFICATION Spec
CONSTANTS
  MaxBuffers = 2
  StreamLength = 4
  LateLimit = 1
  MaxPosts = 0
  PublishTwice = FALSE
INVARIANT SleeperWillBeSignalled
CHECK_DEADLOCK FALSE
