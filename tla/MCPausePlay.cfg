SPECIFICATION Spec
CONSTANTS
  MaxBuffers = 2
  StreamLength = 2
  MaxRestarts = 2
INVARIANT TypeOK
INVARIANT NoMessageForgotten
INVARIANT NoStaleFramePlayed
INVARIANT RestartFlushIsExclusive
INVARIANT OpenAfterRestart
PROPERTY MessagesHandled
CHECK_DEADLOCK FALSE
