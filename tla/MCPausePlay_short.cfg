SPECIFICATION Spec
CONSTANTS
  MaxBuffers = 3
  StreamLength = 2
  MaxRestarts = 0
PROPERTY WholeStreamIsPlayed
CHECK_DEADLOCK FALSE
