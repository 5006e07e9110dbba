SPECIFICATION Spec
CONSTANTS
  MaxLoop = 1
  Files = {{"video"}}
  UserKeys = {"SPACE", "END"}
  MaxKeys = 2
PROPERTY EndCloses
CHECK_DEADLOCK FALSE
