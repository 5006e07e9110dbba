SPECIFICATION Spec
CONSTANTS
  MaxLoop = 1
  Files = {{"audio"}, {"video"}, {"audio", "video"}}
  UserKeys = {"SPACE", "HOME", "CTRL_X"}
  MaxKeys = 2
INVARIANT TypeOK
INVARIANT InitialisedBeforeSync
INVARIANT PauseHolds
INVARIANT StateAgrees
INVARIANT AudioWillReport
INVARIANT StopNotLost
CHECK_DEADLOCK FALSE
