\* A frame may be in saveData when the timeout ends the capture.
CONSTANTS
  BufferCount = 2
  Planes = 2
  SendToObc = TRUE
  MaxGapPosts = 1
  MaxAsks = 1
  MaxStarts = 2
SPECIFICATION Spec
INVARIANT RequeueFindsCamera
CHECK_DEADLOCK FALSE
