\* A request may be counted before the camera is set up.
CONSTANTS
  BufferCount = 2
  Planes = 2
  SendToObc = TRUE
  MaxGapPosts = 1
  MaxAsks = 1
  MaxStarts = 2
SPECIFICATION Spec
PROPERTY NoRequestForgotten
CHECK_DEADLOCK FALSE
