\* A start command may arrive after the capture has ended.
CONSTANTS
  BufferCount = 2
  Planes = 2
  SendToObc = TRUE
  MaxGapPosts = 1
  MaxAsks = 1
  MaxStarts = 2
SPECIFICATION Spec
PROPERTY StartCommandStarts
CHECK_DEADLOCK FALSE
