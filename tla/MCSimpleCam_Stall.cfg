\* As many frames may be completed in the event loop's gap as there are buffers.
CONSTANTS
  BufferCount = 2
  Planes = 2
  SendToObc = TRUE
  MaxGapPosts = 2
  MaxAsks = 0
  MaxStarts = 1
SPECIFICATION Spec
INVARIANT NeverStalled
CHECK_DEADLOCK FALSE
