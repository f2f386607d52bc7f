\* Three buffers of two planes, two image requests, a start by main and one by
\* the 's' command, at most two frames completed in the event loop's gap.
CONSTANTS
  BufferCount = 3
  Planes = 2
  SendToObc = TRUE
  MaxGapPosts = 2
  MaxAsks = 2
  MaxStarts = 2
SPECIFICATION FairSpec
INVARIANT TypeOK
INVARIANT RequestsConserved
INVARIANT NoUnaskedImage
INVARIANT NoTeardownWhileCapturing
INVARIANT AllPlanesSent
PROPERTY RingTurns
PROPERTY ServiceSpec
PROPERTY EveryFrameReturns
PROPERTY EveryAskTaken
PROPERTY TimeoutEndsCapture
CHECK_DEADLOCK FALSE
