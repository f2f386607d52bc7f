\* Chunks of three bytes: up to eight of them, in any order.
CONSTANTS
  ChunkSize = 3
  Sizes <- MCSizes
  ImageSizes <- MCImageSizes
SPECIFICATION FairSpec
INVARIANT TypeOK
INVARIANT InBounds
INVARIANT PictureArrives
PROPERTY TransferEnds
CHECK_DEADLOCK FALSE
