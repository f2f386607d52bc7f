\* Two requests' calls from the camera's thread, a thread that may ask for
\* the end, and at most one post in the gap.
CONSTANTS
  Calls = {c1, c2}
  NoCall = NoCall
  Posters = {lib}
  Stoppers = {stopper}
  MaxGapPosts = 1
SPECIFICATION FairSpec
INVARIANT TypeOK
INVARIANT StrandedOnlyInGap
PROPERTY EveryCallTaken
PROPERTY ExitEndsExec
CHECK_DEADLOCK FALSE
