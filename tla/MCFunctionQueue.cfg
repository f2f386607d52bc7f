\* One sending loop, one event loop pushing at the back, one MAVLink reader
\* pushing at the front, three functions in circulation.
CONSTANTS
  BackPushers = {loop}
  FrontPushers = {reader}
  Consumers = {sender}
  Tasks = {t1, t2, t3}
  NoTask = NoTask
  Nobody = Nobody
SPECIFICATION FairSpec
INVARIANT TypeOK
INVARIANT NoPopOnEmpty
PROPERTY DequeSpec
PROPERTY EveryTaskTaken
PROPERTY QuitEndsLoop
