\* One autopilot, two frames; every configuration file.
CONSTANTS
  Frames = {f1, f2}
  Devices <- MCAutopilot
  MsgBytes = 2
  Absent = Absent
  BadType = BadType
  CallStop = TRUE
  MaxLine = 1
  MaxOut = 1
  MaxQueue = 3
SPECIFICATION FairSpec
INVARIANT TypeOK
INVARIANT CommandsAddressed
PROPERTY AnsweredOnce
PROPERTY ServerListens
PROPERTY EveryFrameServed
PROPERTY StopEndsReader
CHECK_DEADLOCK FALSE
