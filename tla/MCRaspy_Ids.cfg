\* Two devices on the line: the ids taken may be the system of one and the
\* component of the other.
CONSTANTS
  Frames = {f1}
  Devices <- MCTwoDevices
  MsgBytes = 2
  Absent = Absent
  BadType = BadType
  CallStop = FALSE
  MaxLine = 2
  MaxOut = 1
  MaxQueue = 2
SPECIFICATION Spec
INVARIANT CommandsAddressed
CHECK_DEADLOCK FALSE
