\* One client, no fault, and one telemetry message.
CONSTANTS
  Clients = {c1}
  Operators = {}
  OperatorCmds = {}
  NoAddress = NoAddress
  ImageCount = 2
  PlaneSizes <- MCPlaneSizes
  TelemetrySize = 1
  ChunkSize = 3
  MaxFaults = 0
  MaxTelemetry = 1
  MaxRequests = 1
  MaxOperatorCmds = 0
  MaxTrouble = 1
SPECIFICATION Spec
INVARIANT AllBuffersSaved
CHECK_DEADLOCK FALSE
