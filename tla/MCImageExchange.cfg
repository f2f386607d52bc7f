\* One client that asks for images out of a directory of two; two troubles: a
\* fault, a telemetry message, an operator who pings, starts or stops the server.
CONSTANTS
  Clients = {c1}
  Operators = {op}
  OperatorCmds = {"p", "s", "e"}
  NoAddress = NoAddress
  ImageCount = 2
  PlaneSizes <- MCPlaneSizes
  TelemetrySize = 1
  ChunkSize = 3
  MaxFaults = 1
  MaxTelemetry = 1
  MaxRequests = 2
  MaxOperatorCmds = 1
  MaxTrouble = 2
SPECIFICATION FairSpec
INVARIANT TypeOK
INVARIANT SentToSomebody
INVARIANT FilesWhole
INVARIANT FilesRight
INVARIANT FaultlessSaved
PROPERTY ServiceSpec
PROPERTY RequestCompletes
CHECK_DEADLOCK FALSE
