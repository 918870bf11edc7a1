SPECIFICATION FairSessionSpec
CONSTANTS
  Runs = {r1}
  q1 = q1
  q2 = q2
  Readers <- OneReader
  DataBufSize = 1
  MaxPackets = 3
  Usage = {"eager"}
  None = None
  MaxMessages = 1
  Clients = {"any"}
  Setups <- OnlyIngress
PROPERTY SubscribeReturns
\* Every Start, Subscribe and Close may have returned.
CHECK_DEADLOCK FALSE
