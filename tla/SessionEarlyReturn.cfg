SPECIFICATION SessionSpec
CONSTANTS
  Runs = {r1, r2}
  q1 = q1
  q2 = q2
  Readers <- OneReader
  DataBufSize = 1
  MaxPackets = 1
  Usage = {"eager"}
  None = None
  MaxMessages = 1
  Clients = {"any"}
  Setups <- Full
INVARIANT ReturnsForAReason
\* Every Start, Subscribe and Close may have returned.
CHECK_DEADLOCK FALSE
