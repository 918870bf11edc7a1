SPECIFICATION SessionSpec
CONSTANTS
  Runs = {r1}
  q1 = q1
  q2 = q2
  Readers <- OneReader
  DataBufSize = 2
  MaxPackets = 2
  Usage = {"eager"}
  None = None
  MaxMessages = 1
  Clients = {"example"}
  Setups <- Full
INVARIANT FileReadOut
\* Every Start, Subscribe and Close may have returned.
CHECK_DEADLOCK FALSE
