SPECIFICATION FairSessionSpec
CONSTANTS
  Runs = {r1}
  q1 = q1
  q2 = q2
  Readers <- TwoReaders
  DataBufSize = 1
  MaxPackets = 2
  Usage = {"eager"}
  None = None
  MaxMessages = 1
  Clients = {"any", "example"}
  Setups <- Pairs
INVARIANT SessionTypeOK
PROPERTY SubscribeEnds
PROPERTY OthersGoOn
PROPERTY StopReturnsUnlessFull
PROPERTY SignalEnds
\* Every Start, Subscribe and Close may have returned.
CHECK_DEADLOCK FALSE
