SPECIFICATION FairSpec
CONSTANTS
  Runs = {r1}
  Readers = {q1}
  DataBufSize = 1
  MaxPackets = 2
  Usage = {}
  None = None
PROPERTY StopReturns
\* Every Start and Subscribe may have returned: the system may stop.
CHECK_DEADLOCK FALSE
