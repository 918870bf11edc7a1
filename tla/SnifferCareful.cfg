SPECIFICATION FairSpec
CONSTANTS
  Runs = {r1, r2}
  Readers = {q1, q2}
  DataBufSize = 1
  MaxPackets = 2
  Usage = {}
  None = None
INVARIANT NoPanic
INVARIANT ReturnsForAReason
PROPERTY StopReturnsOrBlocked
PROPERTY ReadersReleased
\* Every Start and Subscribe may have returned: the system may stop.
CHECK_DEADLOCK FALSE
