SPECIFICATION Spec
CONSTANTS
  Runs = {r1, r2}
  Readers = {q1, q2}
  DataBufSize = 1
  MaxPackets = 2
  Usage = {"eager", "linger"}
  None = None
SYMMETRY Symmetric
INVARIANT TypeOK
INVARIANT StopReachesCapture
INVARIANT ActiveIsAccurate
INVARIANT ReaderNotStranded
PROPERTY StateOrder
\* Every Start and Subscribe may have returned: the system may stop.
CHECK_DEADLOCK FALSE
