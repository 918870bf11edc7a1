SPECIFICATION Spec
CONSTANTS
  Runs = {r1, r2}
  Readers = {q1}
  DataBufSize = 1
  MaxPackets = 1
  Usage = {"overlap"}
  None = None
SYMMETRY Symmetric
INVARIANT ActiveIsAccurate
\* Every Start and Subscribe may have returned: the system may stop.
CHECK_DEADLOCK FALSE
