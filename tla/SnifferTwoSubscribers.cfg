SPECIFICATION Spec
CONSTANTS
  Runs = {r1, r2}
  Readers = {q1, q2}
  DataBufSize = 1
  MaxPackets = 1
  Usage = {"eager", "overlap", "linger"}
  None = None
SYMMETRY Symmetric
INVARIANT ActiveWhenSubscribed
\* Every Start and Subscribe may have returned: the system may stop.
CHECK_DEADLOCK FALSE
