SPECIFICATION Spec
CONSTANTS
  Runs = {r1}
  Readers = {q1}
  DataBufSize = 1
  MaxPackets = 1
  Usage = {"eager"}
  None = None
SYMMETRY Symmetric
INVARIANT NoNilContext
\* Every Start and Subscribe may have returned: the system may stop.
CHECK_DEADLOCK FALSE
