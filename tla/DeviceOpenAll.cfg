SPECIFICATION LookupSpec
CONSTANTS
  Linux = TRUE
  PageSizes = {4096, 16384}
  Snaplens = {1, 1600, 4095, 4096, 9000}
  TargetSizes = {0, 25}
  None = None
  MaxCalls = 2
  eth = eth
  wlan = wlan
  Lists <- SomeLists
  Indexes <- SomeIndexes
  MaxChanges = 1
INVARIANT FailureReleases
INVARIANT SniffersCapture
INVARIANT PacketFits
\* The bound on calls has been reached.
CHECK_DEADLOCK FALSE
