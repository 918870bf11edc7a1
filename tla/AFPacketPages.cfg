SPECIFICATION LookupSpec
CONSTANTS
  Linux = TRUE
  PageSizes = {4096, 16384, 65536}
  Snaplens = {1600}
  TargetSizes = {25}
  None = None
  MaxCalls = 1
  eth = eth
  wlan = wlan
  Lists <- SomeLists
  Indexes <- SomeIndexes
  MaxChanges = 0
INVARIANT PageAligned
\* The bound on calls has been reached.
CHECK_DEADLOCK FALSE
