SPECIFICATION FairSpec
CONSTANTS
  zone = zone
  chat = chat
  Flows <- TwoFlows
  FrameEnds <- TwoFlowEnds
  Readings <- ZeroReadings
  DataBufSize = 1
  ErrBufSize = 1
  MaxBufferedPages = 1
  MaxStarts = 2
  Cut = "frames"
  Gaps = TRUE
INVARIANT TypeOK
INVARIANT EndsWithConnection
INVARIANT HandedOn
PROPERTY DeliversInOrder
PROPERTY StartReturns
PROPERTY FramesArrive
PROPERTY ReadersEnd
\* Everything may have been delivered and every goroutine have ended.
CHECK_DEADLOCK FALSE
