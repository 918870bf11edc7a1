SPECIFICATION FairSpec
CONSTANTS
  zone = zone
  chat = chat
  Flows <- OneFlow
  FrameEnds <- OneFlowEnds
  Readings <- ZeroReadings
  DataBufSize = 2
  ErrBufSize = 1
  MaxBufferedPages = 1
  MaxStarts = 1
  Cut = "cells"
  Gaps = FALSE
PROPERTY StartReturns
\* Everything may have been delivered and every goroutine have ended.
CHECK_DEADLOCK FALSE
