SPECIFICATION Spec
CONSTANTS
  zone = zone
  chat = chat
  Flows <- TwoFlows
  FrameEnds <- TwoFlowEnds
  Readings <- ZeroReadings
  DataBufSize = 2
  ErrBufSize = 1
  MaxBufferedPages = 1
  MaxStarts = 1
  Cut = "cells"
  Gaps = FALSE
PROPERTY DeliversInOrder
\* Everything may have been delivered and every goroutine have ended.
CHECK_DEADLOCK FALSE
