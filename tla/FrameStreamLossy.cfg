SPECIFICATION Spec
CONSTANTS
  zone = zone
  chat = chat
  Flows <- OneFlow
  FrameEnds <- OneFlowEnds
  Readings <- AllReadings
  DataBufSize = 2
  ErrBufSize = 1
  MaxBufferedPages = 1
  MaxStarts = 2
  Cut = "cells"
  Gaps = TRUE
INVARIANT NothingPending
INVARIANT BytesInOrder
INVARIANT LossIsLocal
INVARIANT WaitsForReader
\* Everything may have been delivered and every goroutine have ended.
CHECK_DEADLOCK FALSE
