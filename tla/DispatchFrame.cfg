SPECIFICATION Spec
CONSTANTS
  MaxMessages = 2
  MaxLength = 5
  BufferSize = 6
  Handlers = {"client", "gameEvent", "keepalive"}
  Opcodes = {"op1", "op2"}
  Wanted = {"op1"}
  Compressions = {"none", "zlib", "oodle"}
INVARIANT CalledForEachMessage
INVARIANT DecodeFindsMessage
INVARIANT BodiesIntact
\* A frame that has been processed is the end of the behaviour.
CHECK_DEADLOCK FALSE
