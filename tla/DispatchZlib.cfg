SPECIFICATION Spec
CONSTANTS
  MaxMessages = 1
  MaxLength = 6
  BufferSize = 4
  Handlers = {"client"}
  Opcodes = {"op1", "op2"}
  Wanted = {"op1"}
  Compressions = {"none", "zlib"}
INVARIANT HandlesDecompression
\* A frame that has been processed is the end of the behaviour.
CHECK_DEADLOCK FALSE
