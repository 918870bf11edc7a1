SPECIFICATION Spec
CONSTANTS
  MaxMessages = 2
  MaxLength = 5
  BufferSize = 6
  Handlers = {"client"}
  Opcodes = {"op1", "op2"}
  Wanted = {"op1"}
  Compressions = {"none"}
INVARIANT AllBodiesIntact
\* A frame that has been processed is the end of the behaviour.
CHECK_DEADLOCK FALSE
