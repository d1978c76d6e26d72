SPECIFICATION Spec
CONSTANTS
  e1 = e1
  e2 = e2
  d1 = d1
  Enc <- MCOneEncoder
  Dec <- MCDec
  QueueCapacity = 1
  InputBuffers = 2
  MaxFrame = 3
  KeyFrame = {1}
  Preamble <- MCPreamble
  DecQueueCapacity = 1
  DecInputs = 1
  DecOutputs = 2
INVARIANTS
  BufferAccounting
PROPERTIES
  QueueDrains
  MainUnblocks
  AbandonedEncoderSettles
CHECK_DEADLOCK FALSE
