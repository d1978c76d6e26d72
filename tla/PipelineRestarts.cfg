SPECIFICATION Spec
CONSTANTS
  e1 = e1
  e2 = e2
  d1 = d1
  Enc <- MCTwoEncoders
  Dec <- MCDec
  QueueCapacity = 1
  InputBuffers = 2
  MaxFrame = 3
  KeyFrame = {2}
  Preamble <- MCNoPreamble
  DecQueueCapacity = 1
  DecInputs = 2
  DecOutputs = 2
INVARIANTS
  CrashNeedsTeardown
  LateDeliveries
PROPERTIES
  EncoderContract
CHECK_DEADLOCK FALSE
