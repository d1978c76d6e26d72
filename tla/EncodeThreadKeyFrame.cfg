SPECIFICATION EncSpec
CONSTANTS
  e1 = e1
  Enc <- MCEnc
  QueueCapacity <- MCQueueCapacity
  InputBuffers <- MCInputBuffers
  MaxFrame <- MCMaxFrame
  KeyFrame <- MCKeyFrame
  Preamble <- MCPreamble
INVARIANTS
  KeyFrameCarriesParameterSets
CHECK_DEADLOCK FALSE
