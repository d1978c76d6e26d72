SPECIFICATION VideoSpec
CONSTANTS
  Thread <- MCThread
  N = 2
  T <- MCT
  Lengths = {1}
  FrameLen = 1
  TextLen = 1
  QueueSize = 1
  MaxUnits = 2
  MaxClicks = 2
INVARIANTS
  KeyFramesAreDecrypted
CHECK_DEADLOCK FALSE
