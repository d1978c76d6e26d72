SPECIFICATION MediaPartsSpec
CONSTANTS
  Thread <- MCThread
  N = 2
  T <- MCT
  Lengths = {1}
  FrameLen = 1
  TextLen = 1
  QueueSize = 1
  MaxUnits = 2
  MaxClicks = 2
  Rates <- MCRates
  VbrMin = 1
  VbrMax = 2
  FrameBytes <- MCFrameBytes
  MinFrameBytes = 2
  CbrRate = 1
  EnforceMin = FALSE
  sideinfo_len = 1
  mode_gr = 2
  BufferConstraint = 56
  ResvLimit = 24
  DisableReservoir = FALSE
  SubstepShaping = FALSE
  MaxGranuleBits = 20
  MaxHeaderBuf = 8
  MaxTotbit = 30
  Loops <- MCLoops
  Bits <- MCBits
  Granule = 2
  ENCDELAY = 2
  MDCTDELAY = 1
  POSTDELAY = 4
  MFNeeded = 7
  MFSIZE = 13
  MaxBunch = 4
  SamplerateOut = 2
  FracSpF = 1
  TagBytes <- MCTagBytes
  MaxTagBytes = 3
  CallSamples <- MCCallSamples
  ArraySizes <- MCArraySizes
INVARIANTS
  SoloCallIsExact
  PlainTextComesBack
  ReservoirAgrees
  HeadersPointAtTheirData
  FlushEndsStream
  BuffersHold
CHECK_DEADLOCK FALSE
