SPECIFICATION JpegAndBallSpec
CONSTANTS
  DCTSIZE = 2
  DCTSIZE2 = 6
  MAX_DIMENSION = 10
  MAX_SAMP_FACTOR = 2
  MAX_COMPS_IN_SCAN = 2
  C_MAX_BLOCKS_IN_MCU = 5
  D_MAX_BLOCKS_IN_MCU = 5
  MAX_AH_AL = 2
  MAX_INTERVAL = 3
  MAX_CODE_LEN = 5
  MAX_CLEN = 12
  MAX_SYMBOLS = 31
  MAX_DC_SYMBOL = 4
  MAX_AC_SYMBOL = 63
  MAX_RUN = 2
  MAX_EOBRUN = 3
  MAX_CORR_BITS = 7
  StdTables <- MCStdTables
  Settings <- MCSettings
  Coefs <- MCCoefs
  LineCounts = {3}
  MaxImages = 2
  MaxSuspensions = 2
  MaxBufferLines = 3
  MaxStarvations = 1
  MaxLost = 2
  Plans <- MCPlans
  Widths <- MCWidths
  BallWidth = 2
  Slop = 1
  MaxHides = 2
  MaxMessages = 2
INVARIANTS
  RowsAccounted
  EveryScanIsWritten
  CorrectionBitsFit
  PictureComesBack
  BallInReach
PROPERTIES
  CrashNeedsLateHide
  FingerKeepsBall
  BallHides
