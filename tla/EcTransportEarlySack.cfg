SPECIFICATION Spec
CONSTANTS
  Messages = 3
  Stripes = 1
  K = 1
  M = 1
  Windows <- SmallWindows
  StartWindow <- SmallStartWindow
  LossyThreshold = 1
  RecoverThreshold = 0
  BitmapSize = 3
  MaxBoundaries = 5
  Big = 999
  Variants <- OneEcCc
  MaxFaults <- NoFaults
  MaxMsn = 5
  MaxEvents = 3
  Prompt = TRUE
INVARIANT OriginalsFirst
