SPECIFICATION FairSpec
CONSTANTS
  Messages = 3
  Stripes = 1
  K = 1
  M = 1
  Windows <- MCWindows
  StartWindow <- MCStartWindow
  LossyThreshold = 1
  RecoverThreshold = 0
  BitmapSize = 3
  MaxBoundaries = 5
  Big = 999
  Variants <- MCVariants
  MaxFaults <- MCMaxFaults
  MaxMsn = 5
  MaxEvents = 3
  Prompt = TRUE
INVARIANTS NothingForgotten BoundariesAscend NeverFails SenderAwake NoTimerWithoutLoss
PROPERTIES FlowFinishes
