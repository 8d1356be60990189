\* Data packets of two sizes and a low queue that holds two or three of them.
SPECIFICATION Spec
CONSTANTS
  MaxSize = 4
  Sizes = {2, 3}
  TrimSize = 1
  RatioHigh = 3
  RatioLow = 2
  MaxForced = 6
INVARIANTS ServiceIsRight BytesAreBounded SharesAreKept
