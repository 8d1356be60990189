\* Two ports, three classes: alpha is 1/2, 1/2 and 1.
SPECIFICATION Spec
CONSTANTS
  Ports = {p1, p2}
  Classes = 3
  Buffer = 6
  AlphaNum <- MCAlpha
  AlphaDen = 2
  Weights <- MCWeights
  Cap = 2
  Sizes = {2}
  Trimming = TRUE
  TrimSize = 1
  MaxSize = 2
SYMMETRY PortSymmetry
INVARIANTS BufferIsExact OneService NoFailure NoStarvation NoMonopoly
