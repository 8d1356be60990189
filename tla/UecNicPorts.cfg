\* Expected violation: a retransmission timeout on a host with two ports.
SPECIFICATION Spec
CONSTANTS
  Srcs = {s1, s2}
  Ports = 2
  RatioData = 1
  RatioControl = 10
  MaxWant = 2
  MaxControl = 2
  MaxRtos = 1
INVARIANTS RtxQueueNotEmpty
CHECK_DEADLOCK FALSE
