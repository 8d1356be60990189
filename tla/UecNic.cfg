\* One port: two sources, control packets and two retransmission timeouts.
SPECIFICATION FairSpec
CONSTANTS
  Srcs = {s1, s2}
  Ports = 1
  RatioData = 1
  RatioControl = 4
  MaxWant = 2
  MaxControl = 2
  MaxRtos = 2
INVARIANTS WaitingIsQueued NoAbort SharesArePaid
PROPERTIES SourceIsCalled ControlIsSent
CHECK_DEADLOCK FALSE
