\* Two packets and an RTS, with the faults and timeouts of MCBudgets, in every
\* order; the source may stop when it is done or its budget is used up.
SPECIFICATION FairSpec
CONSTANTS
  Packets = 2
  Mtu = 2
  Hdr = 1
  AckSize = 1
  InitCwnd = 4
  Windows <- MCWindows
  MaxRts = 1
  Budgets <- MCBudgets
  SackWindow = 2
  AckThreshold = 4
INVARIANTS NothingForgotten TimerCoversOldest FlightAccounting
INVARIANTS NoMissedSend AckRequestWillFire
PROPERTIES ImplementsFlow FlowFinishes
CHECK_DEADLOCK FALSE
