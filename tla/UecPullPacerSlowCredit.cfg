\* Expected violation: the limit on speculative credit.
SPECIFICATION PacerSpec
CONSTANTS
  Sinks = {s1, s2}
  CreditPerPull = 2
  MaxCwnd = 3
  MaxAhead = 4
  MaxTarget = 4
  MaxReRequests = 0
INVARIANTS SlowCreditBounded
CHECK_DEADLOCK FALSE
