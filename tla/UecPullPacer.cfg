\* Three sinks on one pacer and the fairness of the event list; a target is met
\* in one or two turns of credit.
SPECIFICATION PacerFairSpec
CONSTANTS
  Sinks = {s1, s2, s3}
  CreditPerPull = 1
  MaxCwnd = 2
  MaxAhead = 3
  MaxTarget = 2
  MaxReRequests = 1
INVARIANTS DemandIsQueued
PROPERTIES NoOvertaking DemandIsMet
CHECK_DEADLOCK FALSE
