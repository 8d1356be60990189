\* Two links into a switch whose output queue is paused at will.
SPECIFICATION FairSpec
CONSTANTS
  l1 = l1
  l2 = l2
  Links <- MCLinks
  Outs = {o1}
  High = 2
  Low = 1
  Slots = 1
  Supply <- MCSupply
INVARIANTS EndsAgree Headroom CountIsExact
PROPERTIES AllLeave
CHECK_DEADLOCK FALSE
