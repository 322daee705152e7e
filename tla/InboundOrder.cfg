SPECIFICATION Spec
CONSTANTS
  w1 = w1
  w2 = w2
  item = item
  NoItem = NoItem
  N = 2
  Workers = {w1, w2}
  Item <- MCOneItem
  Key <- MCOwnKeys
  MaxAttempts = 2
  LeaseTicks = 1
  RetryTicks = 1
  MaxReplays = 1
  MaxOutages = 0
SYMMETRY MCSymmetry
INVARIANTS
  OrderIsKept
  DeadAfterAllAttempts
PROPERTIES
  StaleExecutionsAreHarmless
CHECK_DEADLOCK FALSE
