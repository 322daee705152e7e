SPECIFICATION FairSpec
CONSTANTS
  w1 = w1
  w2 = w2
  item = item
  NoItem = NoItem
  N = 2
  Workers = {w1}
  Item <- MCOneItem
  Key <- MCSameKey
  MaxAttempts = 2
  LeaseTicks = 1
  RetryTicks = 1
  MaxReplays = 1
  MaxOutages = 1
INVARIANTS
  DuplicatesApplyOnce
PROPERTIES
  EveryEventSettles
CHECK_DEADLOCK FALSE
