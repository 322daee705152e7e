SPECIFICATION FairSpec
CONSTANTS
  w1 = w1
  w2 = w2
  plaid_sync = plaid_sync
  bill_detect = bill_detect
  Workers = {w1, w2}
  Stages <- MCTwoStages
  SyncStage = plaid_sync
  Dependents = {bill_detect}
  Delays = {0}
  MaxCrashes = 1
  MaxAttempts = 2
  LeaseTicks = 1
  MaxDelay = 0
  Skew = 0
PROPERTIES
  RunTellsTheTruth
  RunEventuallySettles
CHECK_DEADLOCK FALSE
