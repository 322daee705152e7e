SPECIFICATION ProgressSpec
CONSTANTS
  Occs = {1, 2}
  Income = {}
  Txns = {1, 2, 3}
  OnCard = {3}
  Fits <- MCFits
  Distance <- MCDistance
  Replaces <- MCReplaces
  NoTxn = 0
  MaxEdits = 2
  MaxRollbacks = 1
PROPERTIES
  PaymentsStand
  HoldsEnd
  
  WorkIsSwept
CHECK_DEADLOCK FALSE
