SPECIFICATION Spec
CONSTANTS
  j1 = j1
  j2 = j2
  w1 = w1
  w2 = w2
  u1 = u1
  NoUser = NoUser
  Jobs = {j1, j2}
  Workers = {w1, w2}
  Users = {u1}
  SyncUser <- MCIndependent
  Unrunnable = {}
  Concurrency = 2
  Delays = {1}
  MaxOutages = 0
  MaxAttempts = 2
  LeaseTicks = 1
  MaxDelay = 1
  Skew = 1
SYMMETRY MCSymmetry
INVARIANTS
  TypeOK
  NewestHolds
PROPERTIES
  StaleTasksAreHarmless
