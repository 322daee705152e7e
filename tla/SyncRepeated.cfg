SPECIFICATION Spec
CONSTANTS
  s1 = s1
  s2 = s2
  a1 = a1
  a2 = a2
  t1 = t1
  t2 = t2
  Syncers = {s1, s2}
  Accounts = {a1, a2}
  Txns = {t1, t2}
  AccountOf <- MCAccountOf
  Ruled = {t1}
  PageSize = 1
  MaxChanges = 2
  MaxSyncs = 2
  MaxEdits = 2
SYMMETRY MCSymmetry
INVARIANT
  NeverOlderThanCursor
CHECK_DEADLOCK FALSE
