SPECIFICATION FairSpec
CONSTANTS
  r1 = r1
  r2 = r2
  r3 = r3
  u1 = u1
  accounts = accounts
  bills = bills
  Requests = {r1, r2, r3}
  Users = {u1}
  Routes = {accounts, bills}
  Asks <- MCAsks
  Capacity = 1
  TtlTicks = 2
  MaxWrites = 1
INVARIANTS
  AnswersAreCurrent
PROPERTIES
  TablesAgree
  EveryRequestEnds
CHECK_DEADLOCK FALSE
