SPECIFICATION DomainSpec
CONSTANTS
  Account = {1, 2}
  Card = {2}
  Amount <- MCAmount
  Key = {1, 2}
  Client = {1, 2}
  MaxRequests = 4
  MinCompact = 2
  MinTruncated = 3
  MatchWindow = 2
  ArrivalWindow = 1
INVARIANTS
  
  
  SweepsAreExact
  ForecastIsExact
  ForecastCountsOnce
  BackupIsSound
  BudgetAddsUp
  MigrationsAreExact
  MatchingIsExact
PROPERTIES
  LedgerIsExact
  CalendarIsKept
  
  RelinkKeepsAccounts
CHECK_DEADLOCK FALSE
