SPECIFICATION OpenSpec
CONSTANTS
  income = income
  s1 = s1
  s2 = s2
  Slots = {s1, s2}
  Accounts = {income}
  Amounts <- Signed
  OpeningAmounts = {1, 2}
  MonthsPerYear = 2
  LastYear = 1
  MaxPosts = 2
  MaxReversals = 1
  Todays = {1, 2}
  Lockable = {2}
SYMMETRY Symmetry
INVARIANT TypeOK ClosingsInLedger OpeningInLedger
PROPERTY LockedMonthFrozen
