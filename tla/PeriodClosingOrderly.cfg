SPECIFICATION OrderlySpec
CHECK_DEADLOCK FALSE
CONSTANTS
  income = income
  s1 = s1
  s2 = s2
  Slots = {s1, s2}
  Accounts = {income}
  Amounts <- Signed
  OpeningAmounts = {}
  MonthsPerYear = 2
  LastYear = 2
  MaxPosts = 2
  MaxReversals = 1
  Todays = {3}
  Lockable = {}
SYMMETRY Symmetry
PROPERTY ClosingIsComplete YearIsComplete YearsCarryEarnings
