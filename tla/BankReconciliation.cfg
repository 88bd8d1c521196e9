SPECIFICATION OneRunSpec
CONSTANTS
  l1 = l1
  l2 = l2
  v1 = v1
  v2 = v2
  s1 = s1
  s2 = s2
  Slots = {s1, s2}
  Lines = {l1, l2}
  Vouchers = {v1, v2}
  Candidates = {k1}
  Days = {1, 2}
  LineDay <- DayOfLine
  LineAmount <- AmountOfLine
  Created <- DayCreated
  EntryDay <- DayEntered
  Total <- TotalOf
  BankAmount <- OnAccount
  Keywords <- Words
  NameBonus <- Bonus
  Tolerance = 1
  AutoConfirmThreshold = 85
  Statuses = {"unmatched", "auto", "manual", "excluded"}
  NoVoucher = NoVoucher
SYMMETRY Symmetry
INVARIANT TypeOK RaisedOnce MatchedBalances
PROPERTY AutoIsClose SealedByOverlapOnly
CHECK_DEADLOCK FALSE
