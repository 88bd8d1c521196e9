SPECIFICATION Spec
CONSTANTS
  s1 = s1
  s2 = s2
  p1 = p1
  p2 = p2
  p3 = p3
  t1 = t1
  b1 = b1
  b2 = b2
  Slots = {s1, s2}
  Targets = {t1}
  Schedules = {t1}
  Due <- OneDue
  Payments = {p1, p2, p3}
  Amounts = {1}
  Months = {1}
  Refs = {b1}
CHECK_DEADLOCK FALSE
SYMMETRY Symmetry
INVARIANT OneVoucher SentIsRecorded FinalIsTrue DraftsAreNotSent OverpaymentBounded
