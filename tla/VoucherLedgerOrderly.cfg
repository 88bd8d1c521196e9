SPECIFICATION OrderlySpec
CONSTANTS
  e1 = e1
  a1 = a1
  t1 = t1
  r1 = r1
  r2 = r2
  u1 = u1
  u2 = u2
  s1 = s1
  s2 = s2
  NoUser = NoUser
  NoVoucher = NoVoucher
  Slots = {s1, s2}
  Users = {u1, u2}
  Events = {e1}
  Analysis = {a1}
  Template = {t1}
  Reversal = {r1}
  Words = {"general"}
  EventOf <- OneEvent
  WordOf <- GeneralWord
  PeriodOf <- FirstMonth
  Amounts = {1}
  LastPeriod = 2
  MaxStamp = 4
  MaxSeq = 3
SYMMETRY Symmetry
INVARIANT DutiesSeparated LifecycleAgrees
PROPERTY ImplementsBook PostedIsFinal
