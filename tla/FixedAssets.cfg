SPECIFICATION OrderlySpec
CONSTANTS
  s1 = s1
  s2 = s2
  a1 = a1
  a2 = a2
  Slots = {s1, s2}
  Assets = {a1, a2}
  Cards <- SomeCards
  Months = 3
  Prices = {5}
  NoPrice = NoPrice
INVARIANTS TypeOK
PROPERTIES ChargedInTurn NothingAfterDisposal
SYMMETRY Symmetry
CHECK_DEADLOCK FALSE
