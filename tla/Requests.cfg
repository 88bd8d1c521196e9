SPECIFICATION Spec
CONSTANTS
  s1 = s1
  s2 = s2
  r1 = r1
  b1 = b1
  b2 = b2
  owner = owner
  ann = ann
  f1 = f1
  null = null
  Slots = {s1, s2}
  Documents = {r1}
  Contents <- TwoContents
  Budgets = {b1, b2}
  Covers <- Ranges
  NoValue = null
  Users = {owner, ann}
  Flows = {f1}
  Orders = {1}
  StepsOf <- OneStep
  Threshold <- NoThreshold
  Mode <- Everybody
  Panels <- OnlyAnn
  Totals = {1}
  MaxInstances = 1
  NoFlow = null
INVARIANTS TypeOK OneEvent
PROPERTIES EndReleasesBudgets RealizedIsFinal
CHECK_DEADLOCK FALSE
