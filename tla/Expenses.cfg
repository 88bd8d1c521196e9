SPECIFICATION Spec
CONSTANTS
  s1 = s1
  s2 = s2
  r1 = r1
  r2 = r2
  a1 = a1
  inv = inv
  null = null
  employee = employee
  manager = manager
  Slots = {s1, s2}
  Users = {employee, manager}
  Managers = {manager}
  Advances = {a1}
  Reimbursements = {r1, r2}
  Invoices = {inv}
  Claims <- BothClaims
  Amounts = {1}
  NoValue = null
  MaxRepaid = 1
SYMMETRY Symmetry
INVARIANTS InvoiceClaimedOnce OneVoucher
CHECK_DEADLOCK FALSE
