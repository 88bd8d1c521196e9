SPECIFICATION ApprovalSpec
CONSTANTS
  d1 = d1
  ann = ann
  bob = bob
  f1 = f1
  f2 = f2
  Documents = {d1}
  Users = {ann, bob}
  Flows = {f1, f2}
  Orders = {1, 2, 3}
  StepsOf <- Steps
  Threshold <- SkipSecond
  Mode <- Modes
  Panels <- SomePanels
  Totals = {1, 5}
  MaxInstances = 2
  NoFlow = NoFlow
INVARIANTS NoStepSkipped NeverStuck
CHECK_DEADLOCK FALSE
