CONSTANTS
  x1 = x1
  x2 = x2
  Transfers = {x1, x2}
  BRANCH_CHAIN_MATURITY = 1
  CUSHION_HEIGHT = 1
  MaxSrcHeight = 5
  MaxReorgDepth = 1
  RpcMayFail = TRUE
SYMMETRY MCSymmetry
SPECIFICATION Spec
CHECK_DEADLOCK FALSE
INVARIANTS
  Step2Backed
  PaidAtMostOnce
