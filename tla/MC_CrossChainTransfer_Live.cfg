CONSTANTS
  x1 = x1
  x2 = x2
  Transfers = {x1, x2}
  BRANCH_CHAIN_MATURITY = 1
  CUSHION_HEIGHT = 1
  MaxSrcHeight = 4
  MaxReorgDepth = 0
  RpcMayFail = FALSE
SPECIFICATION FairSpec
CHECK_DEADLOCK FALSE
PROPERTIES
  StepOneSettles
