CONSTANTS
  noFrom = noFrom
  NoFrom <- noFrom
  MaxBlocks = 3
  TxIdx <- MCTxIdx
SPECIFICATION Spec
INVARIANT
  StaleReadReportable
CHECK_DEADLOCK FALSE
