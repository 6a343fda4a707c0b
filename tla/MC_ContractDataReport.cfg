CONSTANTS
  noFrom = noFrom
  NoFrom <- noFrom
  MaxBlocks = 3
  TxIdx <- MCTxIdx
SPECIFICATION Spec
INVARIANT
  ContractReportSound
CHECK_DEADLOCK FALSE
