CONSTANTS
  c1 = c1
  c2 = c2
  NoTx = NoTx
  NB = 2
  Coins = {c1, c2}
  StakeCoin <- MCStakeCoin
  BadTxs <- MCBadTxs
  TriedKeys <- MCMisattributedKeys
  MaxMainHeight = 3
  MaxDisputeTxs = 3
  REDEEM_SAFE_HEIGHT = 1
  REPORT_OUTOF_HEIGHT = 1
  REPORT_LOCK_COIN_HEIGHT = 2
SPECIFICATION Spec
CHECK_DEADLOCK FALSE
INVARIANTS
  HonestReportAnswerable
