CONSTANTS
  cl1 = cl1
  cl2 = cl2
  a1 = a1
  noAddr = noAddr
  null = null
  Clients <- MCClients
  Addrs <- MCAddrs
  BadAddrs <- MCBadAddrs
  NoAddr <- noAddr
  NULL <- null
  MaxTip = 2
  MaxTxUpd = 1
  MaxTime = 2
  STALE_SECS = 1
SYMMETRY MCSymmetry
SPECIFICATION Spec
INVARIANTS
  PayeeAsRequested


CHECK_DEADLOCK FALSE
