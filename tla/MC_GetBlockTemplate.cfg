CONSTANTS
  cl1 = cl1
  cl2 = cl2
  a1 = a1
  noAddr = noAddr
  null = null
  Clients <- MCClients
  Addrs <- MCAddrs
  BadAddrs <- MCBadAddrs
  NoAddr <- noAddr
  NULL <- null
  MaxTip = 1
  MaxTxUpd = 1
  MaxTime = 1
  STALE_SECS = 0
SPECIFICATION FairSpec
INVARIANTS
  ServedOnTip
  SegwitMatches
PROPERTY
  LongpollWakes
  ServiceSpec
CHECK_DEADLOCK FALSE
