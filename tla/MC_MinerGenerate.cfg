CONSTANTS
  c1 = c1
  c2 = c2
  c3 = c3
  nullOut = nullOut
  NullOut <- nullOut
  Coins <- MCCoinsThree
  BadCoins <- MCNoBadCoins
  Request = 3
  MaxTries = 5
  TRY_TIMES = 2
  BigBoomLeft = 1
SPECIFICATION Spec
INVARIANTS
  TypeOK
  NoModuloByZero
  NoSpentCoinTried
  AtMostRequested
CHECK_DEADLOCK FALSE
