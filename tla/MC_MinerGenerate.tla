-------------------------- MODULE MC_MinerGenerate --------------------------
(* TLC instance of MinerGenerate: two stake coins, no script GetMortgageCoinData rejects.  *)
EXTENDS MinerGenerate, TLC

CONSTANTS c1, c2, c3, nullOut

MCCoinsThree == {c1, c2, c3}
MCCoinsTwo == {c1, c2}
MCNoBadCoins == {}
=============================================================================
