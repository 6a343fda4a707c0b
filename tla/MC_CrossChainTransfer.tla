----------------------- MODULE MC_CrossChainTransfer -----------------------
(* TLC instance of CrossChainTransfer: two step1s, maturity 1, cushion 1.  *)
EXTENDS CrossChainTransfer, TLC

CONSTANTS x1, x2

MCSymmetry == Permutations({x1, x2})

=============================================================================
