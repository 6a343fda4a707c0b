----------------------- MODULE MC_ContractDataReport -----------------------
(* TLC instance of ContractDataReport: three branch blocks of two contract *)
(* transactions each.                                                     *)
EXTENDS ContractDataReport

CONSTANTS noFrom

MCTxIdx == {1, 2}
=============================================================================
