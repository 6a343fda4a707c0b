------------------------ MODULE MC_GetBlockTemplate ------------------------
(* TLC instance of GetBlockTemplate: two callers, one wallet address.  *)
EXTENDS GetBlockTemplate, TLC

CONSTANTS cl1, cl2, a1, noAddr, null

MCClients == {cl1, cl2}
MCAddrs == {a1}
MCBadAddrs == {}
MCSymmetry == Permutations(MCClients)
=============================================================================
