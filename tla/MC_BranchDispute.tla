------------------------- MODULE MC_BranchDispute --------------------------
(* Small instances of BranchDispute for TLC.                                *)
EXTENDS BranchDispute, TLC

CONSTANTS c1, c2

\* Blocks 1 and 2 are staked by different miners.
MCStakeCoin == (1 :> c1) @@ (2 :> c2)

\* The ordinary transaction of block 2 is invalid: its miner cheated.
MCBadTxs == {<<2, 2>>}

\* The keys tried: a true report of the bad tx, a false report of a valid
\* tx, a MERKLETREE and a COINBASE report of the honest block 1.
MCTriedKeys == {<<"TX", 2, <<2, 2>>>>, <<"TX", 1, <<1, 2>>>>,
                <<"MERKLETREE", 1, NoTx>>, <<"COINBASE", 1, <<1, 0>>>>}

\* A report naming the honest block 1 whose SPV proof shows the bad tx of
\* block 2, next to the true report of that tx.
MCMisattributedKeys == {<<"TX", 2, <<2, 2>>>>, <<"TX", 1, <<2, 2>>>>}

\* The true report against block 2, and a prove of the valid tx <<1, 2>>
\* whose unchecked blockHash field names block 2.
MCUnrelatedProveKeys == {<<"TX", 2, <<2, 2>>>>, <<"TX", 2, <<1, 2>>>>}

\* The prove window test as spec 4.3 states it (age of the report at least
\* REPORT_OUTOF_HEIGHT), used by the runs that look past the reversed
\* subtraction of CheckReportRewardTransaction.
ReportAgedAsSpecified(rpHeight, curHeight) == curHeight - rpHeight >= REPORT_OUTOF_HEIGHT

=============================================================================
