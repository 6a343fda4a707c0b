--------------------------- MODULE BranchDispute ---------------------------
(***************************************************************************)
(* The report / prove dispute protocol of src/src/chain/branchchain.cpp,   *)
(* seen from both chains.                                                  *)
(*                                                                         *)
(* Main chain: report, prove and report-reward transactions are checked    *)
(* by CheckBranchDuplicateTx, CheckReportCheatTx, CheckProveTx and         *)
(* CheckReportRewardTransaction; accepted ones enter the block being       *)
(* assembled, whose report-flag cache (BranchCache::mReortTxFlagCache) is  *)
(* written into the branch db table mReortTxFlag when the block connects.  *)
(*                                                                         *)
(* Branch chain: lock-mine-coin and unlock-mine-coin transactions are      *)
(* checked by CheckLockMortgageMineCoinTx / CheckUnlockMortgageMineCoinTx, *)
(* which ask the main chain over RPC for the report or prove transaction   *)
(* and its number of confirmations.                                        *)
(*                                                                         *)
(* The reported branch chain is one linear chain of blocks 1..NB (a block  *)
(* is named by its height); its transactions are <<block, index>> with     *)
(* index 0 the coinbase, 1 the stake transaction, 2 an ordinary one.       *)
(* Whether a transaction is valid is fixed by the constant BadTxs; what a  *)
(* prove can show is decided by the code's checks over that fact.          *)
(***************************************************************************)
EXTENDS Integers, FiniteSets

CONSTANTS
  NB,                      \* number of branch blocks whose headers reach the main chain
  Coins,                   \* mortgage coins (stake UTXOs of the branch miners)
  StakeCoin,               \* StakeCoin[b]: the coin the stake tx vtx[1] of block b spends
  BadTxs,                  \* the branch transactions that are invalid
  NoTx,                    \* the null transaction hash (model value)
  MaxMainHeight,           \* bound on the main chain height
  MaxDisputeTxs,           \* bound on report and prove transactions
  TriedKeys,               \* the flag keys reports and proves are submitted with
  REDEEM_SAFE_HEIGHT,      \* a report may name a block at most this far below the branch tip
  REPORT_OUTOF_HEIGHT,     \* length of the prove window before a reward
  REPORT_LOCK_COIN_HEIGHT  \* confirmations a lock / unlock needs on the main chain

Blocks == 1..NB
TxIdx == 0..2
TxRefs == Blocks \X TxIdx
ReportTypes == {"TX", "COINBASE", "MERKLETREE"}

\* The report flag hash of GetReportTxHashKey / GetProveTxHashKey: the
\* report type with the reported block hash and the reported tx hash.
Keys == ReportTypes \X Blocks \X (TxRefs \cup {NoTx})

NONE == "NONE"
REPORTED == "REPORTED"
PROVED == "PROVED"
Flags == {NONE, REPORTED, PROVED}
Kinds == {"report", "prove", "reward"}
LockStates == {"none", "locked", "unlocked"}

ASSUME ConstantsAssumption ==
  /\ NB \in Nat \ {0}
  /\ StakeCoin \in [Blocks -> Coins]
  /\ BadTxs \subseteq TxRefs
  /\ NoTx \notin TxRefs
  /\ TriedKeys \subseteq Keys
  /\ MaxMainHeight \in Nat
  /\ MaxDisputeTxs \in Nat
  /\ REDEEM_SAFE_HEIGHT \in Nat
  /\ REPORT_OUTOF_HEIGHT \in Nat \ {0}
  /\ REPORT_LOCK_COIN_HEIGHT \in Nat \ {0}

VARIABLES
  branchTip,   \* height of the last branch header in the main chain's BranchDb (mapHeads)
  mainHeight,  \* height of the main chain
  chainTxs,    \* the dispute transactions in connected main chain blocks
  blockTxs,    \* the dispute transactions accepted into the block being assembled
  flag,        \* pBranchDb->mReortTxFlag: report flag hash -> status
  cacheFlag,   \* pBranchCache->mReortTxFlagCache of the block being assembled
  nTx,         \* number of report and prove transactions accepted so far (their ids)
  spent,       \* mortgage coins spent by an accepted report-reward transaction
  coinLock     \* branch tx records: the lock state of each mortgage coin

vars == <<branchTip, mainHeight, chainTxs, blockTxs, flag, cacheFlag, nTx, spent, coinLock>>

\* A dispute transaction: its id, kind, flag key and the main chain height
\* of the block holding it (0 while it is still in the block being assembled).
TxRecs == [id : Nat, kind : Kinds, key : Keys, h : 0..MaxMainHeight]

TxBlock(t) == t[1]
Heads == 1..branchTip
BlockHonest(b) == \A i \in TxIdx : <<b, i>> \notin BadTxs

\* Confirmations the main chain reports for a connected transaction.
Confirmations(t) == mainHeight - t.h + 1

-----------------------------------------------------------------------------
(* Validation predicates, translated from branchchain.cpp.                 *)

\* CheckReportTxCommonly: the reported block is in mapHeads, not above the
\* branch tip and at most REDEEM_SAFE_HEIGHT below it.
CheckReportTxCommonly(b) ==
  /\ b \in Heads
  /\ branchTip - b <= REDEEM_SAFE_HEIGHT

\* CheckReportCheatTx: for TX and COINBASE the SPV proof shows the reported
\* tx in the block spvProof.blockhash, which is any header in mapHeads and
\* is not compared with reportedBlockHash; MERKLETREE only checks the age.
CheckReportCheatTx(k) ==
  LET type == k[1]  b == k[2]  tx == k[3] IN
  /\ type \in {"TX", "COINBASE"} =>
        /\ tx # NoTx
        /\ TxBlock(tx) \in Heads
  /\ CheckReportTxCommonly(b)

\* CheckProveCoinbaseTx over an honest prover's data: the vtx recomputes the
\* header's merkle root, every tx from vtx[2] on is proved with its inputs,
\* and the coinbase pays exactly the fees; the stake tx vtx[1] is skipped.
ProveBlockOK(b) == \A i \in TxIdx \ {1} : <<b, i>> \notin BadTxs

\* CheckProveTx dispatched on the prove type.  For TX (CheckProveReportTx)
\* the tx is found by SPV in its own block, must not be a coinbase and must
\* pass CheckTransactionProveWithProveData; the prove's blockHash field is
\* not checked.  COINBASE and MERKLETREE go to CheckProveCoinbaseTx, which
\* requires txHash to be the coinbase hash, resp. null.
CheckProveTx(k) ==
  LET type == k[1]  b == k[2]  tx == k[3] IN
  \/ /\ type = "TX"
     /\ tx # NoTx
     /\ TxBlock(tx) \in Heads
     /\ tx[2] # 0
     /\ tx \notin BadTxs
  \/ /\ type = "COINBASE"
     /\ b \in Heads
     /\ tx = <<b, 0>>
     /\ ProveBlockOK(b)
  \/ /\ type = "MERKLETREE"
     /\ b \in Heads
     /\ tx = NoTx
     /\ ProveBlockOK(b)

\* Plausible slips in CheckBranchDuplicateTx, each a mutant some property
\* must catch: a report or prove checked against only one of the two layers.
ReportNotDuplicateDbOnly(k) == flag[k] = NONE
ReportNotDuplicateCacheOnly(k) == cacheFlag[k] = NONE
ProveNotDuplicateDbOnly(k) == flag[k] # PROVED

\* CheckBranchDuplicateTx for a report: no flag for the key in cache or db.
ReportNotDuplicate(k) == cacheFlag[k] = NONE /\ flag[k] = NONE

\* CheckBranchDuplicateTx for a prove: the key is not PROVED in cache or db.
ProveNotDuplicate(k) == cacheFlag[k] # PROVED /\ flag[k] # PROVED

\* The prove-window test of CheckReportRewardTransaction, with rpHeight the
\* height of the report's block and curHeight the height of pindex.
ReportAged(rpHeight, curHeight) == ~(rpHeight - curHeight < REPORT_OUTOF_HEIGHT)

-----------------------------------------------------------------------------
(* Main chain actions.                                                     *)

\* A sync-branch-info transaction adds the next branch header to mapHeads.
SyncBranchHeader ==
  /\ branchTip < NB
  /\ branchTip' = branchTip + 1
  /\ UNCHANGED <<mainHeight, chainTxs, blockTxs, flag, cacheFlag, nTx, spent, coinLock>>

\* A report transaction with flag key k is accepted into the block.
AcceptReport(k) ==
  /\ nTx < MaxDisputeTxs
  /\ ReportNotDuplicate(k)
  /\ CheckReportCheatTx(k)
  /\ blockTxs' = blockTxs \cup {[id |-> nTx + 1, kind |-> "report", key |-> k, h |-> 0]}
  /\ cacheFlag' = [cacheFlag EXCEPT ![k] = REPORTED]
  /\ nTx' = nTx + 1
  /\ UNCHANGED <<branchTip, mainHeight, chainTxs, flag, spent, coinLock>>

\* A prove transaction with flag key k is accepted into the block.
AcceptProve(k) ==
  /\ nTx < MaxDisputeTxs
  /\ ProveNotDuplicate(k)
  /\ CheckProveTx(k)
  /\ blockTxs' = blockTxs \cup {[id |-> nTx + 1, kind |-> "prove", key |-> k, h |-> 0]}
  /\ cacheFlag' = [cacheFlag EXCEPT ![k] = PROVED]
  /\ nTx' = nTx + 1
  /\ UNCHANGED <<branchTip, mainHeight, chainTxs, flag, spent, coinLock>>

\* A report-reward transaction for the connected report r is accepted into
\* the block being assembled (pindex is that block): the prove window has
\* passed, the report is not PROVED in the db, and vin[0] spends the stake
\* coin of the reported block.
AcceptReportReward(r) ==
  LET c == StakeCoin[r.key[2]] IN
  /\ r.kind = "report"
  /\ ReportAged(r.h, mainHeight + 1)
  /\ flag[r.key] = REPORTED
  /\ c \notin spent
  /\ blockTxs' = blockTxs \cup {[id |-> 0, kind |-> "reward", key |-> r.key, h |-> 0]}
  /\ spent' = spent \cup {c}
  /\ UNCHANGED <<branchTip, mainHeight, chainTxs, flag, cacheFlag, nTx, coinLock>>

\* Mutant: the connected transactions are stamped one height too high.
ConnectMainBlockOffByOne ==
  /\ mainHeight < MaxMainHeight
  /\ mainHeight' = mainHeight + 1
  /\ chainTxs' = chainTxs \cup {[t EXCEPT !.h = mainHeight + 2] : t \in blockTxs}
  /\ flag' = [k \in Keys |-> IF cacheFlag[k] = NONE THEN flag[k] ELSE cacheFlag[k]]
  /\ cacheFlag' = [k \in Keys |-> NONE]
  /\ blockTxs' = {}
  /\ UNCHANGED <<branchTip, nTx, spent, coinLock>>

\* Mutant: the block cache is not cleared when the block connects.
ConnectMainBlockKeepCache ==
  /\ mainHeight < MaxMainHeight
  /\ mainHeight' = mainHeight + 1
  /\ chainTxs' = chainTxs \cup {[t EXCEPT !.h = mainHeight + 1] : t \in blockTxs}
  /\ flag' = [k \in Keys |-> IF cacheFlag[k] = NONE THEN flag[k] ELSE cacheFlag[k]]
  /\ blockTxs' = {}
  /\ UNCHANGED <<branchTip, nTx, spent, coinLock, cacheFlag>>

\* The block being assembled connects: its transactions get its height and
\* the cache flags are written into the db.
ConnectMainBlock ==
  /\ mainHeight < MaxMainHeight
  /\ mainHeight' = mainHeight + 1
  /\ chainTxs' = chainTxs \cup {[t EXCEPT !.h = mainHeight + 1] : t \in blockTxs}
  /\ flag' = [k \in Keys |-> IF cacheFlag[k] = NONE THEN flag[k] ELSE cacheFlag[k]]
  /\ cacheFlag' = [k \in Keys |-> NONE]
  /\ blockTxs' = {}
  /\ UNCHANGED <<branchTip, nTx, spent, coinLock>>

-----------------------------------------------------------------------------
(* Branch chain actions.                                                   *)

\* lock-mine-coin for the connected report r: getreporttxdata answers with
\* enough confirmations, and coinpreouthash equals the stake coin the main
\* chain returns for the reported block.
LockMortgageMineCoin(r) ==
  /\ r.kind = "report"
  /\ Confirmations(r) >= REPORT_LOCK_COIN_HEIGHT
  /\ coinLock' = [coinLock EXCEPT ![StakeCoin[r.key[2]]] = "locked"]
  /\ UNCHANGED <<branchTip, mainHeight, chainTxs, blockTxs, flag, cacheFlag, nTx, spent>>

\* unlock-mine-coin for the connected prove p, likewise through getprovetxdata.
UnlockMortgageMineCoin(p) ==
  /\ p.kind = "prove"
  /\ Confirmations(p) >= REPORT_LOCK_COIN_HEIGHT
  /\ coinLock' = [coinLock EXCEPT ![StakeCoin[p.key[2]]] = "unlocked"]
  /\ UNCHANGED <<branchTip, mainHeight, chainTxs, blockTxs, flag, cacheFlag, nTx, spent>>

-----------------------------------------------------------------------------
Init ==
  /\ branchTip = 0
  /\ mainHeight = 0
  /\ chainTxs = {}
  /\ blockTxs = {}
  /\ flag = [k \in Keys |-> NONE]
  /\ cacheFlag = [k \in Keys |-> NONE]
  /\ nTx = 0
  /\ spent = {}
  /\ coinLock = [c \in Coins |-> "none"]

Next ==
  \/ SyncBranchHeader
  \/ \E k \in TriedKeys : AcceptReport(k)
  \/ \E k \in TriedKeys : AcceptProve(k)
  \/ \E r \in chainTxs : AcceptReportReward(r)
  \/ \E r \in chainTxs : LockMortgageMineCoin(r)
  \/ \E p \in chainTxs : UnlockMortgageMineCoin(p)
  \/ ConnectMainBlock

\* The reporter keeps submitting the reward for a report once it may, and
\* the main chain keeps producing blocks.
Fairness ==
  /\ WF_vars(ConnectMainBlock)
  /\ \A k \in TriedKeys : WF_vars(\E r \in chainTxs : r.key = k /\ AcceptReportReward(r))

Spec == Init /\ [][Next]_vars
FairSpec == Spec /\ Fairness

-----------------------------------------------------------------------------
(* Properties.                                                             *)

TypeOK ==
  /\ branchTip \in 0..NB
  /\ mainHeight \in 0..MaxMainHeight
  /\ chainTxs \subseteq TxRecs
  /\ blockTxs \subseteq TxRecs
  /\ flag \in [Keys -> Flags]
  /\ cacheFlag \in [Keys -> Flags]
  /\ nTx \in 0..MaxDisputeTxs
  /\ spent \subseteq Coins
  /\ coinLock \in [Coins -> LockStates]

\* Flag monotonicity (spec 8.5): the db status of a report flag never goes
\* back - a PROVED key stays PROVED and a REPORTED key is never cleared -
\* whatever order reports and proves reach the cache and the db in.
FlagNeverRegresses ==
  \A k \in Keys :
    /\ flag[k] = PROVED => flag'[k] = PROVED
    /\ flag[k] = REPORTED => flag'[k] # NONE

FlagMonotone == [][FlagNeverRegresses]_vars

\* The branch db agrees with the main chain: a key is PROVED exactly when a
\* prove with that key is in a connected block, and REPORTED exactly when a
\* report with it is and no prove is (CheckBranchDuplicateTx over the cache
\* of the block being assembled and the db, then the cache write-back).
FlagMatchesChain ==
  \A k \in Keys :
    LET reported == \E t \in chainTxs : t.kind = "report" /\ t.key = k
        proved == \E t \in chainTxs : t.kind = "prove" /\ t.key = k
    IN  /\ flag[k] = PROVED <=> proved
        /\ flag[k] = REPORTED <=> reported /\ ~proved

\* The block cache (mReortTxFlagCache) agrees with the block being
\* assembled: a key is PROVED in the cache exactly when a prove with it is
\* in the block, REPORTED exactly when a report is and no prove is, and a
\* key the cache holds as REPORTED is unknown to the db - the write-back
\* in ConnectMainBlock then never lowers a db flag.
CacheMatchesBlock ==
  \A k \in Keys :
    LET inBlock(kind) == \E t \in blockTxs : t.kind = kind /\ t.key = k
    IN  /\ cacheFlag[k] = PROVED <=> inBlock("prove")
        /\ cacheFlag[k] = REPORTED <=> inBlock("report") /\ ~inBlock("prove")
        /\ cacheFlag[k] = REPORTED => flag[k] = NONE

\* At most one report and at most one prove per flag key ever reach the
\* main chain, the block being assembled included: a report can be
\* rewarded, and answered, only once.
UniqueDisputeTxs ==
  \A t1, t2 \in chainTxs \cup blockTxs :
    (t1.kind \in {"report", "prove"} /\ t1.kind = t2.kind /\ t1.key = t2.key) => t1 = t2

\* Liveness of the reward (spec 4.3, scenario 3): once a report has been in
\* the main chain for REPORT_OUTOF_HEIGHT blocks, it is eventually proved or
\* the reported block's stake coin is paid out by a report-reward.
MatureReportSettles ==
  \A k \in TriedKeys :
    (\E r \in chainTxs : r.kind = "report" /\ r.key = k /\ mainHeight + 1 - r.h >= REPORT_OUTOF_HEIGHT)
      ~> (flag[k] = PROVED \/ StakeCoin[k[2]] \in spent)

\* Spec 4.3: a report and its matching prove collide on the flag key.  A
\* report against a block all of whose transactions are valid can be
\* answered: CheckProveTx accepts a prove carrying the report's key.
HonestReportAnswerable ==
  \A t \in chainTxs \cup blockTxs :
    (t.kind = "report" /\ BlockHonest(t.key[2])) => CheckProveTx(t.key)

\* Spec 3 (lifecycle) and scenario 6: the branch unlocks a mortgage coin only
\* on a prove that answers a report against a block staked by that coin,
\* i.e. a prove in the main chain with the same flag key as such a report.
UnlockAnswersReport ==
  [][\A c \in Coins : coinLock[c] = "locked" /\ coinLock'[c] = "unlocked" =>
       \E r, p \in chainTxs :
         /\ r.kind = "report" /\ p.kind = "prove"
         /\ r.key = p.key
         /\ StakeCoin[r.key[2]] = c]_vars

\* Spec 4.3: a report-reward is accepted only while no prove answers the
\* report, neither in the chain nor in the block the reward goes into.
RewardOnlyUnproved ==
  [][\A w \in blockTxs' \ blockTxs :
       w.kind = "reward" =>
         ~\E p \in chainTxs \cup blockTxs' : p.kind = "prove" /\ p.key = w.key]_vars


=============================================================================
