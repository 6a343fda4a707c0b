# Formal models of the MagnaChain branch-chain protocol

This directory holds TLA+ models of the MagnaChain code under `src/`. It has
TLC configurations that check them on small instances, and TLAPS proofs of
their main invariants for every value of the constants. `PROJECT.json` lists
the components, runs, mutants, the map from definitions to source lines,
findings, hazards and theorems.

## The system

MagnaChain runs a main chain and branch chains. The code in
`src/src/chain/branchchain.cpp` carries three protocols between them.

* **Header sync.** Branch block headers are submitted to the main chain as
  sync-branch-info transactions (`SendBranchBlockHeader`,
  `CheckBranchBlockInfoTx`). The main chain keeps them in the branch db
  (`BranchData::mapHeads`).
* **Dispute (report / prove / reward / lock / unlock).**
  * Anyone may *report* a branch block that holds a bad transaction
    (`CheckReportCheatTx`).
  * The block's miner answers with a *prove* (`CheckProveTx`,
    `CheckProveReportTx`, `CheckProveCoinbaseTx`).
  * A CONTRACT_DATA report claims that a branch transaction read stale
    contract data; `CheckProveContractData` decides it from the prev-data
    positions the block committed.
  * A report and its prove share a *flag key* (`GetReportTxHashKey`,
    `GetProveTxHashKey`).
  * `CheckBranchDuplicateTx` admits at most one report and one prove per key.
    It looks at the cache of the block being assembled (`mReortTxFlagCache`)
    and at the db (`mReortTxFlag`).
  * A report still unproved after `REPORT_OUTOF_HEIGHT` blocks earns a
    *report-reward* (`CheckReportRewardTransaction`). The reward spends the
    reported block's stake coin.
  * On the branch chain, the stake coin is *locked* once the report has
    `REPORT_LOCK_COIN_HEIGHT` confirmations on the main chain
    (`CheckLockMortgageMineCoinTx`, an RPC `getreporttxdata`). It is
    *unlocked* likewise by a prove (`CheckUnlockMortgageMineCoinTx`,
    `getprovetxdata`).
* **Cross-chain transfer.** A step1 transaction on one chain is answered by
  a step2 on the other. `ProcessBlockBranchChain` sends it once the step1
  block is deep enough; `CheckBranchTransaction` checks it.

`src/unnamed/part_000` holds the mining RPCs: `generateBlocks`,
`getblocktemplate` and `submitblock`.

## Modules

| module | models |
|---|---|
| `BranchDispute` | header sync (abstracted to growth of `mapHeads`) and the whole dispute protocol for the TX, COINBASE and MERKLETREE report types |
| `MC_BranchDispute` | TLC instance: 2 branch blocks of 3 txs, 2 stake coins, a fixed set of tried keys |
| `BranchDispute_proofs` | TLAPS proofs: type correctness, flag/chain agreement, cache/block agreement, flag monotonicity, unique reports and proves per key |
| `CrossChainTransfer` | step1 to step2 transfer: `ProcessBlockBranchChain`, `BranchChainTransStep2`, `CheckBranchTransaction`'s confirmation check, the `IsTxRecvRepeat` dedupe, and reorganisations of the source chain |
| `MC_CrossChainTransfer` | TLC instance: two transfers, symmetric |
| `MinerGenerate` | the mining RPCs `generate` (`generateblockcommon`, `genforbigboomimp`) and `generatetoaddress`, down to each iteration of `generateBlocks` |
| `MC_MinerGenerate` | TLC instance: three stake coins, a request of three blocks, one big-boom block left |
| `MinerGenerate_proofs` | TLAPS proofs: `RemoveAt` and ordering lemmas, the loop's inductive invariant, `NoModuloByZero`, `NoSpentCoinTried`, and the request accounting behind `AtMostRequested` |
| `CrossChainTransfer_proofs` | TLAPS proofs: type correctness, step2s stay backed by their step1, and each step1 paid at most once |
| `GetBlockTemplate` | `getblocktemplate` in template mode: concurrent callers, the long-poll wait, and the static template cache with its rebuild test and failing rebuilds |
| `TemplateService` | what `getblocktemplate` promises its callers, without the cache: the abstract specification `GetBlockTemplate` refines |
| `ContractDataReport` | the CONTRACT_DATA fraud proof: a tree of branch blocks reading and writing one contract, honest and cheating miners, and `CheckProveContractData` |
| `MC_ContractDataReport` | TLC instance: three branch blocks (forks allowed), two contract transactions per block |
| `MC_GetBlockTemplate` | TLC instance: two callers, one wallet address, one new block |
| `GetBlockTemplate_proofs` | TLAPS proofs: served templates sit on the current tip and match the caller's segwit support; `GetBlockTemplate` implements `TemplateService` |

### BranchDispute: state

| variable | code |
|---|---|
| `branchTip` | height of `mapHeads`; headers `1..branchTip` are known |
| `mainHeight` | `chainActive` height |
| `chainTxs` | report / prove / reward txs in connected main blocks, each with its block height `h` |
| `blockTxs` | txs of the block being assembled (`pindex`) |
| `flag` | `mReortTxFlag` / `mapReportStatus` (db) |
| `cacheFlag` | `mReortTxFlagCache` (`BranchCache` of the block being assembled) |
| `spent` | stake coins already spent by a report-reward (the UTXO set's double-spend rule) |
| `coinLock` | lock state of each stake coin on the branch chain |
| `nTx` | count of report and prove txs, used only as a bound |

### BranchDispute: data abstraction

* A transaction of a branch block is `<<block, index>>`. Index 0 is the
  coinbase and index 1 the stake tx.
* `BadTxs` are the txs that fail `CheckTransactionProveWithProveData`.
* An SPV proof is abstracted to "this tx is in that block".
* A flag key is the triple `<<type, reportedBlock, reportedTx>>` that the
  hash writers serialize. `NoTx` is the null hash.

### BranchDispute: actions

| action | code |
|---|---|
| `AcceptReport` / `AcceptProve` | `CheckBranchDuplicateTx` + `CheckReportCheatTx` / `CheckProveTx`, then the cache write |
| `AcceptReportReward` | `CheckReportRewardTransaction`, including the prove-window test `ReportAged` as written |
| `ConnectMainBlock` | stamps heights and writes the cache back into the db |
| `LockMortgageMineCoin` / `UnlockMortgageMineCoin` | the branch checks; the main chain's RPC answer is read from `chainTxs` |

`ConnectMainBlock`, `AcceptReport`, `AcceptProve` and `Init` model code that
is not in `src/` (mempool acceptance, `ConnectBlock`, the `BranchDb` flush).
They are modelled from the spec and marked `spec_modelled` in the map.

### CrossChainTransfer: state and actions

The source chain S holds the step1s; the target chain T answers with step2s.
A transfer is a model value. The step2 of a transfer is one fixed
transaction, so it is named by its step1.

| variable | code |
|---|---|
| `srcChain` | S's `chainActive`; each block is the set of step1s it holds |
| `srcPool` | step1s in S's mempool, including those a reorganisation returns |
| `srcMax` | highest tip S has reached; reorganisations stay within `MaxReorgDepth` of it |
| `tPool` | step2s in T's mempool |
| `tRecords` | `pBranchChainTxRecordsDb`: step1s whose step2 T has connected |
| `tPaid` | number of step2s T connected per step1 (a double payment shows as 2) |

| action | code |
|---|---|
| `ConnectSrcBlock(B)` | S connects a block. It then runs the whole of `ProcessBlockBranchChain` on the new tip: the block at depth `BRANCH_CHAIN_MATURITY + CUSHION_HEIGHT` is read, and `BranchChainTransStep2` is called once per step1. Each call either succeeds (T admits the step2) or fails and is only logged. |
| `ReorgSrc(d)` | S disconnects its last `d` blocks. Their step1s return to the mempool. |
| `RelayStep2(x)` | another node relays the step2 of `x`, and T's mempool admits it. |
| `MineTgtBlock` | T connects every mempool step2 that passes `CheckBranchDuplicateTx` and `CheckBranchTransaction` now, and records them. |

T's admission checks (`AcceptStep2`) are `IsTxRecvRepeat` and the RPC check
that the step1 has at least `BRANCH_CHAIN_MATURITY + 1` confirmations on S.
The local checks (revert hash, amounts, mortgage script) are taken to hold,
because the step2 is built from its step1. Block connection and mempool
acceptance on either chain are not in `src/`: those actions are
`spec_modelled`.

### MinerGenerate: state and actions

`generateBlocks` runs on the RPC thread. The model takes one iteration of
its `while` loop as one step. A block hash is abstracted to the block's
stake coin. A block spends its stake coin, and the coin stays unavailable
to the wallet for the rest of the RPC, because a coinstake output is not
mature.

| variable | code |
|---|---|
| `rpc`, `pc` | which RPC runs; whether it is in `generateblockcommon`'s loop (`outer`), in `generateBlocks` (`inner`), returned (`done`) or threw (`thrown`) |
| `numGenerate`, `tryTimes`, `result` | `num_generate`, `iTryTimes`, `genBlockRet` |
| `caller`, `genBigBoom` | the call site of the running `generateBlocks`, and `genbigboomnum` |
| `vecOutput`, `nTries`, `nHeight`, `nHeightEnd`, `maxTries`, `hashes` | the locals of `generateBlocks` |
| `spent`, `mined`, `callCoins` | ghost state: the coins spent and the blocks connected by this RPC, and the `vecOutput` the call started with |

| action | code |
|---|---|
| `StartCommon` | `genforbigboomimp`: `generateBlocks` over the single dummy output |
| `CommonRound` | one round of `generateblockcommon`'s loop: `AvailableCoins`, sorted (any order), passed to `generateBlocks` |
| `CommonDone` | the loop ends and `genBlockRet` is returned |
| `ToAddress` | `generatetoaddress`: one `generateBlocks` over the address's coins |
| `GenerateBlocksSkip` | an iteration ending in `nTries++; continue` (bad script, `CreateNewBlock` or `SignBlock` fails) |
| `GenerateBlocksTry(ok)` | an iteration that reaches `CheckBlockWork` with outcome `ok`. It runs `ProcessNewBlock` (which throws on a spent stake), the erase and the `break`. |
| `GenerateBlocksExit` | the loop condition fails and `blockHashes` goes back to the caller (`ReturnBlocks`): a round subtracts what it got (`ReturnToRound`, lines 404-408), the big-boom call subtracts what it asked for (`ReturnToBigBoom`, 379-383), `generatetoaddress` returns it (`ReturnToAddress`, 564) |

### GetBlockTemplate: state and actions

`getblocktemplate` holds `cs_main` from line 749 to its return, except
while a long-poll waits (851-875). So a plain request is one atomic step, and
a long-poll is two: entering the wait and waking up. The template cache
lives in function statics shared by every caller. A template is abstracted
to its prev block, its payee (an address from `params[0]`, or `NoAddr` for a
keypool key) and its segwit flag.

| variable | code |
|---|---|
| `tip`, `txUpd`, `clock` | `chainActive.Tip()`, `mempool.GetTransactionsUpdated()`, `GetTime()` |
| `pindexPrev`, `nStart`, `nTxUpdLast`, `fLastSegwit`, `tmpl` | the statics of lines 826 and 887-892 |
| `pc`, `req` | per caller: waiting in the long-poll or not, and its request (address, segwit support) |
| `watched`, `lpid`, `resp` | per caller: the longpollid it waits on, and the longpollid and template of its last response (`NoTemplate` after an error) |

| action | code |
|---|---|
| `Request(c, r)` | a call without `longpollid`, served at once by `ServeTemplate` |
| `StartLongpoll(c, r)` | a call with the longpollid of its last response; it leaves `cs_main` |
| `LongpollWake(c)` | `WaitEnds` holds (the tip moved, or the timer found the mempool changed); the call re-enters `cs_main` and is served |
| `ServeTemplate` | the rebuild test (`NeedRebuild`, 893-895); then a successful rebuild (`RebuildOK`), a rebuild that throws after the statics were reset (`RebuildFails`), or the cached template |
| `NewTip`, `MempoolUpdate`, `Tick` | the environment (validation and the mempool, not in `src/`): `spec_modelled` |

### GetBlockTemplate refines TemplateService

`TemplateService` has the same variables as `GetBlockTemplate` except the
five statics, which it has not. Its `Answer(c, r)` gives the caller either
an error (`NoTemplate`, no longpollid) or any template on the current tip
with the caller's segwit support and a valid payee (an address outside
`BadAddrs`, or a keypool key), with a longpollid naming the tip and a
mempool counter not ahead of the mempool. `LongpollWake` may answer only
once the tip or the mempool counter moved past the longpollid the caller
waits on. The refinement mapping is the identity on the shared variables
(`Service == INSTANCE TemplateService`), and `ServiceSpec == Service!Spec`
is a property of `template_cache`. The abstract service does not promise the
requested payee: that is the finding of `template_wrong_payee`.

### ContractDataReport: state and actions

A branch block commits, for each contract transaction, the position
`<<block, txIndex>>` of the write of contract C it read (`dataFrom`, part of
`hashMerkleRootWithPrevData`). The model keeps one contract C and abstracts
each block to its height, its ancestors, which of its transactions write C
and the positions they recorded.

| definition | code |
|---|---|
| `nBlocks`, `height`, `anc` | `BranchData::mapHeads`, `BranchBlockData::nHeight`, what `GetAncestor` walks |
| `writes`, `dataFrom` | the prove's `proveContractData` and the reported tx's `reportedContractPrevData.dataFrom` |
| `MineBlock(p, w, c, bad)` | a block on parent `p` whose transactions `w` write C; honest miners record the last write on their chain (`LastWrite`), a cheating one records `bad` for its tx `c` |
| `CheckProveContractData(R, i, P, j)` | lines 1477-1527 once the SPV proofs hold: the prove block is an ancestor of the reported one, then `StaleWitness` (1514-1523) |
| `StaleRead(R, i)` | the reference: tx `i` of `R` recorded something other than the last write of C before it |

The executor that computes `dataFrom` is not in `src/`, so mining is
`spec_modelled`. Every report the committed data admits is evaluated in
every state, which stands for the SPV proofs (they admit only committed
data).

## Runs

| run | expect | shows |
|---|---|---|
| `dispute_safety` | pass | `TypeOK`, `FlagMatchesChain`, `CacheMatchesBlock`, `UniqueDisputeTxs`, `FlagMonotone` (action). No liveness is checked here: with the spec's window, `MatureReportSettles` would only restate the fairness on the reward, and once a prove is deep enough the unlock test at line 1740 stays true, so an unlock property would only restate its sender's persistence. The prove-window test is replaced by the spec's form (`ReportAgedAsSpecified`) so that rewards happen. About 86,000 states. |
| `reward_window` | violation | The window test at line 1586 is reversed; an aged report is never rewarded. |
| `misattributed_report` | violation | A report can blame an honest block, and no prove can answer it. |
| `unlock_unrelated_prove` | violation | A prove answering no report unlocks a coin locked by a true report. |
| `contract_false_accusation` | violation | `ContractReportSound`: `CheckProveContractData` accepts a report against an honest transaction. Block 1's tx 1 writes C; block 2's tx 1 reads that write (the latest) and writes C itself. The report (reported tx = prove tx = block 2, tx 1) passes line 1520 because block 2 is higher than block 1. No prove type answers a CONTRACT_DATA report. |
| `crosschain_safety` | pass | `Step2Backed` and `PaidAtMostOnce`, under failing RPCs, relays, and source reorganisations one block deep with maturity 1. |
| `crosschain_liveness` | pass | `StepOneSettles`: with reliable RPCs and no reorganisation, every step1 buried deep enough is paid on T. |
| `lost_step2` | violation | `StepOneSettles` with failing RPCs: one failed `makebranchtransaction` leaves a step1 unpaid for ever, because `ProcessBlockBranchChain` (line 772) fires once and never retries. The spec (4.4) calls a connection failure retryable. |
| `miner_loop` | pass | `TypeOK`, `NoModuloByZero`, `NoSpentCoinTried`, `AtMostRequested` over both RPCs, big-boom blocks and two rounds. About 5,000 states. |
| `miner_drops_unspent_coin` | violation | `TriedCoinKeptUnlessSpent`: a coin that failed `CheckBlockWork` is erased from `vecOutput` (part_000:274), against the comment "remove mine success coin, which is spent". |
| `template_cache` | pass | `ServedOnTip`, `SegwitMatches`, `LongpollWakes` and `ServiceSpec` (the refinement): two callers mixing requests, long-polls and failing rebuilds with a new block, a mempool change and time. |
| `template_wrong_payee` | violation | `PayeeAsRequested`: the rebuild test (part_000:893) ignores `params[0]`, described as "Address for coinbase out and signature". A caller naming an address is served the cached template that pays the previous caller's address or keypool key. |

Each violation run is a finding in `PROJECT.json`.

`MC_MinerGenerate_Exhausted.cfg` is kept beside them but is not a run:
`generate 3` with two stake coins mines two blocks, then the next round of
`generateblockcommon` throws "no address with enough coins", and the RPC
reports an error instead of the two hashes (`BlocksReported` is violated).
This only happens if a coinstake output stays unavailable to the wallet for
the rest of the RPC. That maturity rule is not in `src/`, so this is listed
as a hazard, not a finding.

Two more configurations are kept beside the runs.

* `MC_BranchDispute_RewardRace.cfg` corrects the window test at line 1586.
  Then `RewardOnlyUnproved` is violated: the reward reads only the db
  (line 1602), so a prove and the reward for the same report enter one
  block. As written, the window test rejects every reward first.
* `MC_ContractDataReport_Complete.cfg` checks `StaleReadReportable`, the
  completeness the spec's scenario 3 asks for. TLC finds it violated: a
  cheating miner records a write at or after the reading transaction, and no
  prove makes `StaleWitness` hold.

Each property of the passing run has a mutant. The mutant is a plausible slip
in the code: a duplicate check that looks at only one layer, a reward that
a cache that is not cleared, or heights off by one. TLC finds
each mutant's property violated.

### Bounds

* Two branch blocks suffice for both kinds of report. One block can be
  honest and one bad. A report can then name one block while its tx lies in
  the other.
* `MaxMainHeight = 3` allows a report, a prove and a reward in separate main
  blocks, or two of them in one block.
* `MaxDisputeTxs = 3` bounds the report and prove transactions.
* `REPORT_LOCK_COIN_HEIGHT = 2` makes lock and unlock wait for a second
  block.
* `TriedKeys` is a bounded set of keys. It holds the reports an attacker and
  a miner would try: a true TX report, a false TX report, a MERKLETREE and a
  COINBASE report. The violation runs use sets chosen for the hazard.

For `CrossChainTransfer`:

* `BRANCH_CHAIN_MATURITY = CUSHION_HEIGHT = 1` and `MaxSrcHeight = 5`. A
  step1 in block 1 or 2 reaches `ProcessBlockBranchChain` and T's
  confirmation check. A one-block reorganisation can then remove a step1
  after its step2 was sent but before it was mined.
* Two transfers let one be paid while the other's call fails. They are
  interchangeable, so symmetry is used.
* The liveness runs use `MaxSrcHeight = 4` and no reorganisation. The
  property only asks about step1s whose block S can bury deep enough within
  the bound.

For `MinerGenerate`, three coins and a request of three let a round empty
`vecOutput` (all three tried), so the `break` matters. `MaxTries = 5`
lets the loop run past the number of coins. `TRY_TIMES = 2` gives a second
round after a first one came back short. `BigBoomLeft = 1` exercises
`genforbigboomimp` and its accounting. The exhausted-wallet configuration uses two
coins, so that the request outruns the wallet.

For `GetBlockTemplate`, two callers let one rebuild or fail while the other
is served from the cache or waits. One address and `NoAddr` give two
payees, enough to tell a payee apart. `MaxTip = 1` lets the tip move under
a waiting long-poll or between two requests served from the cache.
`MaxTime = 1` with `STALE_SECS = 0` makes a mempool change both young and
old enough to rebuild. The payee run uses `MaxTip = 2` and `MaxTime = 2`,
with symmetry over the callers because it checks no liveness. The runs do not check deadlock: a long-poll waits for ever once the
bounded tip and mempool stop changing, as the code does.

For `ContractDataReport`, three blocks allow a fork (two children of block
1) and a block two above the write it read. Two transactions per block let
one write be read by a later one of the same block. The tree is grown in
every shape, so the run explores all chains of up to three blocks.

### Fairness

`reward_window` assumes the following:

* weak fairness on `ConnectMainBlock`, because the main chain keeps
  producing blocks;
* weak fairness, per key, on submitting the reward. The reporter is paid by
  the reward, so they keep submitting it while it is valid.

Nothing is assumed of provers, locks or unlocks. `dispute_safety` checks only
safety and runs `Spec` without fairness.

`crosschain_liveness` assumes weak fairness on `ConnectSrcBlock`, because S
keeps producing blocks. It also assumes weak fairness on `MineTgtBlock`,
because T keeps mining the step2s in its mempool. Relays are not assumed:
nothing in `src/` makes another node resend a step2.

`template_cache` assumes weak fairness on `LongpollWake(c)`: once the
tip moved, `cvBlockChange` is notified and the waiting RPC thread is
scheduled again, and the tip never returns to the watched block.

## Proofs (`BranchDispute_proofs`, checked by `tlapm`)

* `TypeCorrect`: `Spec => []TypeOK`.
* `FlagsMatchChain`: `Spec => []FlagMatchesChain`.
  * `FlagMatchesChain` alone is not inductive. The write-back in
    `ConnectMainBlock` copies the cache into the db, so the proof needs to
    know what the cache holds.
  * The inductive invariant `IInv` is `TypeOK`, plus `CacheOK(k)` (the
    cache agrees with `blockTxs`, and a cached REPORTED sits over a NONE db
    flag), plus `ChainOK(k)` (that is, `FlagMatchesChain`).
  * `IInv` is also checked by TLC, as `CacheMatchesBlock` in
    `dispute_safety`.
  * `NextIInv` has one step per action. The write-back case splits on the
    three cache values.
* `FlagsMonotone`: `Spec => FlagMonotone`. It follows from `IInv`: the
  write-back never replaces PROVED by REPORTED, because a cached REPORTED
  implies a NONE db flag.
* `CacheMatchesBlockThm`: `Spec => []CacheMatchesBlock`, again from `IInv`.
* `UniqueDisputeTxsThm`: `Spec => []UniqueDisputeTxs`.
  * Uniqueness alone is not inductive. The write-back moves the block's
    transactions into the chain, so a report in the block must not collide
    with one already in the chain.
  * The inductive invariant `UInv` adds `NotInBoth`: no key has a report, or
    a prove, both in the chain and in the block being assembled.
  * A new report or prove is fresh because the duplicate check reads both
    layers (`FreeKey`: a NONE flag in the db and the cache means no such
    transaction anywhere). `UniqueAddFresh` and `UniqueAddOther` are the
    set lemmas for adding one transaction.
  * TLC checked `UInv` as an invariant of the `dispute_safety` instance
    before the proof.

The only assumption used is `ConstantsAssumption`, which gives the types of
the constants.

`CrossChainTransfer_proofs`:

* `TypeCorrect`: `Spec => []TypeOK`, the typing the other proofs use (no run
  checks `TypeOK` here: no plausible slip in the code breaks it).
* `Step2BackedThm`: `Spec => []Step2Backed`, assuming
  `MaxReorgDepth <= BRANCH_CHAIN_MATURITY`.
  * T connects a step2 only when its step1's block has `MATURITY + 1`
    confirmations. That block then lies at height
    `h <= Len(srcChain) - MATURITY <= srcMax - MaxReorgDepth`.
  * A reorganisation never cuts below `srcMax - MaxReorgDepth`.
  * The inductive invariant is `TypeOK /\ Len(srcChain) <= srcMax /\ Anchored`.
    `Anchored` says that every recorded step1 lies in a block at most
    `srcMax - MaxReorgDepth` high.
  * The assumption is the protocol's own premise. With deeper
    reorganisations the property fails, and the code has no defence against
    that.
* `PaidAtMostOnceThm`: `Spec => []PaidAtMostOnce`, for every reorganisation
  depth. The inductive invariant `PInv` adds `PaidIffRecorded`: a step1's
  payout count is 1 exactly when T holds its record. So `IsTxRecvRepeat`
  keeps every later copy of the step2 out of T's blocks.

`MinerGenerate_proofs`:

* `RemoveAtProps` and `EraseKeepsDistinct` describe `vecOutput.erase`: the
  result is one shorter, keeps no duplicates, and no longer holds the erased
  element. `OrderingsProps` says a coin ordering is a duplicate-free
  sequence of the coins.
* The inductive invariant `IInv` is `TypeOK /\ InnerOK`. Inside
  `generateBlocks`, `InnerOK` says that `vecOutput` is non-empty and
  duplicate-free, that it holds no spent coin, and that the caller is one
  of the three call sites.
  * The duplicate-freedom is what makes `NoSpentCoinTried` inductive: erasing
    the spent coin once removes it entirely.
  * The known caller makes the `break`'s return leave `generateBlocks`.
* `NoModuloByZeroThm`, `NoSpentCoinTriedThm` and `TypeCorrect` follow from
  `IInv`.
* `AtMostRequestedThm`: `Spec => []AtMostRequested`.
  * The bound is not inductive. A `generateBlocks` call mines while
    `num_generate` is only reduced when it returns. The big-boom call is
    also charged `nGenerate` (its request), not what it mined.
  * The inductive invariant `CInv` adds `Count`, an accounting of the
    request:
    * At the RPC's top level, `mined + num_generate <= nblocks`.
    * Inside a call, `CallCount` says that the call mined `nHeight` blocks
      of its `nHeightEnd`. That `nHeightEnd` is `num_generate` for a
      round, `genBigBoom <= num_generate` for the big-boom call, and
      `nblocks` for `generatetoaddress`. Before the call, the RPC had
      mined `mined - nHeight`.
    * `RpcCaller` ties each RPC to its call sites.
  * `ReturnCount` shows that the return to each caller restores the
    top-level bound. `CallCountBound` gives `mined <= nblocks` inside a call.
  * TLC checked `CInv` on the `miner_loop` instance (about 5,000 states,
    and again with `BigBoomLeft = 2`) before the proof.
  * The bound holds for every value of the constants. The only assumption is `MinerAssumption`: the wallet's coin set is
  finite, and the dummy output is not a coin.

`GetBlockTemplate_proofs`:

* `ServedOnTipThm` (`Spec => []ServedOnTip`), `SegwitMatchesThm` and
  `TypeCorrect`.
* A cache hit returns `pblocktemplate` as it is, so the invariants are not
  inductive alone. The inductive invariant adds `CacheCoherent`: while
  `pindexPrev` is set, the cached template was built on `pindexPrev` with
  `fLastTemplateSupportsSegwit`. A failed rebuild keeps it only because it
  clears `pindexPrev` first (line 898). `ServeIInv` proves one serving step
  for both callers of `ServeTemplate`.
* `ServiceRefinement`: `Spec => ServiceSpec`. The initial state maps to
  the abstract one, and each step maps to an abstract step or a stutter
  (`NextRefines`): a request or a wake maps to `Answer` (`ServeAnswers`, one
  case per branch of `ServeTemplate`), a new block, mempool change or tick
  to `Environment`. A cache hit answers with `pblocktemplate` and
  `nTransactionsUpdatedLast`, so the invariant `RInv` adds `CacheValid`:
  the cached counter never exceeds the mempool counter, and a cached
  template pays a valid address (a rebuild for a bad address throws after
  clearing `pindexPrev`).
* The only assumption is `TemplateAssumption`: `NULL` is not a block.

Liveness (`MatureReportSettles`, `StepOneSettles`, `LongpollWakes`) is checked by TLC only: TLAPS cannot reason
about `ENABLED` and fairness here.

## Not modelled (yet)

* `CheckProveSmartContract` (a prove of a smart-contract tx), several
  contracts per CONTRACT_DATA report, and the contract executor itself.
* Mortgage redeem (`ReqMainChainRedeemMortgage`) and the content checks of
  `CheckBranchTransaction` (amounts, scripts, revert hash).
* `getblocktemplate`'s proposal mode, its pre-checks and response fields,
  `submitblock`, the branch chain's second block
  (`generateBranch2ndBlock`), and `setgenerate`'s background miner.
* RPC I/O, script parsing and fee estimation.

See `PROJECT.json` for the reason given for each, and the hazards left open.
