------------------------- MODULE CrossChainTransfer -------------------------
(***************************************************************************)
(* Two-phase cross-chain transfer (branchchain.cpp).  A trans-step1 (or a  *)
(* mortgage) on the source chain S is answered by a trans-step2 on the     *)
(* target chain T.  Every S node runs ProcessBlockBranchChain when a block *)
(* connects: for the block exactly BRANCH_CHAIN_MATURITY + CUSHION_HEIGHT  *)
(* below the new tip it calls makebranchtransaction on T once per step1    *)
(* (BranchChainTransStep2) and ignores the outcome.  T admits a step2 to   *)
(* its mempool, and into a block, only if CheckBranchDuplicateTx finds no  *)
(* record of it (IsTxRecvRepeat) and CheckBranchTransaction's RPC to S     *)
(* reports at least BRANCH_CHAIN_MATURITY + 1 confirmations of the step1.  *)
(* S may reorganise its last MaxReorgDepth blocks; step2s are also relayed *)
(* to T by other nodes at any time.                                        *)
(***************************************************************************)
EXTENDS Integers, Sequences, FiniteSets

CONSTANTS
  Transfers,             \* the step1 (and mortgage) transactions created on S
  BRANCH_CHAIN_MATURITY,
  CUSHION_HEIGHT,
  MaxSrcHeight,          \* bound on the height of S
  MaxReorgDepth,         \* S never falls more than this below its highest tip
  RpcMayFail             \* whether a makebranchtransaction call can fail

ASSUME CrossChainAssumption ==
  /\ BRANCH_CHAIN_MATURITY \in Nat
  /\ CUSHION_HEIGHT \in Nat
  /\ MaxSrcHeight \in Nat
  /\ MaxReorgDepth \in Nat
  /\ RpcMayFail \in BOOLEAN

VARIABLES
  srcChain,   \* S's active chain: srcChain[h] is the set of step1s of block h
  srcPool,    \* step1s in S's mempool (created, or returned by a reorg)
  srcMax,     \* highest tip S has reached
  tPool,      \* step2s in T's mempool
  tRecords,   \* pBranchChainTxRecordsDb: step1s whose step2 T has connected
  tPaid       \* number of step2s T has connected per step1

vars == <<srcChain, srcPool, srcMax, tPool, tRecords, tPaid>>

-----------------------------------------------------------------------------
(* What S answers to getbranchchaintransaction.                            *)

\* Heights of the blocks of chain that hold step1 x.
HeightsOf(chain, x) == {h \in 1..Len(chain) : x \in chain[h]}

InSrcChain(x) == HeightsOf(srcChain, x) # {}

\* The "confirmations" field: depth of x's block in chain; a step1 that is
\* not in the active chain is answered without it, which fails isNum().
SrcConfirmations(chain, x) ==
  IF HeightsOf(chain, x) = {} THEN 0
  ELSE Len(chain) - (CHOOSE h \in HeightsOf(chain, x) : TRUE) + 1

-----------------------------------------------------------------------------
(* T's checks.                                                             *)

\* Mutant: the step2 duplicate check is missing.
NotRecvRepeatMissing(x) == TRUE

\* CheckBranchDuplicateTx for a step2: IsTxRecvRepeat finds no record.
NotRecvRepeat(x) == x \notin tRecords

\* Mutant: the confirmation threshold is off by one.
CheckBranchTransactionAtMaturity(chain, x) ==
  SrcConfirmations(chain, x) >= BRANCH_CHAIN_MATURITY

\* CheckBranchTransaction's remote check: the step1 has at least
\* BRANCH_CHAIN_MATURITY + 1 confirmations on S.  The local checks (revert
\* hash, amounts, mortgage script) hold for a step2 built from its step1.
CheckBranchTransaction(chain, x) ==
  SrcConfirmations(chain, x) >= BRANCH_CHAIN_MATURITY + 1

\* T's mempool admits the step2 of x (AcceptToMemoryPool), with S in state
\* chain; the step2 of x is one transaction, so a second copy is refused.
AcceptStep2(chain, x) ==
  /\ x \notin tPool
  /\ NotRecvRepeat(x)
  /\ CheckBranchTransaction(chain, x)

-----------------------------------------------------------------------------
(* S's side.                                                               *)

\* BranchChainTransStep2 for each step1 of sent: the makebranchtransaction
\* call either returns "ok" (T admitted the step2) or fails, and the caller
\* only logs the failure.  The result is the set of step1s whose step2 T
\* admitted.
BranchChainTransStep2(sent) ==
  {delivered \in SUBSET sent : ~RpcMayFail => delivered = sent}

\* Mutant: the block one deeper than intended is processed.
ProcessBlockBranchChainTooDeep(chain) ==
  LET ph == Len(chain) - (BRANCH_CHAIN_MATURITY + CUSHION_HEIGHT) - 1
      sent == IF ph >= 1 THEN {x \in chain[ph] : AcceptStep2(chain, x)} ELSE {}
  IN  \E delivered \in BranchChainTransStep2(sent) : tPool' = tPool \cup delivered

\* ProcessBlockBranchChain: the step1s of the block at depth
\* BRANCH_CHAIN_MATURITY + CUSHION_HEIGHT of chain (ph < 1: no such block,
\* chainActive[] returns null) go to BranchChainTransStep2; T checks each
\* against S's new state.  Nothing is retried.
ProcessBlockBranchChain(chain) ==
  LET ph == Len(chain) - (BRANCH_CHAIN_MATURITY + CUSHION_HEIGHT)
      sent == IF ph >= 1 THEN {x \in chain[ph] : AcceptStep2(chain, x)} ELSE {}
  IN  \E delivered \in BranchChainTransStep2(sent) : tPool' = tPool \cup delivered

\* S connects a block holding step1s B of its mempool, then runs
\* ProcessBlockBranchChain.
ConnectSrcBlock(B) ==
  /\ Len(srcChain) < MaxSrcHeight
  /\ B \subseteq srcPool
  /\ srcChain' = Append(srcChain, B)
  /\ srcPool' = srcPool \ B
  /\ srcMax' = IF Len(srcChain) + 1 > srcMax THEN Len(srcChain) + 1 ELSE srcMax
  /\ ProcessBlockBranchChain(srcChain')
  /\ UNCHANGED <<tRecords, tPaid>>

\* S disconnects its last d blocks (a reorganisation towards a branch that
\* will grow longer); their step1s return to the mempool.
ReorgSrc(d) ==
  /\ 1 <= d /\ d <= Len(srcChain)
  /\ Len(srcChain) - d >= srcMax - MaxReorgDepth
  /\ srcChain' = SubSeq(srcChain, 1, Len(srcChain) - d)
  /\ srcPool' = srcPool \cup UNION {srcChain[h] : h \in Len(srcChain) - d + 1..Len(srcChain)}
  /\ UNCHANGED <<srcMax, tPool, tRecords, tPaid>>

-----------------------------------------------------------------------------
(* T's side.                                                               *)

\* Another node relays the step2 of x to T (its own ProcessBlockBranchChain
\* or p2p), and T's mempool admits it.
RelayStep2(x) ==
  /\ AcceptStep2(srcChain, x)
  /\ tPool' = tPool \cup {x}
  /\ UNCHANGED <<srcChain, srcPool, srcMax, tRecords, tPaid>>

\* T connects a block with every step2 of its mempool that passes
\* CheckBranchDuplicateTx and CheckBranchTransaction now; each is recorded.
MineTgtBlock ==
  LET valid == {x \in tPool : NotRecvRepeat(x) /\ CheckBranchTransaction(srcChain, x)}
  IN  /\ valid # {}
      /\ tPool' = tPool \ valid
      /\ tRecords' = tRecords \cup valid
      /\ tPaid' = [x \in Transfers |-> IF x \in valid THEN tPaid[x] + 1 ELSE tPaid[x]]
      /\ UNCHANGED <<srcChain, srcPool, srcMax>>

-----------------------------------------------------------------------------
Init ==
  /\ srcChain = <<>>
  /\ srcPool = Transfers
  /\ srcMax = 0
  /\ tPool = {}
  /\ tRecords = {}
  /\ tPaid = [x \in Transfers |-> 0]

Next ==
  \/ \E B \in SUBSET srcPool : ConnectSrcBlock(B)
  \/ \E d \in 1..MaxReorgDepth : ReorgSrc(d)
  \/ \E x \in Transfers : RelayStep2(x)
  \/ MineTgtBlock

\* S keeps producing blocks and T keeps mining the step2s it can.
Fairness ==
  /\ WF_vars(\E B \in SUBSET srcPool : ConnectSrcBlock(B))
  /\ WF_vars(MineTgtBlock)

Spec == Init /\ [][Next]_vars
FairSpec == Spec /\ Fairness

-----------------------------------------------------------------------------
(* Properties.                                                             *)

TypeOK ==
  /\ srcChain \in Seq(SUBSET Transfers)
  /\ Len(srcChain) <= MaxSrcHeight
  /\ srcPool \subseteq Transfers
  /\ srcMax \in 0..MaxSrcHeight
  /\ tPool \subseteq Transfers
  /\ tRecords \subseteq Transfers
  /\ tPaid \in [Transfers -> Nat]

\* Spec 3, invariant 4: every step2 T has connected is backed by its step1
\* on S's active chain - CheckBranchTransaction's MATURITY + 1 confirmations
\* outlast any reorganisation of S no deeper than the maturity.
Step2Backed == \A x \in tRecords : InSrcChain(x)

\* A step1 is paid out on T at most once, however often S's nodes resend or
\* relay its step2 and however S reorganises (IsTxRecvRepeat).
PaidAtMostOnce == \A x \in Transfers : tPaid[x] <= 1

\* Spec 4.4 (CrossChainClient): a step1 that S has buried deep enough for
\* ProcessBlockBranchChain to reach it is eventually answered by a step2
\* connected on T.
StepOneSettles ==
  \A x \in Transfers :
    (\E h \in HeightsOf(srcChain, x) :
        h + BRANCH_CHAIN_MATURITY + CUSHION_HEIGHT <= MaxSrcHeight)
      ~> tPaid[x] >= 1

=============================================================================
