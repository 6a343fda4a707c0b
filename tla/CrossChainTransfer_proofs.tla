--------------------- MODULE CrossChainTransfer_proofs ---------------------
(***************************************************************************)
(* Proofs about CrossChainTransfer for every value of the constants.       *)
(***************************************************************************)
EXTENDS CrossChainTransfer, TLAPS

-----------------------------------------------------------------------------
(* Type correctness.                                                       *)

LEMMA InitTypeOK == Init => TypeOK
BY CrossChainAssumption DEF Init, TypeOK

\* ProcessBlockBranchChain only adds step1s of the new block to T's mempool.
LEMMA ProcessTypeOK ==
  ASSUME NEW chain \in Seq(SUBSET Transfers), tPool \subseteq Transfers,
         ProcessBlockBranchChain(chain)
  PROVE  tPool' \subseteq Transfers
<1> DEFINE ph == Len(chain) - (BRANCH_CHAIN_MATURITY + CUSHION_HEIGHT)
           sent == IF ph >= 1 THEN {x \in chain[ph] : AcceptStep2(chain, x)} ELSE {}
<1>1. sent \subseteq Transfers
  BY CrossChainAssumption
<1>2. PICK delivered \in BranchChainTransStep2(sent) : tPool' = tPool \cup delivered
  BY DEF ProcessBlockBranchChain
<1>3. delivered \subseteq sent
  BY <1>2 DEF BranchChainTransStep2
<1> QED
  BY <1>1, <1>2, <1>3

LEMMA NextTypeOK == TypeOK /\ [Next]_vars => TypeOK'
<1> SUFFICES ASSUME TypeOK, [Next]_vars PROVE TypeOK'
  OBVIOUS
<1>1. ASSUME NEW B \in SUBSET srcPool, ConnectSrcBlock(B) PROVE TypeOK'
  <2>1. srcChain' \in Seq(SUBSET Transfers) /\ Len(srcChain') <= MaxSrcHeight
    BY <1>1, CrossChainAssumption DEF ConnectSrcBlock, TypeOK
  <2>2. srcMax' \in 0..MaxSrcHeight
    BY <1>1, CrossChainAssumption DEF ConnectSrcBlock, TypeOK
  <2>3. tPool' \subseteq Transfers
    BY <1>1, <2>1, ProcessTypeOK DEF ConnectSrcBlock, TypeOK
  <2> QED
    BY <1>1, <2>1, <2>2, <2>3 DEF ConnectSrcBlock, TypeOK
<1>2. ASSUME NEW d \in 1..MaxReorgDepth, ReorgSrc(d) PROVE TypeOK'
  <2>1. srcChain' \in Seq(SUBSET Transfers) /\ Len(srcChain') <= MaxSrcHeight
    BY <1>2, CrossChainAssumption DEF ReorgSrc, TypeOK
  <2>2. srcPool' \subseteq Transfers
    BY <1>2 DEF ReorgSrc, TypeOK
  <2> QED
    BY <1>2, <2>1, <2>2 DEF ReorgSrc, TypeOK
<1>3. ASSUME NEW x \in Transfers, RelayStep2(x) PROVE TypeOK'
  BY <1>3 DEF RelayStep2, TypeOK
<1>4. CASE MineTgtBlock
  BY <1>4 DEF MineTgtBlock, TypeOK
<1>5. CASE UNCHANGED vars
  BY <1>5 DEF vars, TypeOK
<1> QED
  BY <1>1, <1>2, <1>3, <1>4, <1>5 DEF Next

\* The type invariant holds in every reachable state.
THEOREM TypeCorrect == Spec => []TypeOK
BY InitTypeOK, NextTypeOK, PTL DEF Spec

-----------------------------------------------------------------------------
(* Step2s stay backed.                                                     *)
(*                                                                         *)
(* Step2Backed is not inductive: a reorganisation removes blocks, and      *)
(* whether x's step1 survives depends on how deep its block lies.  T       *)
(* connects x's step2 only when x's block has MATURITY + 1 confirmations,  *)
(* i.e. lies at height h <= Len(srcChain) - MATURITY <= srcMax - MATURITY, *)
(* and a reorganisation never goes below srcMax - MaxReorgDepth.  So the   *)
(* strengthening records that the block lies at most srcMax -             *)
(* MaxReorgDepth high, and that the chain never exceeds srcMax.            *)

Anchored ==
  \A x \in tRecords :
    \E h \in 1..Len(srcChain) : x \in srcChain[h] /\ h + MaxReorgDepth <= srcMax

IInv == TypeOK /\ Len(srcChain) <= srcMax /\ Anchored

LEMMA InitIInv == Init => IInv
BY InitTypeOK DEF Init, IInv, Anchored

LEMMA NextIInv ==
  ASSUME MaxReorgDepth <= BRANCH_CHAIN_MATURITY
  PROVE  IInv /\ [Next]_vars => IInv'
<1> SUFFICES ASSUME IInv, [Next]_vars PROVE IInv'
  OBVIOUS
<1>0. TypeOK'
  BY NextTypeOK DEF IInv
<1> USE CrossChainAssumption DEF IInv, TypeOK
<1>1. ASSUME NEW B \in SUBSET srcPool, ConnectSrcBlock(B) PROVE IInv'
  <2>1. srcChain' = Append(srcChain, B) /\ srcMax' >= srcMax /\ srcMax' >= Len(srcChain) + 1
    BY <1>1 DEF ConnectSrcBlock
  <2>2. \A h \in 1..Len(srcChain) : srcChain'[h] = srcChain[h]
    BY <2>1
  <2>3. Anchored'
    BY <1>1, <2>1, <2>2 DEF ConnectSrcBlock, Anchored
  <2> QED
    BY <1>0, <2>1, <2>3
<1>2. ASSUME NEW d \in 1..MaxReorgDepth, ReorgSrc(d) PROVE IInv'
  <2>1. /\ srcChain' = SubSeq(srcChain, 1, Len(srcChain) - d)
        /\ Len(srcChain) - d >= srcMax - MaxReorgDepth
        /\ srcMax' = srcMax /\ tRecords' = tRecords
        /\ 1 <= d /\ d <= Len(srcChain)
    BY <1>2 DEF ReorgSrc
  <2>2. Len(srcChain') = Len(srcChain) - d
        /\ \A h \in 1..Len(srcChain) - d : srcChain'[h] = srcChain[h]
    BY <2>1
  <2>3. Anchored'
    BY <2>1, <2>2 DEF Anchored
  <2> QED
    BY <1>0, <2>1, <2>2, <2>3
<1>3. ASSUME NEW x \in Transfers, RelayStep2(x) PROVE IInv'
  BY <1>0, <1>3 DEF RelayStep2, Anchored
<1>4. CASE MineTgtBlock
  <2> DEFINE valid == {x \in tPool : NotRecvRepeat(x) /\ CheckBranchTransaction(srcChain, x)}
  <2>1. tRecords' = tRecords \cup valid /\ UNCHANGED <<srcChain, srcMax>>
    BY <1>4 DEF MineTgtBlock
  <2>2. ASSUME NEW x \in valid
        PROVE  \E h \in 1..Len(srcChain) : x \in srcChain[h] /\ h + MaxReorgDepth <= srcMax
    <3>1. SrcConfirmations(srcChain, x) >= BRANCH_CHAIN_MATURITY + 1
      BY DEF CheckBranchTransaction
    <3>2. HeightsOf(srcChain, x) # {}
      BY <3>1 DEF SrcConfirmations
    <3> DEFINE h0 == CHOOSE h \in HeightsOf(srcChain, x) : TRUE
    <3>3. h0 \in HeightsOf(srcChain, x)
      BY <3>2
    <3>4. Len(srcChain) - h0 + 1 >= BRANCH_CHAIN_MATURITY + 1
      BY <3>1, <3>2 DEF SrcConfirmations
    <3>5. h0 \in 1..Len(srcChain) /\ x \in srcChain[h0]
      BY <3>3 DEF HeightsOf
    <3> QED
      BY <3>4, <3>5
  <2> QED
    BY <1>0, <2>1, <2>2 DEF Anchored
<1>5. CASE UNCHANGED vars
  BY <1>0, <1>5 DEF vars, Anchored
<1> QED
  BY <1>1, <1>2, <1>3, <1>4, <1>5 DEF Next

\* A step2 that T has connected is backed by its step1 on S's active chain,
\* whatever S reorganises, as long as S never reorganises deeper than
\* BRANCH_CHAIN_MATURITY blocks: CheckBranchTransaction's MATURITY + 1
\* confirmations are enough.
THEOREM Step2BackedThm ==
  ASSUME MaxReorgDepth <= BRANCH_CHAIN_MATURITY
  PROVE  Spec => []Step2Backed
<1>1. IInv => Step2Backed
  BY DEF IInv, Anchored, Step2Backed, InSrcChain, HeightsOf
<1> QED
  BY <1>1, InitIInv, NextIInv, PTL DEF Spec

-----------------------------------------------------------------------------
(* Each step1 is paid at most once.                                        *)
(*                                                                         *)
(* PaidAtMostOnce is not inductive alone: a step1 paid once may be in T's  *)
(* mempool again (a relay, or S's next ProcessBlockBranchChain after a     *)
(* reorg), so the proof needs that T's record of x exists exactly when x   *)
(* was paid - MineTgtBlock records what it pays, and IsTxRecvRepeat then   *)
(* keeps x out of every later block.                                       *)

PaidIffRecorded == \A x \in Transfers : tPaid[x] = IF x \in tRecords THEN 1 ELSE 0

PInv == TypeOK /\ PaidIffRecorded

LEMMA InitPInv == Init => PInv
BY InitTypeOK DEF Init, PInv, PaidIffRecorded

LEMMA NextPInv == PInv /\ [Next]_vars => PInv'
<1> SUFFICES ASSUME PInv, [Next]_vars PROVE PaidIffRecorded'
  BY NextTypeOK DEF PInv
<1>1. CASE MineTgtBlock
  <2> DEFINE valid == {x \in tPool : NotRecvRepeat(x) /\ CheckBranchTransaction(srcChain, x)}
  <2>1. /\ tRecords' = tRecords \cup valid
        /\ tPaid' = [x \in Transfers |-> IF x \in valid THEN tPaid[x] + 1 ELSE tPaid[x]]
    BY <1>1 DEF MineTgtBlock
  <2>2. \A x \in valid : x \notin tRecords
    BY DEF NotRecvRepeat
  <2> QED
    BY <2>1, <2>2 DEF PInv, PaidIffRecorded
<1>2. CASE ~MineTgtBlock
  <2>1. tRecords' = tRecords /\ tPaid' = tPaid
    BY <1>2 DEF Next, ConnectSrcBlock, ReorgSrc, RelayStep2, vars
  <2> QED
    BY <2>1 DEF PInv, PaidIffRecorded
<1> QED
  BY <1>1, <1>2

\* IsTxRecvRepeat and the record MineTgtBlock writes make T pay every step1
\* at most once, for any number of transfers, resends, relays and S
\* reorganisations of any depth.
THEOREM PaidAtMostOnceThm == Spec => []PaidAtMostOnce
<1>1. PInv => PaidAtMostOnce
  BY DEF PInv, PaidIffRecorded, PaidAtMostOnce
<1> QED
  BY <1>1, InitPInv, NextPInv, PTL DEF Spec

=============================================================================
