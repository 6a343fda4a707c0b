------------------------ MODULE BranchDispute_proofs ------------------------
(***************************************************************************)
(* Proofs about BranchDispute for every value of the constants.            *)
(***************************************************************************)
EXTENDS BranchDispute, TLAPS

\* A key's stake coin is a coin.
LEMMA KeyCoin ==
  ASSUME NEW k \in Keys
  PROVE  /\ k[2] \in Blocks
         /\ StakeCoin[k[2]] \in Coins
BY ConstantsAssumption DEF Keys

-----------------------------------------------------------------------------
(* Type correctness.                                                       *)

LEMMA InitTypeOK == Init => TypeOK
<1> SUFFICES ASSUME Init PROVE TypeOK
  OBVIOUS
<1>1. branchTip \in 0..NB /\ mainHeight \in 0..MaxMainHeight /\ nTx \in 0..MaxDisputeTxs
  BY ConstantsAssumption DEF Init
<1>2. chainTxs \subseteq TxRecs /\ blockTxs \subseteq TxRecs /\ spent \subseteq Coins
  BY DEF Init
<1>3. flag \in [Keys -> Flags] /\ cacheFlag \in [Keys -> Flags]
  BY DEF Init, Flags
<1>4. coinLock \in [Coins -> LockStates]
  BY DEF Init, LockStates
<1>5. QED
  BY <1>1, <1>2, <1>3, <1>4 DEF TypeOK

LEMMA NextTypeOK == TypeOK /\ [Next]_vars => TypeOK'
<1> SUFFICES ASSUME TypeOK, [Next]_vars PROVE TypeOK'
  OBVIOUS
<1>1. CASE SyncBranchHeader
  BY <1>1, ConstantsAssumption DEF SyncBranchHeader, TypeOK
<1>2. ASSUME NEW k \in TriedKeys, AcceptReport(k) PROVE TypeOK'
  <2>1. k \in Keys
    BY ConstantsAssumption
  <2>2. blockTxs' \subseteq TxRecs
    <3>1. [id |-> nTx + 1, kind |-> "report", key |-> k, h |-> 0] \in TxRecs
      BY <2>1, ConstantsAssumption DEF TypeOK, TxRecs, Kinds
    <3>2. QED
      BY <1>2, <3>1 DEF AcceptReport, TypeOK
  <2>3. cacheFlag' \in [Keys -> Flags]
    BY <1>2, <2>1 DEF AcceptReport, TypeOK, Flags
  <2>4. nTx' \in 0..MaxDisputeTxs
    BY <1>2, ConstantsAssumption DEF AcceptReport, TypeOK
  <2>5. QED
    BY <1>2, <2>2, <2>3, <2>4 DEF AcceptReport, TypeOK
<1>3. ASSUME NEW k \in TriedKeys, AcceptProve(k) PROVE TypeOK'
  <2>1. k \in Keys
    BY ConstantsAssumption
  <2>2. blockTxs' \subseteq TxRecs
    <3>1. [id |-> nTx + 1, kind |-> "prove", key |-> k, h |-> 0] \in TxRecs
      BY <2>1, ConstantsAssumption DEF TypeOK, TxRecs, Kinds
    <3>2. QED
      BY <1>3, <3>1 DEF AcceptProve, TypeOK
  <2>3. cacheFlag' \in [Keys -> Flags]
    BY <1>3, <2>1 DEF AcceptProve, TypeOK, Flags
  <2>4. nTx' \in 0..MaxDisputeTxs
    BY <1>3, ConstantsAssumption DEF AcceptProve, TypeOK
  <2>5. QED
    BY <1>3, <2>2, <2>3, <2>4 DEF AcceptProve, TypeOK
<1>4. ASSUME NEW r \in chainTxs, AcceptReportReward(r) PROVE TypeOK'
  <2>1. r.key \in Keys
    BY DEF TypeOK, TxRecs
  <2>2. StakeCoin[r.key[2]] \in Coins
    BY <2>1, KeyCoin
  <2>3. [id |-> 0, kind |-> "reward", key |-> r.key, h |-> 0] \in TxRecs
    BY <2>1, ConstantsAssumption DEF TxRecs, Kinds
  <2>4. blockTxs' \subseteq TxRecs /\ spent' \subseteq Coins
    BY <1>4, <2>2, <2>3 DEF AcceptReportReward, TypeOK
  <2>5. QED
    BY <1>4, <2>4 DEF AcceptReportReward, TypeOK
<1>5. ASSUME NEW r \in chainTxs, LockMortgageMineCoin(r) PROVE TypeOK'
  <2>1. r.key \in Keys
    BY DEF TypeOK, TxRecs
  <2>2. StakeCoin[r.key[2]] \in Coins
    BY <2>1, KeyCoin
  <2>3. coinLock' \in [Coins -> LockStates]
    BY <1>5, <2>2 DEF LockMortgageMineCoin, TypeOK, LockStates
  <2>4. QED
    BY <1>5, <2>3 DEF LockMortgageMineCoin, TypeOK
<1>6. ASSUME NEW p \in chainTxs, UnlockMortgageMineCoin(p) PROVE TypeOK'
  <2>1. p.key \in Keys
    BY DEF TypeOK, TxRecs
  <2>2. StakeCoin[p.key[2]] \in Coins
    BY <2>1, KeyCoin
  <2>3. coinLock' \in [Coins -> LockStates]
    BY <1>6, <2>2 DEF UnlockMortgageMineCoin, TypeOK, LockStates
  <2>4. QED
    BY <1>6, <2>3 DEF UnlockMortgageMineCoin, TypeOK
<1>7. CASE ConnectMainBlock
  <2>1. mainHeight' \in 0..MaxMainHeight
    BY <1>7, ConstantsAssumption DEF ConnectMainBlock, TypeOK
  <2>2. chainTxs' \subseteq TxRecs
    <3>1. ASSUME NEW t \in blockTxs PROVE [t EXCEPT !.h = mainHeight + 1] \in TxRecs
      BY <2>1, <1>7, ConstantsAssumption DEF ConnectMainBlock, TypeOK, TxRecs
    <3>2. QED
      BY <1>7, <3>1 DEF ConnectMainBlock, TypeOK
  <2>3. flag' \in [Keys -> Flags] /\ cacheFlag' \in [Keys -> Flags]
    BY <1>7 DEF ConnectMainBlock, TypeOK, Flags
  <2>4. blockTxs' \subseteq TxRecs
    BY <1>7 DEF ConnectMainBlock
  <2>5. QED
    BY <1>7, <2>1, <2>2, <2>3, <2>4 DEF ConnectMainBlock, TypeOK
<1>8. CASE UNCHANGED vars
  BY <1>8 DEF vars, TypeOK
<1>9. QED
  BY <1>1, <1>2, <1>3, <1>4, <1>5, <1>6, <1>7, <1>8 DEF Next

\* The type invariant holds in every reachable state.
THEOREM TypeCorrect == Spec => []TypeOK
BY InitTypeOK, NextTypeOK, PTL DEF Spec

-----------------------------------------------------------------------------
(* The db flags agree with the main chain.                                 *)
(*                                                                         *)
(* FlagMatchesChain is not inductive: ConnectMainBlock writes the cache    *)
(* into the db, so the cache must agree with the block being assembled     *)
(* and a REPORTED cache entry must sit over a NONE db entry.  That is      *)
(* CacheMatchesBlock, and the three together are inductive.                *)

InBlock(k, kind) == \E t \in blockTxs : t.kind = kind /\ t.key = k
InChain(k, kind) == \E t \in chainTxs : t.kind = kind /\ t.key = k

CacheOK(k) ==
  /\ cacheFlag[k] = PROVED <=> InBlock(k, "prove")
  /\ cacheFlag[k] = REPORTED <=> InBlock(k, "report") /\ ~InBlock(k, "prove")
  /\ cacheFlag[k] = REPORTED => flag[k] = NONE

ChainOK(k) ==
  /\ flag[k] = PROVED <=> InChain(k, "prove")
  /\ flag[k] = REPORTED <=> InChain(k, "report") /\ ~InChain(k, "prove")

IInv == TypeOK /\ \A k \in Keys : CacheOK(k) /\ ChainOK(k)

LEMMA IInvDef == IInv <=> TypeOK /\ CacheMatchesBlock /\ FlagMatchesChain
BY DEF IInv, CacheOK, ChainOK, InBlock, InChain, CacheMatchesBlock, FlagMatchesChain

LEMMA InitIInv == Init => IInv
<1> SUFFICES ASSUME Init, NEW k \in Keys PROVE CacheOK(k) /\ ChainOK(k)
  BY InitTypeOK DEF IInv
<1> QED
  BY DEF Init, CacheOK, ChainOK, InBlock, InChain, NONE, REPORTED, PROVED

LEMMA NextIInv == IInv /\ [Next]_vars => IInv'
<1> SUFFICES ASSUME IInv, [Next]_vars, NEW k \in Keys
             PROVE  CacheOK(k)' /\ ChainOK(k)'
  BY NextTypeOK DEF IInv
<1> USE DEF IInv
<1>0. /\ CacheOK(k) /\ ChainOK(k)
      /\ PROVED # NONE /\ PROVED # REPORTED /\ REPORTED # NONE
  BY DEF NONE, REPORTED, PROVED
<1>1. CASE SyncBranchHeader
  BY <1>0, <1>1 DEF SyncBranchHeader, CacheOK, ChainOK, InBlock, InChain
<1>2. ASSUME NEW j \in TriedKeys, AcceptReport(j) PROVE CacheOK(k)' /\ ChainOK(k)'
  <2>1. ChainOK(k)'
    BY <1>0, <1>2 DEF AcceptReport, ChainOK, InChain
  <2>2. CASE k = j
    <3>a. cacheFlag[k] = NONE /\ flag[k] = NONE
      BY <1>2, <2>2 DEF AcceptReport, ReportNotDuplicate
    <3>b. ~InBlock(k, "prove")
      BY <1>0, <3>a DEF CacheOK
    <3>c. cacheFlag'[k] = REPORTED /\ flag'[k] = NONE
      BY <1>2, <2>2, <3>a DEF AcceptReport, TypeOK
    <3>d. InBlock(k, "report")' /\ ~InBlock(k, "prove")'
      <4>1. blockTxs' = blockTxs \cup {[id |-> nTx + 1, kind |-> "report", key |-> k, h |-> 0]}
        BY <1>2, <2>2 DEF AcceptReport
      <4>2. InBlock(k, "report")'
        <5>1. [id |-> nTx + 1, kind |-> "report", key |-> k, h |-> 0] \in blockTxs'
          BY <4>1
        <5> QED
          BY <5>1 DEF InBlock
      <4>3. ~InBlock(k, "prove")'
        BY <4>1, <3>b DEF InBlock
      <4> QED
        BY <4>2, <4>3
    <3> QED
      BY <1>0, <2>1, <3>c, <3>d DEF CacheOK
  <2>3. CASE k # j
    <3>a. cacheFlag'[k] = cacheFlag[k] /\ flag' = flag
      BY <1>2, <2>3 DEF AcceptReport, TypeOK
    <3>b. InBlock(k, "report")' = InBlock(k, "report") /\ InBlock(k, "prove")' = InBlock(k, "prove")
      BY <1>2, <2>3 DEF AcceptReport, InBlock
    <3> QED
      BY <1>0, <2>1, <3>a, <3>b DEF CacheOK
  <2> QED
    BY <2>2, <2>3
<1>3. ASSUME NEW j \in TriedKeys, AcceptProve(j) PROVE CacheOK(k)' /\ ChainOK(k)'
  <2>1. ChainOK(k)'
    BY <1>0, <1>3 DEF AcceptProve, ChainOK, InChain
  <2>2. CASE k = j
    <3>c. cacheFlag'[k] = PROVED
      BY <1>3, <2>2 DEF AcceptProve, TypeOK
    <3>d. InBlock(k, "prove")'
      <4>1. blockTxs' = blockTxs \cup {[id |-> nTx + 1, kind |-> "prove", key |-> k, h |-> 0]}
        BY <1>3, <2>2 DEF AcceptProve
      <4>2. [id |-> nTx + 1, kind |-> "prove", key |-> k, h |-> 0] \in blockTxs'
        BY <4>1
      <4> QED
        BY <4>2 DEF InBlock
    <3> QED
      BY <1>0, <2>1, <3>c, <3>d DEF CacheOK
  <2>3. CASE k # j
    <3>a. cacheFlag'[k] = cacheFlag[k] /\ flag' = flag
      BY <1>3, <2>3 DEF AcceptProve, TypeOK
    <3>b. InBlock(k, "report")' = InBlock(k, "report") /\ InBlock(k, "prove")' = InBlock(k, "prove")
      BY <1>3, <2>3 DEF AcceptProve, InBlock
    <3> QED
      BY <1>0, <2>1, <3>a, <3>b DEF CacheOK
  <2> QED
    BY <2>2, <2>3
<1>4. ASSUME NEW r \in chainTxs, AcceptReportReward(r) PROVE CacheOK(k)' /\ ChainOK(k)'
  <2>1. InBlock(k, "report")' = InBlock(k, "report") /\ InBlock(k, "prove")' = InBlock(k, "prove")
    BY <1>4 DEF AcceptReportReward, InBlock
  <2> QED
    BY <1>0, <1>4, <2>1 DEF AcceptReportReward, CacheOK, ChainOK, InChain
<1>5. ASSUME NEW r \in chainTxs, LockMortgageMineCoin(r) PROVE CacheOK(k)' /\ ChainOK(k)'
  BY <1>0, <1>5 DEF LockMortgageMineCoin, CacheOK, ChainOK, InBlock, InChain
<1>6. ASSUME NEW p \in chainTxs, UnlockMortgageMineCoin(p) PROVE CacheOK(k)' /\ ChainOK(k)'
  BY <1>0, <1>6 DEF UnlockMortgageMineCoin, CacheOK, ChainOK, InBlock, InChain
<1>7. CASE ConnectMainBlock
  <2>1. CacheOK(k)'
    BY <1>0, <1>7 DEF ConnectMainBlock, CacheOK, InBlock
  <2>2. ASSUME NEW kind PROVE InChain(k, kind)' <=> InChain(k, kind) \/ InBlock(k, kind)
    <3>1. chainTxs' = chainTxs \cup {[t EXCEPT !.h = mainHeight + 1] : t \in blockTxs}
      BY <1>7 DEF ConnectMainBlock
    <3>2. \A t \in blockTxs : /\ [t EXCEPT !.h = mainHeight + 1].kind = t.kind
                             /\ [t EXCEPT !.h = mainHeight + 1].key = t.key
      BY DEF TypeOK, TxRecs
    <3>3. InChain(k, kind)' => InChain(k, kind) \/ InBlock(k, kind)
      <4> SUFFICES ASSUME NEW u \in chainTxs', u.kind = kind, u.key = k
                   PROVE  InChain(k, kind) \/ InBlock(k, kind)
        BY DEF InChain
      <4>1. CASE u \in chainTxs
        BY <4>1 DEF InChain
      <4>2. CASE \E t \in blockTxs : u = [t EXCEPT !.h = mainHeight + 1]
        <5>1. PICK t \in blockTxs : u = [t EXCEPT !.h = mainHeight + 1]
          BY <4>2
        <5> QED
          BY <5>1, <3>2 DEF InBlock
      <4> QED
        BY <3>1, <4>1, <4>2
    <3>4. InBlock(k, kind) => InChain(k, kind)'
      BY <3>1, <3>2 DEF InChain, InBlock
    <3>5. InChain(k, kind) => InChain(k, kind)'
      BY <3>1 DEF InChain
    <3> QED
      BY <3>3, <3>4, <3>5
  <2>3. flag'[k] = IF cacheFlag[k] = NONE THEN flag[k] ELSE cacheFlag[k]
    BY <1>7 DEF ConnectMainBlock
  <2>4. cacheFlag[k] \in Flags
    BY DEF TypeOK
  <2>5. ChainOK(k)'
    <3>1. CASE cacheFlag[k] = NONE
      BY <1>0, <2>2, <2>3, <3>1 DEF CacheOK, ChainOK
    <3>2. CASE cacheFlag[k] = REPORTED
      BY <1>0, <2>2, <2>3, <3>2 DEF CacheOK, ChainOK
    <3>3. CASE cacheFlag[k] = PROVED
      BY <1>0, <2>2, <2>3, <3>3 DEF CacheOK, ChainOK
    <3> QED
      BY <2>4, <3>1, <3>2, <3>3 DEF Flags
  <2> QED
    BY <2>1, <2>5
<1>8. CASE UNCHANGED vars
  BY <1>0, <1>8 DEF vars, CacheOK, ChainOK, InBlock, InChain
<1> QED
  BY <1>1, <1>2, <1>3, <1>4, <1>5, <1>6, <1>7, <1>8 DEF Next

\* ConnectMainBlock's write-back of mReortTxFlagCache keeps the db flags
\* equal to what the connected blocks contain: a key is PROVED exactly when a
\* prove with it is on the main chain, REPORTED exactly when only a report is.
THEOREM FlagsMatchChain == Spec => []FlagMatchesChain
<1>1. IInv => FlagMatchesChain
  BY IInvDef
<1> QED
  BY <1>1, InitIInv, NextIInv, PTL DEF Spec

-----------------------------------------------------------------------------
(* Flag monotonicity.                                                      *)

\* Every step keeps FlagNeverRegresses: the only step that writes the db is
\* the write-back, and the cache never holds REPORTED over a db flag that
\* is already set.
LEMMA StepFlagNeverRegresses == IInv /\ [Next]_vars => [FlagNeverRegresses]_vars
<1> SUFFICES ASSUME IInv, [Next]_vars PROVE FlagNeverRegresses
  BY DEF FlagNeverRegresses
<1>1. CASE ConnectMainBlock
  <2> SUFFICES ASSUME NEW k \in Keys
               PROVE  /\ flag[k] = PROVED => flag'[k] = PROVED
                      /\ flag[k] = REPORTED => flag'[k] # NONE
    BY DEF FlagNeverRegresses
  <2>1. flag'[k] = IF cacheFlag[k] = NONE THEN flag[k] ELSE cacheFlag[k]
    BY <1>1 DEF ConnectMainBlock
  <2>2. cacheFlag[k] \in Flags /\ (cacheFlag[k] = REPORTED => flag[k] = NONE)
    BY DEF IInv, TypeOK, CacheOK
  <2> QED
    BY <2>1, <2>2 DEF Flags, NONE, REPORTED, PROVED
<1>2. CASE ~ConnectMainBlock
  <2>1. flag' = flag
    <3>1. CASE SyncBranchHeader
      BY <3>1 DEF SyncBranchHeader
    <3>2. CASE \E k \in TriedKeys : AcceptReport(k)
      BY <3>2 DEF AcceptReport
    <3>3. CASE \E k \in TriedKeys : AcceptProve(k)
      BY <3>3 DEF AcceptProve
    <3>4. CASE \E r \in chainTxs : AcceptReportReward(r)
      BY <3>4 DEF AcceptReportReward
    <3>5. CASE \E r \in chainTxs : LockMortgageMineCoin(r)
      BY <3>5 DEF LockMortgageMineCoin
    <3>6. CASE \E p \in chainTxs : UnlockMortgageMineCoin(p)
      BY <3>6 DEF UnlockMortgageMineCoin
    <3>7. CASE UNCHANGED vars
      BY <3>7 DEF vars
    <3> QED
      BY <1>2, <3>1, <3>2, <3>3, <3>4, <3>5, <3>6, <3>7 DEF Next
  <2> QED
    BY <2>1 DEF FlagNeverRegresses, NONE, REPORTED, PROVED
<1> QED
  BY <1>1, <1>2

\* A db report flag never goes back: once the write-back has set a key to
\* PROVED it stays PROVED, and once REPORTED it is never cleared to NONE.
THEOREM FlagsMonotone == Spec => FlagMonotone
BY InitIInv, NextIInv, StepFlagNeverRegresses, PTL DEF Spec, FlagMonotone


\* The block cache agrees with the block being assembled in every reachable
\* state: it is part of the inductive invariant of FlagsMatchChain.
THEOREM CacheMatchesBlockThm == Spec => []CacheMatchesBlock
<1>1. IInv => CacheMatchesBlock
  BY IInvDef
<1> QED
  BY <1>1, InitIInv, NextIInv, PTL DEF Spec

-----------------------------------------------------------------------------
(* One report and one prove per key.                                       *)
(*                                                                         *)
(* UniqueDisputeTxs is not inductive with IInv alone: the write-back moves *)
(* the block's transactions into the chain, so a key must never have a     *)
(* report (or a prove) both in the block being assembled and in the chain. *)
(* CheckBranchDuplicateTx gives that: a report is admitted only over a     *)
(* NONE flag in cache and db, a prove only over a non-PROVED one.          *)

DisputeKinds == {"report", "prove"}

UniqueIn(S) ==
  \A t1, t2 \in S :
    (t1.kind \in DisputeKinds /\ t1.kind = t2.kind /\ t1.key = t2.key) => t1 = t2

NotInBoth ==
  \A k \in Keys, kind \in DisputeKinds : ~(InBlock(k, kind) /\ InChain(k, kind))

UInv == IInv /\ NotInBoth /\ UniqueIn(chainTxs \cup blockTxs)

LEMMA UniqueInDef == UniqueIn(chainTxs \cup blockTxs) <=> UniqueDisputeTxs
BY DEF UniqueIn, UniqueDisputeTxs, DisputeKinds

\* Adding a transaction whose kind and key no member has keeps a set unique.
LEMMA UniqueAddFresh ==
  ASSUME NEW S, NEW n, UniqueIn(S), \A t \in S : ~(t.kind = n.kind /\ t.key = n.key)
  PROVE  UniqueIn(S \cup {n})
BY DEF UniqueIn

\* Adding a transaction that is neither a report nor a prove keeps it unique.
LEMMA UniqueAddOther ==
  ASSUME NEW S, NEW n, UniqueIn(S), n.kind \notin DisputeKinds
  PROVE  UniqueIn(S \cup {n})
BY DEF UniqueIn

LEMMA InitUInv == Init => UInv
<1> SUFFICES ASSUME Init PROVE UInv
  OBVIOUS
<1>1. NotInBoth /\ UniqueIn(chainTxs \cup blockTxs)
  BY DEF Init, NotInBoth, InBlock, InChain, UniqueIn
<1> QED
  BY <1>1, InitIInv DEF UInv


\* A key the cache and the db both leave at NONE has no report or prove in
\* the block or in the chain; one neither holds as PROVED has no prove.
LEMMA FreeKey ==
  ASSUME IInv, NEW k \in Keys
  PROVE  /\ cacheFlag[k] = NONE /\ flag[k] = NONE =>
              \A kind \in DisputeKinds : ~InBlock(k, kind) /\ ~InChain(k, kind)
         /\ cacheFlag[k] # PROVED /\ flag[k] # PROVED =>
              ~InBlock(k, "prove") /\ ~InChain(k, "prove")
<1>1. CacheOK(k) /\ ChainOK(k)
  BY DEF IInv
<1>2. PROVED # NONE /\ REPORTED # NONE
  BY DEF NONE, REPORTED, PROVED
<1> QED
  BY <1>1, <1>2 DEF CacheOK, ChainOK, DisputeKinds

LEMMA NextUInv == UInv /\ [Next]_vars => UInv'
<1> SUFFICES ASSUME UInv, [Next]_vars
             PROVE  NotInBoth' /\ UniqueIn(chainTxs \cup blockTxs)'
  BY NextIInv DEF UInv
<1> USE DEF UInv
<1>1. CASE SyncBranchHeader \/ (\E r \in chainTxs : LockMortgageMineCoin(r))
           \/ (\E p \in chainTxs : UnlockMortgageMineCoin(p)) \/ UNCHANGED vars
  <2>1. chainTxs' = chainTxs /\ blockTxs' = blockTxs
    BY <1>1 DEF SyncBranchHeader, LockMortgageMineCoin, UnlockMortgageMineCoin, vars
  <2> QED
    BY <2>1 DEF NotInBoth, InBlock, InChain, UniqueIn
<1>2. ASSUME NEW j \in TriedKeys, AcceptReport(j)
      PROVE  NotInBoth' /\ UniqueIn(chainTxs \cup blockTxs)'
  <2> DEFINE n == [id |-> nTx + 1, kind |-> "report", key |-> j, h |-> 0]
  <2>1. j \in Keys
    BY ConstantsAssumption
  <2>2. \A kind \in DisputeKinds : ~InBlock(j, kind) /\ ~InChain(j, kind)
    BY <1>2, <2>1, FreeKey DEF AcceptReport, ReportNotDuplicate
  <2>3. blockTxs' = blockTxs \cup {n} /\ chainTxs' = chainTxs
    BY <1>2 DEF AcceptReport
  <2>4. NotInBoth'
    BY <2>2, <2>3 DEF NotInBoth, InBlock, InChain, DisputeKinds
  <2>5. \A t \in chainTxs \cup blockTxs : ~(t.kind = n.kind /\ t.key = n.key)
    BY <2>2 DEF InBlock, InChain, DisputeKinds
  <2>6. UniqueIn((chainTxs \cup blockTxs) \cup {n})
    BY <2>5, UniqueAddFresh
  <2> QED
    BY <2>3, <2>4, <2>6
<1>3. ASSUME NEW j \in TriedKeys, AcceptProve(j)
      PROVE  NotInBoth' /\ UniqueIn(chainTxs \cup blockTxs)'
  <2> DEFINE n == [id |-> nTx + 1, kind |-> "prove", key |-> j, h |-> 0]
  <2>1. j \in Keys
    BY ConstantsAssumption
  <2>2. ~InBlock(j, "prove") /\ ~InChain(j, "prove")
    BY <1>3, <2>1, FreeKey DEF AcceptProve, ProveNotDuplicate
  <2>3. blockTxs' = blockTxs \cup {n} /\ chainTxs' = chainTxs
    BY <1>3 DEF AcceptProve
  <2>4. NotInBoth'
    BY <2>2, <2>3 DEF NotInBoth, InBlock, InChain, DisputeKinds
  <2>5. \A t \in chainTxs \cup blockTxs : ~(t.kind = n.kind /\ t.key = n.key)
    BY <2>2 DEF InBlock, InChain
  <2>6. UniqueIn((chainTxs \cup blockTxs) \cup {n})
    BY <2>5, UniqueAddFresh
  <2> QED
    BY <2>3, <2>4, <2>6
<1>4. ASSUME NEW r \in chainTxs, AcceptReportReward(r)
      PROVE  NotInBoth' /\ UniqueIn(chainTxs \cup blockTxs)'
  <2> DEFINE n == [id |-> 0, kind |-> "reward", key |-> r.key, h |-> 0]
  <2>1. blockTxs' = blockTxs \cup {n} /\ chainTxs' = chainTxs
    BY <1>4 DEF AcceptReportReward
  <2>2. n.kind \notin DisputeKinds
    BY DEF DisputeKinds
  <2>3. NotInBoth'
    BY <2>1, <2>2 DEF NotInBoth, InBlock, InChain, DisputeKinds
  <2>4. UniqueIn((chainTxs \cup blockTxs) \cup {n})
    BY <2>2, UniqueAddOther
  <2> QED
    BY <2>1, <2>3, <2>4
<1>5. CASE ConnectMainBlock
  <2> DEFINE img(t) == [t EXCEPT !.h = mainHeight + 1]
  <2>1. chainTxs' = chainTxs \cup {img(t) : t \in blockTxs} /\ blockTxs' = {}
    BY <1>5 DEF ConnectMainBlock
  <2>2. \A t \in blockTxs : img(t).kind = t.kind /\ img(t).key = t.key
    BY DEF IInv, TypeOK, TxRecs
  <2>3. NotInBoth'
    BY <2>1 DEF NotInBoth, InBlock
  <2>4. UniqueIn(chainTxs \cup {img(t) : t \in blockTxs})
    <3> SUFFICES ASSUME NEW u1 \in chainTxs \cup {img(t) : t \in blockTxs},
                        NEW u2 \in chainTxs \cup {img(t) : t \in blockTxs},
                        u1.kind \in DisputeKinds, u1.kind = u2.kind, u1.key = u2.key
                 PROVE  u1 = u2
      BY DEF UniqueIn
    <3>1. CASE u1 \in chainTxs /\ u2 \in chainTxs
      BY <3>1 DEF UniqueIn
    <3>2. CASE u1 \in chainTxs /\ u2 \notin chainTxs
      <4>1. PICK t2 \in blockTxs : u2 = img(t2)
        BY <3>2
      <4>2. u1.key \in Keys
        BY <3>2 DEF IInv, TypeOK, TxRecs
      <4>3. InChain(u1.key, u1.kind) /\ InBlock(u1.key, u1.kind)
        BY <3>2, <4>1, <2>2 DEF InChain, InBlock
      <4> QED
        BY <4>2, <4>3 DEF NotInBoth
    <3>3. CASE u1 \notin chainTxs /\ u2 \in chainTxs
      <4>1. PICK t1 \in blockTxs : u1 = img(t1)
        BY <3>3
      <4>2. u2.key \in Keys
        BY <3>3 DEF IInv, TypeOK, TxRecs
      <4>3. InChain(u2.key, u2.kind) /\ InBlock(u2.key, u2.kind)
        BY <3>3, <4>1, <2>2 DEF InChain, InBlock
      <4> QED
        BY <4>2, <4>3 DEF NotInBoth
    <3>4. CASE u1 \notin chainTxs /\ u2 \notin chainTxs
      <4>1. PICK t1 \in blockTxs : u1 = img(t1)
        BY <3>4
      <4>2. PICK t2 \in blockTxs : u2 = img(t2)
        BY <3>4
      <4>3. t1 = t2
        BY <4>1, <4>2, <2>2 DEF UniqueIn
      <4> QED
        BY <4>1, <4>2, <4>3
    <3> QED
      BY <3>1, <3>2, <3>3, <3>4
  <2> QED
    BY <2>1, <2>3, <2>4
<1> QED
  BY <1>1, <1>2, <1>3, <1>4, <1>5 DEF Next

\* CheckBranchDuplicateTx, over the cache of the block being assembled and
\* the db, lets at most one report and one prove per flag key onto the main
\* chain, the block being assembled included, whatever order they arrive in.
THEOREM UniqueDisputeTxsThm == Spec => []UniqueDisputeTxs
<1>1. UInv => UniqueDisputeTxs
  BY UniqueInDef DEF UInv
<1> QED
  BY <1>1, InitUInv, NextUInv, PTL DEF Spec

=============================================================================
