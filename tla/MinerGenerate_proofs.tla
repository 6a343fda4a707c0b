------------------------ MODULE MinerGenerate_proofs ------------------------
(***************************************************************************)
(* Proofs about MinerGenerate for every wallet, request and bound.         *)
(***************************************************************************)
EXTENDS MinerGenerate, SequenceTheorems, FiniteSetTheorems, TLAPS

-----------------------------------------------------------------------------
(* Lemmas on the sequence operators of the model.                          *)

\* vecOutput.erase(begin() + i - 1): the elements before i stay, the ones
\* after it move down by one.
LEMMA RemoveAtProps ==
  ASSUME NEW S, NEW s \in Seq(S), NEW i \in 1..Len(s)
  PROVE  /\ RemoveAt(s, i) \in Seq(S)
         /\ Len(RemoveAt(s, i)) = Len(s) - 1
         /\ \A j \in 1..Len(s) - 1 :
              RemoveAt(s, i)[j] = IF j < i THEN s[j] ELSE s[j + 1]
<1> DEFINE a == SubSeq(s, 1, i - 1)
           b == SubSeq(s, i + 1, Len(s))
<1>1. /\ a \in Seq(S)
      /\ Len(a) = i - 1
      /\ \A j \in 1..i - 1 : a[j] = s[j]
  BY SubSeqProperties
<1>2. /\ b \in Seq(S)
      /\ Len(b) = Len(s) - i
      /\ \A j \in 1..Len(s) - i : b[j] = s[i + j]
  BY SubSeqProperties
<1>3. RemoveAt(s, i) = a \o b
  BY DEF RemoveAt
<1>4. /\ a \o b \in Seq(S)
      /\ Len(a \o b) = Len(a) + Len(b)
      /\ \A j \in 1..Len(a) + Len(b) : (a \o b)[j] = IF j <= Len(a) THEN a[j] ELSE b[j - Len(a)]
  BY <1>1, <1>2, ConcatProperties
<1>5. Len(a) + Len(b) = Len(s) - 1 /\ Len(a \o b) = Len(s) - 1
  <2>0. \A x, y : x = i - 1 /\ y = Len(s) - i => x + y = Len(s) - 1
    OBVIOUS
  <2>1. Len(a) + Len(b) = Len(s) - 1
    BY <2>0, <1>1, <1>2, Zenon
  <2> QED
    BY <2>1, <1>4
<1>6. ASSUME NEW j \in 1..Len(s) - 1
      PROVE  (a \o b)[j] = IF j < i THEN s[j] ELSE s[j + 1]
  <2>0. j \in 1..Len(a) + Len(b)
    BY <1>1, <1>2
  <2>1. CASE j < i
    BY <2>0, <2>1, <1>1, <1>4
  <2>2. CASE ~(j < i)
    <3>1. j - Len(a) \in 1..Len(s) - i /\ ~(j <= Len(a))
      BY <2>2, <1>1
    <3>2. b[j - Len(a)] = s[i + (j - Len(a))]
      BY <3>1, <1>2
    <3>3. (a \o b)[j] = b[j - Len(a)]
      BY <2>0, <3>1, <1>4
    <3>4. i + (j - Len(a)) = j + 1
      BY <1>1
    <3> QED
      BY <2>2, <3>2, <3>3, <3>4
  <2> QED
    BY <2>1, <2>2
<1> QED
  BY <1>3, <1>4, <1>5, <1>6, Zenon

\* The orderings of a finite set of coins are duplicate-free sequences of it.
LEMMA OrderingsProps ==
  ASSUME NEW S, IsFiniteSet(S), NEW v \in Orderings(S)
  PROVE  /\ v \in Seq(S)
         /\ \A i, j \in 1..Len(v) : i # j => v[i] # v[j]
<1>1. Cardinality(S) \in Nat
  BY FS_CardinalityType
<1>2. v \in [1..Cardinality(S) -> S]
  BY DEF Orderings, SetToSeqs
<1>3. v \in Seq(S) /\ Len(v) = Cardinality(S)
  BY <1>1, <1>2
<1> QED
  BY <1>2, <1>3 DEF Orderings, SetToSeqs

\* Erasing one element of a duplicate-free sequence leaves a duplicate-free
\* sequence of the other elements.
LEMMA EraseKeepsDistinct ==
  ASSUME NEW S, NEW v \in Seq(S), NEW k \in 1..Len(v),
         \A i, j \in 1..Len(v) : i # j => v[i] # v[j]
  PROVE  /\ RemoveAt(v, k) \in Seq(S)
         /\ Len(RemoveAt(v, k)) = Len(v) - 1
         /\ \A i, j \in 1..Len(RemoveAt(v, k)) : i # j => RemoveAt(v, k)[i] # RemoveAt(v, k)[j]
         /\ \A i \in 1..Len(RemoveAt(v, k)) : RemoveAt(v, k)[i] # v[k]
         /\ \A i \in 1..Len(RemoveAt(v, k)) : \E j \in 1..Len(v) : RemoveAt(v, k)[i] = v[j]
<1> DEFINE w == RemoveAt(v, k)
           pos(i) == IF i < k THEN i ELSE i + 1
<1>1. /\ w \in Seq(S) /\ Len(w) = Len(v) - 1
      /\ \A i \in 1..Len(v) - 1 : w[i] = v[pos(i)]
  BY RemoveAtProps
<1>2. \A i \in 1..Len(v) - 1 : pos(i) \in 1..Len(v) /\ pos(i) # k
  OBVIOUS
<1>3. \A i, j \in 1..Len(v) - 1 : i # j => pos(i) # pos(j)
  OBVIOUS
<1>4. ASSUME NEW i \in 1..Len(w), NEW j \in 1..Len(w), i # j PROVE w[i] # w[j]
  <2>1. i \in 1..Len(v) - 1 /\ j \in 1..Len(v) - 1
    BY <1>1
  <2>2. pos(i) # pos(j) /\ pos(i) \in 1..Len(v) /\ pos(j) \in 1..Len(v)
    BY <2>1, <1>2, <1>3, <1>4
  <2> QED
    BY <2>1, <2>2, <1>1
<1>5. ASSUME NEW i \in 1..Len(w) PROVE w[i] # v[k] /\ \E j \in 1..Len(v) : w[i] = v[j]
  <2>1. i \in 1..Len(v) - 1
    BY <1>1
  <2>2. pos(i) # k /\ pos(i) \in 1..Len(v) /\ w[i] = v[pos(i)]
    BY <2>1, <1>1, <1>2
  <2> QED
    BY <2>2
<1> QED
  BY <1>1, <1>4, <1>5, Zenon

-----------------------------------------------------------------------------
(* The inductive invariant of generateBlocks.                              *)
(*                                                                         *)
(* NoModuloByZero and NoSpentCoinTried are not inductive on their own: the *)
(* erase after a mined block removes the spent coin from vecOutput only if *)
(* the coin appears there once, and the break after the erase returns to   *)
(* a caller only if the caller is known.  So the invariant also says that  *)
(* inside generateBlocks vecOutput is duplicate-free and the caller is one *)
(* of the three call sites.                                                *)

Distinct(v) == \A i, j \in 1..Len(v) : i # j => v[i] # v[j]

InnerOK ==
  pc = "inner" =>
    /\ vecOutput # <<>>
    /\ caller \in {"common", "bigboom", "toaddress"}
    /\ Distinct(vecOutput)
    /\ \A i \in 1..Len(vecOutput) : vecOutput[i] \notin spent

IInv == TypeOK /\ InnerOK

LEMMA InitIInv == Init => IInv
BY MinerAssumption DEF Init, IInv, TypeOK, InnerOK, Outputs

\* A coin ordering handed to generateBlocks is a duplicate-free sequence of
\* unspent coins.
LEMMA FreshOrdering ==
  ASSUME TypeOK, NEW vec \in Orderings(Coins \ spent)
  PROVE  /\ vec \in Seq(Outputs)
         /\ Distinct(vec)
         /\ \A i \in 1..Len(vec) : vec[i] \notin spent
<1>1. IsFiniteSet(Coins \ spent)
  BY MinerAssumption, FS_Difference
<1>2. vec \in Seq(Coins \ spent) /\ \A i, j \in 1..Len(vec) : i # j => vec[i] # vec[j]
  BY <1>1, OrderingsProps
<1>3. vec \in Seq(Outputs)
  BY <1>2, SeqMonotonic DEF Outputs
<1> QED
  BY <1>2, <1>3 DEF Distinct

\* generateBlocks returning to its caller leaves it: the caller's CASE is
\* defined, and the result stays a sequence of outputs.
LEMMA ReturnLeaves ==
  ASSUME TypeOK, caller \in {"common", "bigboom", "toaddress"},
         NEW hs \in Seq(Outputs), ReturnBlocks(hs)
  PROVE  /\ pc' \in {"outer", "done"}
         /\ result' \in Seq(Outputs)
         /\ numGenerate' \in Int
<1>1. result \o hs \in Seq(Outputs) /\ Len(hs) \in Nat
  BY ConcatProperties DEF TypeOK
<1>2. CASE caller = "common"
  BY <1>1, <1>2 DEF ReturnBlocks, ReturnToRound, ReturnToBigBoom, ReturnToAddress, TypeOK
<1>3. CASE caller = "bigboom"
  BY <1>1, <1>3 DEF ReturnBlocks, ReturnToRound, ReturnToBigBoom, ReturnToAddress, TypeOK
<1>4. CASE caller = "toaddress"
  BY <1>1, <1>4 DEF ReturnBlocks, ReturnToRound, ReturnToBigBoom, ReturnToAddress, TypeOK
<1> QED
  BY <1>2, <1>3, <1>4

\* generateBlocks' entry with a duplicate-free sequence of unspent outputs.
LEMMA CallOK ==
  ASSUME TypeOK, NEW vec \in Seq(Outputs), Distinct(vec),
         \A i \in 1..Len(vec) : vec[i] \notin spent,
         NEW nGen, NEW tries \in Nat, NEW who \in {"common", "bigboom", "toaddress"},
         CallGenerateBlocks(vec, nGen, tries, who),
         UNCHANGED <<rpc, spent, numGenerate, result, mined>>,
         tryTimes' \in 0..TRY_TIMES, genBigBoom' \in Nat
  PROVE  IInv'
<1>1. CASE vec = <<>>
  BY <1>1 DEF CallGenerateBlocks, IInv, TypeOK, InnerOK, callVars
<1>2. CASE vec # <<>>
  <2>1. /\ pc' = "inner" /\ caller' = who /\ vecOutput' = vec /\ callCoins' = vec
        /\ nTries' = 0 /\ nHeight' = 0 /\ hashes' = <<>>
    BY <1>2 DEF CallGenerateBlocks
  <2> QED
    BY <1>2, <2>1 DEF IInv, TypeOK, InnerOK
<1> QED
  BY <1>1, <1>2

LEMMA NextIInv == IInv /\ [Next]_vars => IInv'
<1> SUFFICES ASSUME IInv, [Next]_vars PROVE IInv'
  OBVIOUS
<1>0. TypeOK
  BY DEF IInv
<1>1. CASE StartCommon
  <2>1. <<NullOut>> \in Seq(Outputs) /\ Distinct(<<NullOut>>)
    BY DEF Outputs, Distinct
  <2>2. NullOut \notin spent
    BY <1>0, MinerAssumption DEF TypeOK
  <2>3. genBigBoom' \in Nat
    BY <1>1, <1>0, MinerAssumption DEF StartCommon, TypeOK
  <2>4. /\ CallGenerateBlocks(<<NullOut>>, genBigBoom', MaxTries, "bigboom")
        /\ UNCHANGED <<rpc, spent, numGenerate, result, mined>>
        /\ tryTimes' \in 0..TRY_TIMES
    BY <1>1, <1>0 DEF StartCommon, TypeOK
  <2>5. MaxTries \in Nat
    BY MinerAssumption
  <2>6. \A i \in 1..Len(<<NullOut>>) : <<NullOut>>[i] \notin spent
    BY <2>2
  <2> QED
    BY <1>0, <2>1, <2>3, <2>4, <2>5, <2>6, CallOK
<1>2. CASE CommonRound
  <2>1. PICK vec \in Orderings(Coins \ spent) :
          CallGenerateBlocks(vec, numGenerate, MaxTries, "common")
    BY <1>2, Zenon DEF CommonRound
  <2>2. tryTimes' = tryTimes - 1 /\ tryTimes > 0
        /\ UNCHANGED <<rpc, spent, numGenerate, result, genBigBoom, mined>>
    BY <1>2 DEF CommonRound
  <2>3. tryTimes' \in 0..TRY_TIMES /\ genBigBoom' \in Nat
    BY <2>2, <1>0, MinerAssumption DEF TypeOK
  <2>4. vec \in Seq(Outputs) /\ Distinct(vec) /\ \A i \in 1..Len(vec) : vec[i] \notin spent
    BY <1>0, FreshOrdering
  <2>5. MaxTries \in Nat
    BY MinerAssumption
  <2> QED
    BY <1>0, <2>1, <2>2, <2>3, <2>4, <2>5, CallOK
<1>3. CASE ToAddress
  <2>1. PICK vec \in Orderings(Coins \ spent) :
          CallGenerateBlocks(vec, Request, MaxTries, "toaddress")
    BY <1>3, Zenon DEF ToAddress
  <2>2. UNCHANGED <<rpc, spent, numGenerate, tryTimes, result, genBigBoom, mined>>
    BY <1>3 DEF ToAddress
  <2>3. tryTimes' \in 0..TRY_TIMES /\ genBigBoom' \in Nat
    BY <2>2, <1>0 DEF TypeOK
  <2>4. vec \in Seq(Outputs) /\ Distinct(vec) /\ \A i \in 1..Len(vec) : vec[i] \notin spent
    BY <1>0, FreshOrdering
  <2>5. MaxTries \in Nat
    BY MinerAssumption
  <2> QED
    BY <1>0, <2>1, <2>2, <2>3, <2>4, <2>5, CallOK
<1>4. CASE CommonDone
  BY <1>4 DEF CommonDone, IInv, TypeOK, InnerOK, callVars
<1>5. CASE GenerateBlocksExit
  <2>1. pc = "inner" /\ caller \in {"common", "bigboom", "toaddress"}
    BY <1>5 DEF GenerateBlocksExit, IInv, InnerOK
  <2>2. pc' \in {"outer", "done"} /\ result' \in Seq(Outputs) /\ numGenerate' \in Int
    BY <1>5, <1>0, <2>1, ReturnLeaves DEF GenerateBlocksExit, TypeOK
  <2> QED
    BY <1>5, <1>0, <2>2 DEF GenerateBlocksExit, IInv, TypeOK, InnerOK, callVars
<1>6. CASE GenerateBlocksSkip
  BY <1>6 DEF GenerateBlocksSkip, IInv, TypeOK, InnerOK, Distinct
<1>7. ASSUME NEW ok \in BOOLEAN, GenerateBlocksTry(ok) PROVE IInv'
  <2>1. /\ pc = "inner" /\ vecOutput # <<>> /\ Distinct(vecOutput)
        /\ caller \in {"common", "bigboom", "toaddress"}
        /\ \A i \in 1..Len(vecOutput) : vecOutput[i] \notin spent
    BY <1>7 DEF GenerateBlocksTry, IInv, InnerOK
  <2>2. IndexOutput \in 1..Len(vecOutput) /\ Out = vecOutput[IndexOutput]
    BY <1>0, <2>1 DEF IndexOutput, Out, TypeOK
  <2>3. Out \in Outputs
    BY <1>0, <2>2 DEF TypeOK
  <2>4. CASE ok /\ Out \in spent
    BY <1>7, <2>4, <1>0 DEF GenerateBlocksTry, IInv, TypeOK, InnerOK, callVars
  <2>5. CASE ~(ok /\ Out \in spent)
    <3> DEFINE c == Out
               vec2 == EraseTriedCoin(ok)
               hs2 == IF ok THEN Append(hashes, c) ELSE hashes
    <3>1. /\ spent' = IF ok /\ c # NullOut THEN spent \cup {c} ELSE spent
          /\ vecOutput' = vec2 /\ hashes' = hs2
          /\ nHeight' \in Nat /\ mined' \in Nat /\ nTries' \in Nat
          /\ IF vec2 = <<>> THEN ReturnBlocks(hs2) ELSE UNCHANGED <<pc, numGenerate, result>>
          /\ UNCHANGED <<rpc, tryTimes, caller, genBigBoom, callCoins>>
      BY <1>7, <2>5, <1>0 DEF GenerateBlocksTry, TypeOK
    <3>2. hs2 \in Seq(Outputs)
      BY <1>0, <2>3 DEF TypeOK
    <3>3. spent' \subseteq Coins
      BY <3>1, <2>3, <1>0 DEF TypeOK, Outputs
    <3>4. /\ vec2 \in Seq(Outputs) /\ Distinct(vec2)
          /\ \A i \in 1..Len(vec2) : vec2[i] \notin spent'
      <4>1. CASE c = NullOut
        BY <4>1, <3>1, <2>1, <1>0 DEF EraseTriedCoin, TypeOK
      <4>2. CASE c # NullOut
        <5>1. vec2 = RemoveAt(vecOutput, IndexOutput)
          BY <4>2 DEF EraseTriedCoin
        <5>2. /\ vec2 \in Seq(Outputs) /\ Distinct(vec2)
              /\ \A i \in 1..Len(vec2) : vec2[i] # c
              /\ \A i \in 1..Len(vec2) : \E j \in 1..Len(vecOutput) : vec2[i] = vecOutput[j]
          <6>1. /\ RemoveAt(vecOutput, IndexOutput) \in Seq(Outputs)
                /\ \A i, j \in 1..Len(RemoveAt(vecOutput, IndexOutput)) :
                      i # j => RemoveAt(vecOutput, IndexOutput)[i] # RemoveAt(vecOutput, IndexOutput)[j]
                /\ \A i \in 1..Len(RemoveAt(vecOutput, IndexOutput)) :
                      RemoveAt(vecOutput, IndexOutput)[i] # vecOutput[IndexOutput]
                /\ \A i \in 1..Len(RemoveAt(vecOutput, IndexOutput)) :
                      \E j \in 1..Len(vecOutput) : RemoveAt(vecOutput, IndexOutput)[i] = vecOutput[j]
            BY <2>1, <2>2, <1>0, EraseKeepsDistinct DEF TypeOK, Distinct
          <6> QED
            BY <6>1, <5>1, <2>2 DEF Distinct
        <5> QED
          BY <5>2, <3>1, <2>1
      <4> QED
        BY <4>1, <4>2
    <3>5. CASE vec2 = <<>>
      <4>1. pc' \in {"outer", "done"} /\ result' \in Seq(Outputs) /\ numGenerate' \in Int
        BY <3>5, <3>1, <3>2, <2>1, <1>0, ReturnLeaves
      <4> QED
        BY <4>1, <3>1, <3>2, <3>3, <3>4, <1>0 DEF IInv, TypeOK, InnerOK
    <3>6. CASE vec2 # <<>>
      BY <3>6, <3>1, <3>2, <3>3, <3>4, <2>1, <1>0 DEF IInv, TypeOK, InnerOK
    <3> QED
      BY <3>5, <3>6
  <2> QED
    BY <2>4, <2>5
<1>8. CASE UNCHANGED vars
  BY <1>8 DEF vars, IInv, TypeOK, InnerOK, Distinct
<1> QED
  BY <1>1, <1>2, <1>3, <1>4, <1>5, <1>6, <1>7, <1>8 DEF Next

-----------------------------------------------------------------------------
(* Theorems.                                                               *)

\* Every state the mining RPCs reach is well typed.
THEOREM TypeCorrect == Spec => []TypeOK
<1>1. IInv => TypeOK
  BY DEF IInv
<1> QED
  BY <1>1, InitIInv, NextIInv, PTL DEF Spec

\* generateBlocks never starts an iteration with an empty vecOutput, so
\* nTries % vecOutput.size() never divides by zero, for every wallet,
\* request, maxtries and number of rounds.
THEOREM NoModuloByZeroThm == Spec => []NoModuloByZero
<1>1. IInv => NoModuloByZero
  BY DEF IInv, InnerOK, NoModuloByZero
<1> QED
  BY <1>1, InitIInv, NextIInv, PTL DEF Spec

\* generateBlocks never offers CreateNewBlock a stake coin that a block of
\* the same RPC has already spent.
THEOREM NoSpentCoinTriedThm == Spec => []NoSpentCoinTried
<1>1. IInv => NoSpentCoinTried
  BY DEF IInv, InnerOK, NoSpentCoinTried, TypeOK
<1> QED
  BY <1>1, InitIInv, NextIInv, PTL DEF Spec

-----------------------------------------------------------------------------
(* The block count.                                                        *)
(*                                                                         *)
(* AtMostRequested is not inductive: what bounds the blocks mined is the   *)
(* accounting of generateblockcommon.  Inside generateBlocks the call is   *)
(* asked for at most num_generate blocks (nHeightEnd is num_generate for a *)
(* round, genbigboomnum <= num_generate for the big-boom call, nblocks for  *)
(* generatetoaddress) and mines at most that many; when it returns,        *)
(* num_generate goes down by at least what it mined, so blocks mined plus  *)
(* num_generate never exceeds nblocks.  Every mined block's hash is in     *)
(* hashes until the call returns, then in the result.                      *)

Callers == {"common", "bigboom", "toaddress"}

\* A generateBlocks call of the current caller that has mined n blocks,
\* with m blocks mined by the whole RPC.
CallCount(n, m) ==
  /\ nHeightEnd \in Int /\ n <= nHeightEnd
  /\ Len(result) + n = m
  /\ caller = "common" => nHeightEnd = numGenerate
  /\ caller = "bigboom" => nHeightEnd = genBigBoom /\ genBigBoom <= numGenerate
  /\ caller = "toaddress" => nHeightEnd = Request /\ Len(result) = 0
  /\ rpc = "generate" => m - n + numGenerate <= Request

InnerCount == Len(hashes) = nHeight /\ CallCount(nHeight, mined)

\* Which call sites each RPC uses.
RpcCaller ==
  /\ rpc = "generate" => caller \in {"none", "common", "bigboom"}
  /\ rpc = "generatetoaddress" =>
       /\ caller \in {"none", "toaddress"} /\ numGenerate = Request
       /\ caller = "none" => mined = 0

Count ==
  /\ Len(result) <= mined /\ mined <= Request
  /\ RpcCaller
  /\ pc \in {"outer", "done"} => Len(result) = mined
  /\ rpc = "generate" /\ pc \in {"outer", "done"} =>
       numGenerate >= 0 /\ mined + numGenerate <= Request
  /\ pc = "inner" => InnerCount

CInv == IInv /\ Count


LEMMA InitCInv == Init => CInv
BY InitIInv, MinerAssumption DEF Init, CInv, Count, RpcCaller

\* A call that has mined n blocks leaves the RPC within nblocks.
LEMMA CallCountBound ==
  ASSUME TypeOK, RpcCaller, caller \in Callers, NEW n \in Nat, NEW m, CallCount(n, m)
  PROVE  m <= Request
<1>1. CASE caller = "common"
  BY <1>1, MinerAssumption DEF CallCount, RpcCaller, TypeOK
<1>2. CASE caller = "bigboom"
  BY <1>2, MinerAssumption DEF CallCount, RpcCaller, TypeOK
<1>3. CASE caller = "toaddress"
  BY <1>3, MinerAssumption DEF CallCount, RpcCaller, TypeOK
<1> QED
  BY <1>1, <1>2, <1>3 DEF Callers

\* generateBlocks returning hs, after m blocks of the RPC, to its caller:
\* num_generate goes down by at least the blocks of the call.
LEMMA ReturnCount ==
  ASSUME TypeOK, RpcCaller, caller \in Callers,
         NEW hs \in Seq(Outputs), NEW m \in Nat, CallCount(Len(hs), m),
         ReturnBlocks(hs), mined' = m, UNCHANGED <<rpc, caller, genBigBoom>>
  PROVE  Count'
<1>1. pc' \in {"outer", "done"} /\ result' = result \o hs
  BY ReturnLeaves DEF ReturnBlocks, ReturnToRound, ReturnToBigBoom, ReturnToAddress, Callers
<1>2. Len(result') = m
  BY <1>1, ConcatProperties DEF TypeOK, CallCount
<1>3. m <= Request
  BY CallCountBound
<1>4. RpcCaller'
  <2>1. rpc = "generatetoaddress" => caller = "toaddress" /\ numGenerate' = numGenerate
    BY DEF RpcCaller, ReturnBlocks, ReturnToRound, ReturnToBigBoom, ReturnToAddress, Callers
  <2> QED
    BY <2>1 DEF RpcCaller, Callers
<1>5. rpc = "generate" => numGenerate' >= 0 /\ m + numGenerate' <= Request
  <2>1. CASE caller = "common"
    BY <2>1 DEF ReturnBlocks, ReturnToRound, ReturnToBigBoom, ReturnToAddress, CallCount, TypeOK
  <2>2. CASE caller = "bigboom"
    <3>1. numGenerate' = numGenerate - genBigBoom
      BY <2>2 DEF ReturnBlocks, ReturnToRound, ReturnToBigBoom, ReturnToAddress
    <3>2. PICK k \in Nat : k = Len(hs)
      OBVIOUS
    <3>3. k <= genBigBoom /\ genBigBoom <= numGenerate
          /\ (rpc = "generate" => m - k + numGenerate <= Request)
      BY <2>2, <3>2 DEF CallCount
    <3>4. genBigBoom \in Nat /\ numGenerate \in Int
      BY DEF TypeOK
    <3> QED
      BY <3>1, <3>3, <3>4, MinerAssumption
  <2>3. CASE caller = "toaddress"
    BY <2>3 DEF RpcCaller
  <2> QED
    BY <2>1, <2>2, <2>3 DEF Callers
<1> QED
  BY <1>1, <1>2, <1>3, <1>4, <1>5 DEF Count

\* generateBlocks' entry from a caller in state pc = "outer": the new call
\* is asked for nGen blocks with nothing mined yet.
LEMMA CallCountStart ==
  ASSUME TypeOK, Count, pc = "outer", NEW vec, NEW nGen \in Int, nGen >= 0,
         NEW tries, NEW who \in Callers,
         CallGenerateBlocks(vec, nGen, tries, who),
         UNCHANGED <<rpc, numGenerate, result, mined>>,
         RpcCaller', genBigBoom' \in Int,
         who = "common" => nGen = numGenerate,
         who = "bigboom" => nGen = genBigBoom' /\ genBigBoom' <= numGenerate,
         who = "toaddress" => nGen = Request /\ mined = 0
  PROVE  Count'
<1>1. Len(result) = mined
  BY DEF Count
<1>2. CASE vec = <<>>
  BY <1>2 DEF CallGenerateBlocks, Count
<1>3. CASE vec # <<>>
  <2>1. pc' = "inner" /\ caller' = who /\ nHeight' = 0 /\ hashes' = <<>> /\ nHeightEnd' = nGen
    BY <1>3 DEF CallGenerateBlocks
  <2>2. rpc = "generate" => mined + numGenerate <= Request
    BY DEF Count
  <2>3. InnerCount'
    BY <1>1, <2>1, <2>2 DEF InnerCount, CallCount
  <2> QED
    BY <2>1, <2>3 DEF Count
<1> QED
  BY <1>2, <1>3

LEMMA NextCount == CInv /\ [Next]_vars => Count'
<1> SUFFICES ASSUME CInv, [Next]_vars PROVE Count'
  OBVIOUS
<1>0. TypeOK /\ Count /\ InnerOK /\ RpcCaller
  BY DEF CInv, IInv, Count
<1>1. CASE StartCommon
  <2>1. pc = "outer" /\ rpc = "generate" /\ numGenerate > 0 /\ BigBoomLeft > 0
    BY <1>1 DEF StartCommon
  <2>2. genBigBoom' \in Int /\ genBigBoom' <= numGenerate /\ genBigBoom' >= 0
    BY <1>0, <1>1, <2>1, MinerAssumption DEF StartCommon, TypeOK
  <2>3. RpcCaller'
    BY <1>1, <2>1 DEF StartCommon, CallGenerateBlocks, RpcCaller
  <2> QED
    BY <1>0, <1>1, <2>1, <2>2, <2>3, CallCountStart DEF StartCommon, Callers, TypeOK
<1>2. CASE CommonRound
  <2>1. PICK vec \in Orderings(Coins \ spent) :
          CallGenerateBlocks(vec, numGenerate, MaxTries, "common")
    BY <1>2, Zenon DEF CommonRound
  <2>2. pc = "outer" /\ rpc = "generate" /\ numGenerate > 0
        /\ UNCHANGED <<rpc, numGenerate, result, mined, genBigBoom>>
    BY <1>2 DEF CommonRound
  <2>3. RpcCaller'
    BY <2>1, <2>2 DEF CallGenerateBlocks, RpcCaller
  <2> QED
    BY <1>0, <2>1, <2>2, <2>3, CallCountStart DEF Callers, TypeOK
<1>3. CASE ToAddress
  <2>1. PICK vec \in Orderings(Coins \ spent) :
          CallGenerateBlocks(vec, Request, MaxTries, "toaddress")
    BY <1>3, Zenon DEF ToAddress
  <2>2. pc = "outer" /\ rpc = "generatetoaddress" /\ caller = "none"
        /\ UNCHANGED <<rpc, numGenerate, result, mined, genBigBoom>>
    BY <1>3 DEF ToAddress
  <2>3. mined = 0 /\ numGenerate = Request
    BY <1>0, <2>2 DEF RpcCaller
  <2>4. RpcCaller'
    BY <2>1, <2>2, <2>3 DEF CallGenerateBlocks, RpcCaller
  <2> QED
    BY <1>0, <2>1, <2>2, <2>3, <2>4, MinerAssumption, CallCountStart DEF Callers, TypeOK
<1>4. CASE CommonDone
  BY <1>0, <1>4 DEF CommonDone, Count, RpcCaller
<1>5. CASE GenerateBlocksExit
  <2>1. pc = "inner" /\ caller \in Callers
    BY <1>0, <1>5 DEF GenerateBlocksExit, InnerOK, Callers
  <2>2. CallCount(Len(hashes), mined) /\ hashes \in Seq(Outputs) /\ mined \in Nat
    BY <1>0, <2>1 DEF Count, InnerCount, TypeOK
  <2>3. ReturnBlocks(hashes) /\ mined' = mined /\ UNCHANGED <<rpc, caller, genBigBoom>>
    BY <1>5 DEF GenerateBlocksExit
  <2> QED
    BY <1>0, <2>1, <2>2, <2>3, ReturnCount
<1>6. CASE GenerateBlocksSkip
  BY <1>0, <1>6 DEF GenerateBlocksSkip, Count, InnerCount, CallCount, RpcCaller
<1>7. ASSUME NEW ok \in BOOLEAN, GenerateBlocksTry(ok) PROVE Count'
  <2>1. /\ pc = "inner" /\ caller \in Callers /\ vecOutput # <<>>
        /\ nHeight < nHeightEnd
    BY <1>0, <1>7 DEF GenerateBlocksTry, InnerOK, Callers, LoopCond
  <2>2. InnerCount
    BY <1>0, <2>1 DEF Count
  <2>3. CASE ok /\ Out \in spent
    BY <1>0, <1>7, <2>3 DEF GenerateBlocksTry, Count, RpcCaller, callVars
  <2>4. CASE ~(ok /\ Out \in spent)
    <3> DEFINE vec2 == EraseTriedCoin(ok)
               hs2 == IF ok THEN Append(hashes, Out) ELSE hashes
               n2 == IF ok THEN nHeight + 1 ELSE nHeight
               m2 == IF ok THEN mined + 1 ELSE mined
    <3>1. /\ nHeight' = n2 /\ mined' = m2 /\ hashes' = hs2
          /\ IF vec2 = <<>> THEN ReturnBlocks(hs2) ELSE UNCHANGED <<pc, numGenerate, result>>
          /\ UNCHANGED <<rpc, caller, genBigBoom, nHeightEnd>>
      BY <1>7, <2>4 DEF GenerateBlocksTry
    <3>2. IndexOutput \in 1..Len(vecOutput) /\ Out \in Outputs
      BY <1>0, <2>1 DEF IndexOutput, Out, TypeOK
    <3>3. hs2 \in Seq(Outputs) /\ Len(hs2) = n2 /\ n2 \in Nat /\ m2 \in Nat
      BY <1>0, <2>2, <3>2 DEF TypeOK, InnerCount
    <3>4. CallCount(n2, m2)
      BY <2>1, <2>2 DEF InnerCount, CallCount
    <3>5. m2 <= Request
      BY <1>0, <2>1, <3>3, <3>4, CallCountBound
    <3>6. CASE vec2 = <<>>
      BY <1>0, <2>1, <3>1, <3>3, <3>4, <3>6, ReturnCount
    <3>7. CASE vec2 # <<>>
      <4>1. UNCHANGED <<pc, numGenerate, result>>
        BY <3>1, <3>7
      <4>2. InnerCount'
        BY <3>1, <3>3, <3>4, <4>1 DEF InnerCount, CallCount
      <4>3. Len(result) <= m2
        BY <3>3, <3>4 DEF CallCount, TypeOK
      <4>4. RpcCaller'
        BY <1>0, <2>1, <3>1, <4>1 DEF RpcCaller, Callers
      <4>5. Len(result') <= mined' /\ mined' <= Request /\ pc' = "inner"
        BY <2>1, <3>1, <3>5, <4>1, <4>3
      <4> QED
        BY <4>2, <4>4, <4>5 DEF Count
    <3> QED
      BY <3>6, <3>7
  <2> QED
    BY <2>3, <2>4
<1>8. CASE UNCHANGED vars
  BY <1>0, <1>8 DEF vars, Count, InnerCount, CallCount, RpcCaller
<1> QED
  BY <1>1, <1>2, <1>3, <1>4, <1>5, <1>6, <1>7, <1>8 DEF Next

LEMMA NextCInv == CInv /\ [Next]_vars => CInv'
BY NextIInv, NextCount DEF CInv

\* generate and generatetoaddress mine at most nblocks blocks over all their
\* generateBlocks calls (the big-boom call and every round), and return no
\* more hashes than they mined, for every wallet, request and bound.
THEOREM AtMostRequestedThm == Spec => []AtMostRequested
<1>1. CInv => AtMostRequested
  BY DEF CInv, Count, AtMostRequested
<1> QED
  BY <1>1, InitCInv, NextCInv, PTL DEF Spec

=============================================================================
