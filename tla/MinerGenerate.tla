--------------------------- MODULE MinerGenerate ---------------------------
(***************************************************************************)
(* The mining RPCs generate and generatetoaddress (src/unnamed/part_000).  *)
(* generateblockcommon first mines the remaining big-boom blocks           *)
(* (genforbigboomimp, one dummy output that is never used up), then up to  *)
(* TRY_TIMES rounds of generateBlocks over the wallet's stake coins.       *)
(* generateBlocks loops over vecOutput, coin nTries % size: a coin whose   *)
(* script is unusable or whose template or signature fails is skipped; a   *)
(* coin that reaches CheckBlockWork is erased from vecOutput whatever the  *)
(* outcome, and the loop breaks when vecOutput becomes empty.  A block     *)
(* spends its stake coin; a spent coin stays unavailable for the rest of   *)
(* the call (a coinstake output is immature).  Hashes are abstracted to    *)
(* the block's stake coin.                                                 *)
(***************************************************************************)
EXTENDS Integers, SequencesExt

CONSTANTS
  Coins,          \* stake coins of the wallet
  BadCoins,       \* coins GetMortgageCoinData rejects, or P2SH scripts
  NullOut,        \* the dummy output of genforbigboomimp (out.tx == nullptr)
  Request,        \* nblocks
  MaxTries,       \* maxtries
  TRY_TIMES,      \* iTryTimes of generateblockcommon
  BigBoomLeft     \* BigBoomHeight - chainActive.Height() when the RPC starts

ASSUME MinerAssumption ==
  /\ IsFiniteSet(Coins) /\ BadCoins \subseteq Coins
  /\ NullOut \notin Coins
  /\ Request \in Nat /\ MaxTries \in Nat /\ TRY_TIMES \in Nat /\ BigBoomLeft \in Nat

VARIABLES
  rpc,         \* "generate" (generateblockcommon) or "generatetoaddress"
  pc,          \* "outer", "inner", "done" or "thrown"
  spent,       \* coins spent by blocks this RPC mined
  numGenerate, \* num_generate: blocks generateblockcommon still asks for
  tryTimes,    \* iTryTimes
  result,      \* genBlockRet: stake coins of the blocks returned so far
  caller,      \* who called generateBlocks: "common", "bigboom", "toaddress"
  genBigBoom,  \* genbigboomnum of the pending genforbigboomimp call
  vecOutput,   \* generateBlocks' vecOutput
  nTries,
  nHeight,     \* blocks mined by this generateBlocks call
  nHeightEnd,  \* nGenerate of this call
  maxTries,    \* nMaxTries of this call
  hashes,      \* blockHashes of this call
  callCoins,   \* the vecOutput this call was given
  mined        \* blocks ProcessNewBlock accepted during the RPC

vars == <<rpc, pc, spent, numGenerate, tryTimes, result, caller, genBigBoom,
          vecOutput, nTries, nHeight, nHeightEnd, maxTries, hashes, callCoins, mined>>
callVars == <<vecOutput, nTries, nHeight, nHeightEnd, maxTries, hashes, callCoins>>

Outputs == Coins \cup {NullOut}

\* The wallet's coins in any order (AvailableCoins, sorted by CoinsComparer
\* on value and age, which the model does not track).
Orderings(S) == SetToSeqs(S)

-----------------------------------------------------------------------------
(* generateBlocks.                                                         *)

\* Entry of generateBlocks: an empty vecOutput throws RPC_INTERNAL_ERROR.
CallGenerateBlocks(vec, nGen, tries, who) ==
  /\ caller' = who
  /\ IF vec = <<>>
       THEN /\ pc' = "thrown"
            /\ UNCHANGED callVars
       ELSE /\ pc' = "inner"
            /\ vecOutput' = vec /\ nTries' = 0 /\ nHeight' = 0
            /\ nHeightEnd' = nGen /\ maxTries' = tries /\ hashes' = <<>>
            /\ callCoins' = vec

\* A round of generateblockcommon takes the hashes: num_generate -=
\* genblocks.size(), and the while loop tests again.
ReturnToRound(hs) == numGenerate' = numGenerate - Len(hs) /\ pc' = "outer"

\* genforbigboomimp's array result: num_generate -= genbigboomnum, the
\* number requested, whatever was mined.
ReturnToBigBoom == numGenerate' = numGenerate - genBigBoom /\ pc' = "outer"

\* generatetoaddress returns generateBlocks' result as its own.
ReturnToAddress == UNCHANGED numGenerate /\ pc' = "done"

\* generateBlocks returns blockHashes hs to its caller, which appends them
\* to its result.
ReturnBlocks(hs) ==
  /\ result' = result \o hs
  /\ CASE caller = "common"    -> ReturnToRound(hs)
       [] caller = "bigboom"   -> ReturnToBigBoom
       [] caller = "toaddress" -> ReturnToAddress

\* Mutant: the loop runs while nHeight <= nHeightEnd.
LoopCondInclusive == nHeight <= nHeightEnd /\ nTries < maxTries

LoopCond == nHeight < nHeightEnd /\ nTries < maxTries

\* The coin of this iteration.
IndexOutput == (nTries % Len(vecOutput)) + 1
Out == vecOutput[IndexOutput]

\* The loop condition fails: generateBlocks returns.
GenerateBlocksExit ==
  /\ pc = "inner"
  /\ ~LoopCond
  /\ ReturnBlocks(hashes)
  /\ UNCHANGED <<rpc, spent, tryTimes, caller, genBigBoom, callVars, mined>>

\* An iteration that ends in "nTries++; continue": the coin's script is
\* unusable, or CreateNewBlock or SignBlock fails.
GenerateBlocksSkip ==
  /\ pc = "inner"
  /\ LoopCond
  /\ nTries' = nTries + 1
  /\ UNCHANGED <<rpc, pc, spent, numGenerate, tryTimes, result, caller, genBigBoom,
                 vecOutput, nHeight, nHeightEnd, maxTries, hashes, callCoins, mined>>

\* Mutant: the coin is erased only when no block was mined with it.
EraseTriedCoinOnFailure(ok) ==
  IF Out # NullOut /\ ~ok THEN RemoveAt(vecOutput, IndexOutput) ELSE vecOutput

\* "remove mine success coin, which is spent": the tried coin leaves
\* vecOutput, whether or not CheckBlockWork passed; the dummy stays.
EraseTriedCoin(ok) ==
  IF Out # NullOut THEN RemoveAt(vecOutput, IndexOutput) ELSE vecOutput

\* Mutant: no break when vecOutput becomes empty.
GenerateBlocksTryNoBreak(ok) ==
  LET c    == Out
      vec2 == EraseTriedCoin(ok)
      hs2  == IF ok THEN Append(hashes, c) ELSE hashes
  IN  /\ pc = "inner"
      /\ LoopCond
      /\ c \notin BadCoins
      /\ IF ok /\ c \in spent
           THEN /\ pc' = "thrown"
                /\ UNCHANGED <<numGenerate, result, spent, callVars, mined>>
           ELSE /\ spent' = IF ok /\ c # NullOut THEN spent \cup {c} ELSE spent
                /\ nHeight' = IF ok THEN nHeight + 1 ELSE nHeight
                /\ mined' = IF ok THEN mined + 1 ELSE mined
                /\ nTries' = nTries + 1
                /\ vecOutput' = vec2
                /\ hashes' = hs2
                /\ UNCHANGED <<pc, numGenerate, result>>
                /\ UNCHANGED <<nHeightEnd, maxTries, callCoins>>
      /\ UNCHANGED <<rpc, tryTimes, caller, genBigBoom>>

\* An iteration that reaches CheckBlockWork with outcome ok.  A block whose
\* stake coin is already spent is refused by ProcessNewBlock, which throws.
GenerateBlocksTry(ok) ==
  LET c    == Out
      vec2 == EraseTriedCoin(ok)
      hs2  == IF ok THEN Append(hashes, c) ELSE hashes
  IN  /\ pc = "inner"
      /\ LoopCond
      /\ c \notin BadCoins
      /\ IF ok /\ c \in spent
           THEN /\ pc' = "thrown"
                /\ UNCHANGED <<numGenerate, result, spent, callVars, mined>>
           ELSE /\ spent' = IF ok /\ c # NullOut THEN spent \cup {c} ELSE spent
                /\ nHeight' = IF ok THEN nHeight + 1 ELSE nHeight
                /\ mined' = IF ok THEN mined + 1 ELSE mined
                /\ nTries' = nTries + 1
                /\ vecOutput' = vec2
                /\ hashes' = hs2
                /\ IF vec2 = <<>>
                     THEN ReturnBlocks(hs2)
                     ELSE UNCHANGED <<pc, numGenerate, result>>
                /\ UNCHANGED <<nHeightEnd, maxTries, callCoins>>
      /\ UNCHANGED <<rpc, tryTimes, caller, genBigBoom>>

-----------------------------------------------------------------------------
(* The callers.                                                            *)

\* genforbigboomimp, called by generateblockcommon while the chain is below
\* BigBoomHeight; it is only ever asked for at most BigBoomLeft blocks.
StartCommon ==
  /\ pc = "outer" /\ rpc = "generate" /\ result = <<>> /\ tryTimes = TRY_TIMES
  /\ genBigBoom = 0 /\ numGenerate > 0 /\ BigBoomLeft > 0 /\ caller = "none"
  /\ genBigBoom' = IF numGenerate < BigBoomLeft THEN numGenerate ELSE BigBoomLeft
  /\ CallGenerateBlocks(<<NullOut>>, genBigBoom', MaxTries, "bigboom")
  /\ UNCHANGED <<rpc, spent, numGenerate, tryTimes, result, mined>>

\* Mutant: the iTryTimes bound is not tested.
CommonRoundNoTryLimit ==
  /\ pc = "outer" /\ rpc = "generate"
  /\ caller # "none" \/ BigBoomLeft = 0 \/ numGenerate <= 0
  /\ numGenerate > 0
  /\ tryTimes' = tryTimes - 1
  /\ \E vec \in Orderings(Coins \ spent) :
       CallGenerateBlocks(vec, numGenerate, MaxTries, "common")
  /\ UNCHANGED <<rpc, spent, numGenerate, result, genBigBoom, mined>>

\* One round of generateblockcommon's while loop: the wallet's available
\* coins, sorted, go to generateBlocks for the remaining blocks.
CommonRound ==
  /\ pc = "outer" /\ rpc = "generate"
  /\ caller # "none" \/ BigBoomLeft = 0 \/ numGenerate <= 0
  /\ numGenerate > 0 /\ tryTimes > 0
  /\ tryTimes' = tryTimes - 1
  /\ \E vec \in Orderings(Coins \ spent) :
       CallGenerateBlocks(vec, numGenerate, MaxTries, "common")
  /\ UNCHANGED <<rpc, spent, numGenerate, result, genBigBoom, mined>>

\* generateblockcommon's loop ends and the RPC returns genBlockRet.
CommonDone ==
  /\ pc = "outer" /\ rpc = "generate"
  /\ caller # "none" \/ BigBoomLeft = 0 \/ numGenerate <= 0
  /\ numGenerate <= 0 \/ tryTimes <= 0
  /\ pc' = "done"
  /\ UNCHANGED <<rpc, spent, numGenerate, tryTimes, result, caller, genBigBoom, callVars, mined>>

\* generatetoaddress: one generateBlocks over the address's coins.
ToAddress ==
  /\ pc = "outer" /\ rpc = "generatetoaddress" /\ caller = "none"
  /\ \E vec \in Orderings(Coins \ spent) :
       CallGenerateBlocks(vec, Request, MaxTries, "toaddress")
  /\ UNCHANGED <<rpc, spent, numGenerate, tryTimes, result, genBigBoom, mined>>

-----------------------------------------------------------------------------
Init ==
  /\ rpc \in {"generate", "generatetoaddress"}
  /\ pc = "outer"
  /\ spent = {}
  /\ numGenerate = Request
  /\ tryTimes = TRY_TIMES
  /\ result = <<>>
  /\ caller = "none"
  /\ genBigBoom = 0
  /\ vecOutput = <<>> /\ nTries = 0 /\ nHeight = 0 /\ nHeightEnd = 0
  /\ maxTries = 0 /\ hashes = <<>> /\ callCoins = <<>>
  /\ mined = 0

Next ==
  \/ StartCommon
  \/ CommonRound
  \/ CommonDone
  \/ ToAddress
  \/ GenerateBlocksExit
  \/ GenerateBlocksSkip
  \/ \E ok \in BOOLEAN : GenerateBlocksTry(ok)

Spec == Init /\ [][Next]_vars

-----------------------------------------------------------------------------
(* Properties.                                                             *)

TypeOK ==
  /\ rpc \in {"generate", "generatetoaddress"}
  /\ pc \in {"outer", "inner", "done", "thrown"}
  /\ spent \subseteq Coins
  /\ numGenerate \in Int /\ tryTimes \in 0..TRY_TIMES /\ genBigBoom \in Nat
  /\ result \in Seq(Outputs) /\ hashes \in Seq(Outputs)
  /\ caller \in {"none", "common", "bigboom", "toaddress"}
  /\ vecOutput \in Seq(Outputs) /\ callCoins \in Seq(Outputs)
  /\ nTries \in Nat /\ nHeight \in Nat /\ mined \in Nat

\* generateBlocks computes nTries % vecOutput.size() at the top of every
\* iteration; the erase of the tried coin must never leave an empty
\* vecOutput for the next iteration (the break after the erase).
NoModuloByZero == pc = "inner" /\ LoopCond => vecOutput # <<>>

\* A coin that has staked a block of this RPC is never offered to
\* CreateNewBlock again in the same generateBlocks call: the erase after a
\* mined block keeps ProcessNewBlock from seeing a spent stake.
NoSpentCoinTried ==
  pc = "inner" => \A i \in DOMAIN vecOutput : vecOutput[i] \notin spent

\* The RPC mines at most nblocks blocks, over all its generateBlocks calls
\* (big-boom and rounds), and returns no more hashes than it mined.
AtMostRequested == mined <= Request /\ Len(result) <= mined

\* generate's help: "Result: [ blockhashes ] hashes of blocks generated".
\* An RPC that mined blocks reports them rather than failing.
BlocksReported ==
  /\ pc = "done" => Len(result) = mined
  /\ pc = "thrown" => mined = 0

\* Comment at generateBlocks' erase: "remove mine success coin, which is
\* spent" - a coin leaves vecOutput only once it has staked a block.
TriedCoinKeptUnlessSpent ==
  pc = "inner" =>
    \A c \in ToSet(callCoins) \ ToSet(vecOutput) : c \in spent

=============================================================================
