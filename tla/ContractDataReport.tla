------------------------ MODULE ContractDataReport -------------------------
(***************************************************************************)
(* The CONTRACT_DATA fraud proof of branchchain.cpp (CheckProveContractData,*)
(* reached from CheckReportCheatTx).  A branch block commits, for every    *)
(* contract transaction, the prev data it read: for contract C, the        *)
(* position <<block, txIndex>> of the write it read from ("dataFrom").  A  *)
(* report names a reported transaction (R, i) and a prove transaction      *)
(* (P, j) that wrote C; the check decides whether (R, i) read stale data.  *)
(*                                                                         *)
(* The model grows a tree of branch blocks (forks included) whose          *)
(* transactions read and write one contract C.  Honest miners commit the  *)
(* last write on their chain; a cheating miner may commit another write    *)
(* position for one transaction of its block.  The check is then compared  *)
(* with the stale-read reference definition over every report that can be *)
(* formed from the committed data (the SPV proofs only admit committed     *)
(* data).                                                                  *)
(***************************************************************************)
EXTENDS Integers, FiniteSets

CONSTANTS
  MaxBlocks,   \* (positive) bound on the number of branch blocks above genesis (block 0)
  TxIdx,       \* (positive) indexes of the contract transactions of a block
  NoFrom       \* C is not in the transaction's prev data

Blocks == 0..MaxBlocks
Pos == (1..MaxBlocks) \X TxIdx

VARIABLES
  nBlocks,    \* blocks 1..nBlocks exist (their headers are in mapHeads)
  height,     \* BranchBlockData::nHeight
  anc,        \* the block and its ancestors (what GetAncestor walks)
  writes,     \* writes[b]: the transactions of b that write C
  dataFrom    \* dataFrom[b][i]: the committed prev-data position of C for tx i of b

vars == <<nBlocks, height, anc, writes, dataFrom>>

-----------------------------------------------------------------------------
(* The chain.                                                              *)

\* BranchData::GetAncestor(b, h): the block at height h on b's chain.
GetAncestor(b, h) == CHOOSE a \in anc[b] : height[a] = h

\* p comes strictly before q in chain order.
Earlier(p, q) ==
  \/ height[p[1]] < height[q[1]]
  \/ height[p[1]] = height[q[1]] /\ p[2] < q[2]

\* The writes of C on b's chain before transaction i of b, when b's own
\* writes are w.
WritesBefore(b, i, w) ==
  {<<a, j>> \in Pos : a \in anc[b] \ {b} /\ j \in writes[a]} \cup {<<b, j>> : j \in {k \in w : k < i}}

\* The position an honest miner commits: the last write before tx i.
LastWriteIn(S) ==
  IF S = {} THEN NoFrom ELSE CHOOSE p \in S : \A q \in S \ {p} : Earlier(q, p)

LastWrite(b, i) == LastWriteIn(WritesBefore(b, i, writes[b]))

-----------------------------------------------------------------------------
(* CheckProveContractData, for the reported tx (R, i) and the prove tx     *)
(* (P, j); the SPV checks hold for committed data.                         *)

\* The test inside the loop over proveContractData, for the item C found in
\* reportedContractPrevData.dataFrom at <<X, x>>: the recorded block is not
\* on the reported chain, or the prove's write is newer than the recorded one.
StaleWitness(R, P, j, X, x, i) ==
  \/ GetAncestor(R, height[X]) # X
  \/ height[P] > height[X]
  \/ height[P] = height[X] /\ j > x /\ j < i

CheckProveContractData(R, i, P, j) ==
  LET from == dataFrom[R][i] IN
  /\ height[P] <= height[R]
  /\ GetAncestor(R, height[P]) = P
  /\ j \in writes[P]
  /\ from # NoFrom
  /\ StaleWitness(R, P, j, from[1], from[2], i)

-----------------------------------------------------------------------------
(* Mining.                                                                 *)

\* The prev data a miner commits for the transactions of a new block b with
\* writes w: the last write on its chain, or, for the one transaction c a
\* cheating miner picks, the position of another earlier write.
CommittedFrom(b, w, c, bad) ==
  [i \in TxIdx |-> IF i = c THEN bad ELSE LastWriteIn(WritesBefore(b, i, w))]

\* A miner connects block b on parent p; its transactions write C at w.
MineBlock(p, w, c, bad) ==
  LET b == nBlocks + 1 IN
  /\ nBlocks < MaxBlocks
  /\ nBlocks' = b
  /\ height' = [height EXCEPT ![b] = height[p] + 1]
  /\ anc' = [anc EXCEPT ![b] = anc[p] \cup {b}]
  /\ writes' = [writes EXCEPT ![b] = w]
  /\ dataFrom' = [dataFrom EXCEPT ![b] = CommittedFrom(b, w, c, bad)]

\* The write positions a cheating miner of block b can commit for tx c:
\* any write in a block no higher than b, or an earlier write of b.
CheatFroms(p, w, c) ==
  {<<a, j>> \in Pos : a \in 1..nBlocks /\ height[a] <= height[p] + 1 /\ j \in writes[a]}
    \cup {<<nBlocks + 1, j>> : j \in {k \in w : k # c}}

Init ==
  /\ nBlocks = 0
  /\ height = [b \in Blocks |-> 0]
  /\ anc = [b \in Blocks |-> {b}]
  /\ writes = [b \in Blocks |-> {}]
  /\ dataFrom = [b \in Blocks |-> [i \in TxIdx |-> NoFrom]]

Next ==
  \E p \in 0..nBlocks, w \in SUBSET TxIdx :
    \/ MineBlock(p, w, 0, NoFrom)
    \/ \E c \in TxIdx : \E bad \in CheatFroms(p, w, c) : MineBlock(p, w, c, bad)

Spec == Init /\ [][Next]_vars

-----------------------------------------------------------------------------
(* Properties.                                                             *)

\* The reference (spec, check_prove_contract_data and scenario 3): tx i of
\* block R read stale contract data when the write it recorded is not the
\* last write of C before it on R's chain.
StaleRead(R, i) == dataFrom[R][i] # NoFrom /\ dataFrom[R][i] # LastWrite(R, i)

TypeOK ==
  /\ nBlocks \in 0..MaxBlocks
  /\ height \in [Blocks -> 0..MaxBlocks]
  /\ anc \in [Blocks -> SUBSET Blocks]
  /\ writes \in [Blocks -> SUBSET TxIdx]
  /\ dataFrom \in [Blocks -> [TxIdx -> Pos \cup {NoFrom}]]

\* Spec 4.3: a report is sustained only against a block that misbehaved -
\* CheckProveContractData accepts a report only when the reported
\* transaction really read stale data of the contract.  (No prove type
\* answers a CONTRACT_DATA report, so an accepted one costs the miner its
\* stake.)
ContractReportSound ==
  \A R \in 1..nBlocks, i \in TxIdx, P \in 1..nBlocks, j \in TxIdx :
    CheckProveContractData(R, i, P, j) => StaleRead(R, i)

\* Scenario 3 of the spec: every stale read can be reported - some write on
\* the reported chain makes CheckProveContractData accept the report.
StaleReadReportable ==
  \A R \in 1..nBlocks, i \in TxIdx :
    StaleRead(R, i) => \E P \in 1..nBlocks, j \in TxIdx : CheckProveContractData(R, i, P, j)

=============================================================================
