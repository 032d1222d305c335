----------------------------- MODULE ChainCoins -----------------------------
(***************************************************************************)
(* Blocks applied to the coins views and taken back (main.cpp): ConnectTip,*)
(* DisconnectTip, TestBlockValidity, VerifyDB and FlushStateToDisk, one    *)
(* call on the coins views per step, with the undo data that ConnectBlock  *)
(* writes and DisconnectBlock reads. The process may end at every step.    *)
(* Scripts, amounts and zerocoins are left out: a block that fails on them *)
(* is in Invalid. Which block is connected next is ChainState's subject:   *)
(* here any child of the tip may be, and any tip may be disconnected.      *)
(*                                                                         *)
(* Some definitions have a variant just before them that nothing uses      *)
(* (SpendUndoNoHeight before SpendUndo): the definition with a plausible   *)
(* programming error, kept to confirm that the properties notice it.       *)
(***************************************************************************)
EXTENDS CoinsCache, Integers, Sequences, SequencesExt

CONSTANTS
    Genesis, Parent,    \* the block tree; Hashes are its blocks
    Height,             \* pindex->nHeight
    Vtx,                \* transactions of a block, in order
    Vin,                \* inputs of a transaction: <<txid, output>>; none for a coinbase
    Vout,               \* its spendable outputs
    Outputs,            \* output numbers
    Stakes,             \* the coinstake transactions
    Invalid,            \* blocks that a check other than those modelled rejects
    Utxo,               \* the coins after each block: the reference, see UtxoAssumption
    NoUndo

VARIABLES
    active,     \* chainActive.Tip()
    undo,       \* undo data reachable from the block index
    undoDisk,   \* the part of it that is on disk with the index
    op,         \* the operation in progress
    pc,         \* where it is
    cur,        \* its block
    i, j,       \* the transaction and the input it is at
    blockundo,  \* CBlockUndo of the block being connected: a CTxUndo by transaction
    clean,      \* fClean of DisconnectBlock
    failed      \* a flush of the coins has failed, now or before a restart

jobVars == <<op, cur, i, j, blockundo, clean>>
vars == <<cacheVars, active, undo, undoDisk, op, pc, cur, i, j, blockundo, clean, failed>>

-----------------------------------------------------------------------------
(* CCoins and its undo record *)

FromTx(t, h) ==
    IF Vout[t] = {} THEN Pruned
    ELSE [outs |-> Vout[t], height |-> h, stake |-> t \in Stakes]

\* CCoins::Spend. The height and flags go into the undo record with the last output.
Spend(c, n) == IF c.outs = {n} THEN Pruned ELSE [c EXCEPT !.outs = @ \ {n}]

SpendUndoNoHeight(c, n) == [height |-> 0, stake |-> FALSE]

SpendUndo(c, n) ==
    IF c.outs = {n} THEN [height |-> c.height, stake |-> c.stake]
    ELSE [height |-> 0, stake |-> FALSE]

\* What DisconnectBlock makes of coins c and the undo record u of output n. It
\* restores the height, and leaves fCoinStake as Clear() left it.
Restore(c, u, n) ==
    IF u.height # 0 THEN [outs |-> {n}, height |-> u.height, stake |-> FALSE]
    ELSE [c EXCEPT !.outs = @ \cup {n}]
RestoreClean(c, u, n) ==
    /\ u.height # 0 <=> c = Pruned
    /\ n \notin c.outs

-----------------------------------------------------------------------------
(* The reference: the coins at any point of a block, when its first k - 1      *)
(* transactions and the first l inputs of the next one have been applied. It   *)
(* knows of no order, caches or undo data: coins are those before the block or *)
(* those it has added, less what it has spent.                                 *)

Less(c, S) == IF c.outs \subseteq S THEN Pruned ELSE [c EXCEPT !.outs = @ \ S]

Added(b, k) == {Vtx[b][m] : m \in 1..(k - 1)}
Spent(b, k, l) ==
    (UNION {Range(Vin[t]) : t \in Added(b, k)}) \cup {Vin[Vtx[b][k]][m] : m \in 1..l}
CoinsAt(b, k, l) ==
    [t \in TxIds |->
        Less(IF t \in Added(b, k) THEN FromTx(t, Height[b]) ELSE Utxo[Parent[b]][t],
             {n \in Outputs : <<t, n>> \in Spent(b, k, l)})]
After(b) == CoinsAt(b, Len(Vtx[b]) + 1, 0)

\* The block adds no transaction over unspent coins, and finds all that it spends.
Connectable(b) ==
    \A k \in DOMAIN Vtx[b] :
        /\ Utxo[Parent[b]][Vtx[b][k]] = Pruned
        /\ \A o \in Range(Vin[Vtx[b][k]]) : o[2] \in CoinsAt(b, k, 0)[o[1]].outs

ASSUME TreeAssumption ==
    /\ Genesis \in Hashes
    /\ Parent \in [Hashes \ {Genesis} -> Hashes]
    /\ Height \in [Hashes -> Nat]
    /\ \A b \in Hashes \ {Genesis} : Height[b] = Height[Parent[b]] + 1
\* CheckTransaction refuses a transaction that has an input twice; a block has one
\* coinbase.
ASSUME TransactionAssumption ==
    /\ Vtx \in [Hashes -> Seq(TxIds)]
    /\ Vin \in [TxIds -> Seq(TxIds \X Outputs)]
    /\ Vout \in [TxIds -> SUBSET Outputs]
    /\ \A t \in TxIds : IsInjective(Vin[t])
    /\ \A b \in Hashes \ {Genesis} :
        /\ Vtx[b] # << >>
        /\ \A k, m \in DOMAIN Vtx[b] :
                Vtx[b][k] = Vtx[b][m] /\ Vin[Vtx[b][k]] = << >> => k = m
ASSUME CoinsAssumption ==
    /\ Pruned = [outs |-> {}, height |-> 0, stake |-> FALSE]
    /\ Values = [outs : (SUBSET Outputs) \ {{}}, height : {0} \cup {Height[b] : b \in Hashes},
                 stake : BOOLEAN]
ASSUME UtxoAssumption ==
    /\ Utxo \in [Hashes -> [TxIds -> Coins]]
    /\ Utxo[Genesis] = [t \in TxIds |-> Pruned]
    /\ \A b \in Hashes \ ({Genesis} \cup Invalid) : Connectable(b) => Utxo[b] = After(b)

-----------------------------------------------------------------------------
tx == Vtx[cur][i]
prevout == Vin[tx][j]

UndoRecord == [height : {0} \cup {Height[b] : b \in Hashes}, stake : BOOLEAN]
BlockUndo == Seq(Seq(UndoRecord))

ASSUME NoUndoAssumption == NoUndo \notin BlockUndo

TypeOK ==
    /\ CacheTypeOK
    /\ undo \in [Hashes -> BlockUndo \cup {NoUndo}]
    /\ undoDisk \in [Hashes -> BlockUndo \cup {NoUndo}]
    /\ blockundo \in BlockUndo
    /\ active \in Hashes /\ cur \in Hashes
    /\ op \in {"none", "connect", "check", "disconnect", "verify", "flush"}
    /\ pc \in {"idle", "best", "overwrite", "inputs", "spend", "finish", "remove", "restore",
               "moved", "flushview", "abandon", "committed", "indexed", "flushed"}
    /\ i \in Nat /\ j \in Nat
    /\ clean \in BOOLEAN /\ failed \in BOOLEAN

Init ==
    /\ db = [t \in TxIds |-> Pruned] /\ dbBest = Genesis
    /\ CacheInit
    /\ active = Genesis
    /\ undo = [b \in Hashes |-> NoUndo] /\ undoDisk = undo
    /\ op = "none" /\ pc = "idle" /\ cur = Genesis
    /\ i = 0 /\ j = 0 /\ blockundo = << >> /\ clean = TRUE
    /\ failed = FALSE

Idle == op' = "none" /\ pc' = "idle" /\ cur' = Genesis /\ i' = 0 /\ j' = 0
        /\ blockundo' = << >> /\ clean' = TRUE

Begin(o, b) ==
    /\ pc = "idle"
    /\ OpenView
    /\ op' = o /\ pc' = "best" /\ cur' = b
    /\ UNCHANGED <<active, undo, undoDisk, i, j, blockundo, clean, failed>>

ConnectTip(b) == b # Genesis /\ Parent[b] = active /\ Begin("connect", b)
TestBlockValidity(b) == b # Genesis /\ Parent[b] = active /\ Begin("check", b)
DisconnectTip == active # Genesis /\ Begin("disconnect", active)
VerifyDB == active # Genesis /\ Begin("verify", active)

Connecting == op \in {"connect", "check"}
Expected == IF Connecting THEN Parent[cur] ELSE cur

\* The view must stand for the block the operation starts from.
AssertBestBlock ==
    /\ pc = "best"
    /\ ViewBestBlock = Expected
    /\ GetBestBlock
    /\ IF Connecting THEN pc' = "overwrite" /\ i' = 1
       ELSE IF undo[cur] = NoUndo THEN pc' = "abandon" /\ i' = i
       ELSE pc' = "remove" /\ i' = Len(Vtx[cur])
    /\ UNCHANGED <<active, undo, undoDisk, op, cur, j, blockundo, clean, failed>>

\* The BIP30 loop: no transaction of the block may overwrite unspent coins.
CheckOverwrite ==
    /\ pc = "overwrite"
    /\ Access(tx)
    /\ IF ViewCoins(tx) # Pruned THEN pc' = "abandon" /\ UNCHANGED <<i, j>>
       ELSE IF i < Len(Vtx[cur]) THEN i' = i + 1 /\ UNCHANGED <<pc, j>>
       ELSE pc' = "inputs" /\ i' = 1 /\ j' = 1
    /\ UNCHANGED <<active, undo, undoDisk, op, cur, blockundo, clean, failed>>

\* HaveInputs and CheckInputs of the transaction at i, one input at a time. Then a
\* CTxUndo is pushed for it (for the coinbase a dummy, which stays empty).
CheckInputs ==
    /\ pc = "inputs"
    /\ \/ /\ j <= Len(Vin[tx])
          /\ Access(prevout[1])
          /\ IF prevout[2] \in ViewCoins(prevout[1]).outs THEN j' = j + 1 /\ pc' = pc
             ELSE pc' = "abandon" /\ j' = j
       \/ /\ j > Len(Vin[tx])
          /\ UNCHANGED cacheVars
          /\ pc' = "spend" /\ j' = 1
       \/ /\ cur \in Invalid
          /\ UNCHANGED cacheVars
          /\ pc' = "abandon" /\ j' = j
    /\ blockundo' = IF pc' = "spend" THEN Append(blockundo, << >>) ELSE blockundo
    /\ UNCHANGED <<active, undo, undoDisk, op, cur, i, clean, failed>>

\* UpdateCoins: spend every input of the transaction, which must be there, then
\* add its outputs.
SpendInput ==
    /\ pc = "spend" /\ j <= Len(Vin[tx])
    /\ prevout[2] \in ViewCoins(prevout[1]).outs
    /\ LET c == ViewCoins(prevout[1])
       IN  /\ Modify(prevout[1], Spend(c, prevout[2]))
           /\ blockundo' = [blockundo EXCEPT ![i] = Append(@, SpendUndo(c, prevout[2]))]
    /\ j' = j + 1
    /\ UNCHANGED <<active, undo, undoDisk, op, pc, cur, i, clean, failed>>

AddOutputs ==
    /\ pc = "spend" /\ j > Len(Vin[tx])
    /\ Modify(tx, FromTx(tx, Height[cur]))
    /\ IF i < Len(Vtx[cur]) THEN pc' = "inputs" /\ i' = i + 1 /\ j' = 1
       ELSE pc' = "finish" /\ UNCHANGED <<i, j>>
    /\ UNCHANGED <<active, undo, undoDisk, op, cur, blockundo, clean, failed>>

\* The end of ConnectBlock: undo data is written once, then the best block set.
FinishConnect ==
    /\ pc = "finish" /\ op = "connect" /\ cur \notin Invalid
    /\ undo' = [undo EXCEPT ![cur] = IF @ = NoUndo THEN blockundo ELSE @]
    /\ SetBestBlock(cur)
    /\ pc' = "flushview"
    /\ UNCHANGED <<active, undoDisk, jobVars, failed>>

\* An error return, the end of TestBlockValidity, or of VerifyDB.
Abandon ==
    /\ \/ pc = "abandon"
       \/ pc = "finish" /\ (op = "check" \/ cur \in Invalid)
       \/ pc = "moved" /\ op = "verify"
    /\ Discard
    /\ Idle
    /\ UNCHANGED <<active, undo, undoDisk, failed>>

\* DisconnectBlock: transactions in reverse order, outputs first.
RemoveOutputs ==
    /\ pc = "remove"
    /\ Modify(tx, Pruned)
    /\ clean' = (clean /\ ViewCoins(tx) = FromTx(tx, Height[cur]))
    /\ pc' = "restore" /\ j' = Len(Vin[tx])
    /\ UNCHANGED <<active, undo, undoDisk, op, cur, i, blockundo, failed>>

RestoreInput ==
    /\ pc = "restore" /\ j > 0
    /\ LET c == ViewCoins(prevout[1])
           u == undo[cur][i][j]
       IN  /\ Modify(prevout[1], Restore(c, u, prevout[2]))
           /\ clean' = (clean /\ RestoreClean(c, u, prevout[2]))
    /\ j' = j - 1
    /\ UNCHANGED <<active, undo, undoDisk, op, pc, cur, i, blockundo, failed>>

NextRemoved ==
    /\ pc = "restore" /\ j = 0 /\ i > 1
    /\ i' = i - 1 /\ pc' = "remove"
    /\ UNCHANGED <<cacheVars, active, undo, undoDisk, op, cur, j, blockundo, clean, failed>>

FinishDisconnectInPlace ==
    /\ pc = "restore" /\ j = 0 /\ i = 1
    /\ SetBestBlock(cur)
    /\ pc' = IF op = "verify" THEN "moved" ELSE IF clean THEN "flushview" ELSE "abandon"
    /\ UNCHANGED <<active, undo, undoDisk, jobVars, failed>>

FinishDisconnect ==
    /\ pc = "restore" /\ j = 0 /\ i = 1
    /\ SetBestBlock(Parent[cur])
    /\ pc' = IF op = "verify" THEN "moved" ELSE IF clean THEN "flushview" ELSE "abandon"
    /\ UNCHANGED <<active, undo, undoDisk, jobVars, failed>>

\* VerifyDB goes on to the previous block, in the same view.
VerifyNext ==
    /\ pc = "moved" /\ op = "verify" /\ Parent[cur] # Genesis
    /\ cur' = Parent[cur] /\ pc' = "best" /\ clean' = TRUE
    /\ UNCHANGED <<cacheVars, active, undo, undoDisk, op, i, j, blockundo, failed>>

FlushView ==
    /\ pc = "flushview"
    /\ Commit
    /\ pc' = "committed"
    /\ UNCHANGED <<active, undo, undoDisk, jobVars, failed>>

\* FlushStateToDisk: the undo files and the block index first. After a
\* disconnect always; after a connect, or between blocks, when it is due.
WriteIndex ==
    /\ \/ pc = "committed" /\ op' = op
       \/ pc = "idle" /\ op' = "flush"
    /\ undoDisk' = undo
    /\ pc' = "indexed"
    /\ UNCHANGED <<cacheVars, active, undo, cur, i, j, blockundo, clean, failed>>

\* ... and the coins last.
WriteCoins ==
    /\ pc = "indexed"
    /\ FlushTip
    /\ pc' = "flushed"
    /\ UNCHANGED <<active, undo, undoDisk, jobVars, failed>>

\* The write fails: the caller returns before UpdateTip, and the node is told
\* to shut down. Shutdown() calls FlushStateToDisk again.
WriteCoinsFails ==
    /\ pc = "indexed" /\ ~failed
    /\ FlushTipFails
    /\ failed' = TRUE
    /\ Idle
    /\ UNCHANGED <<active, undo, undoDisk>>

UpdateTip ==
    /\ pc = "flushed" \/ (pc = "committed" /\ op = "connect")
    /\ active' = CASE op = "connect" -> cur
                   [] op = "disconnect" -> Parent[cur]
                   [] OTHER -> active
    /\ Idle
    /\ UNCHANGED <<cacheVars, undo, undoDisk, failed>>

\* The memory pool or an RPC command reads coins of the tip.
ReadTip(t) ==
    /\ pc = "idle"
    /\ TipAccess(t)
    /\ UNCHANGED <<active, undo, undoDisk, pc, jobVars, failed>>

\* The process ends, at any step or at a failed assertion; LoadBlockIndexDB
\* takes the tip from the coins database.
Restart ==
    /\ Crash
    /\ active' = dbBest
    /\ undo' = undoDisk
    /\ Idle
    /\ UNCHANGED <<undoDisk, failed>>

Next ==
    \/ \E b \in Hashes : ConnectTip(b) \/ TestBlockValidity(b)
    \/ DisconnectTip \/ VerifyDB
    \/ AssertBestBlock \/ CheckOverwrite \/ CheckInputs \/ SpendInput \/ AddOutputs
    \/ FinishConnect \/ Abandon
    \/ RemoveOutputs \/ RestoreInput \/ NextRemoved \/ FinishDisconnect \/ VerifyNext
    \/ FlushView \/ WriteIndex \/ WriteCoins \/ WriteCoinsFails \/ UpdateTip
    \/ \E t \in TxIds : ReadTip(t)
    \/ Restart

Spec == Init /\ [][Next]_vars

-----------------------------------------------------------------------------
(* Properties. They speak of the time before a flush has failed. *)

\* assert(ret) in UpdateCoins: an input that was checked is there to be spent,
\* whatever the transactions before it in the block did to the same coins.
SpendAssertion ==
    ~failed /\ pc = "spend" /\ j <= Len(Vin[tx]) =>
        prevout[2] \in ViewCoins(prevout[1]).outs

\* coins.h: GetBestBlock is "the block hash whose state this CCoinsView currently
\* represents": through the caches, the tip shows the coins of that block, after
\* any sequence of connects, disconnects, abandoned views, flushes and crashes.
\* It fails where a coinstake's last output is spent and the spending block is
\* disconnected (run coins_stake_undo).
TipRepresentsBest ==
    ~failed => [t \in TxIds |-> TipCoins(t)] = Utxo[TipBestBlock]

\* The same of the database, at every moment: a crash finds whole blocks.
DiskRepresentsBest == ~failed => db = Utxo[dbBest]

\* Between operations the tip's coins are those of the active chain, so the
\* assertions on the best block in ConnectBlock and DisconnectBlock hold.
BestBlockAssertion ==
    /\ ~failed /\ pc = "idle" => TipBestBlock = active
    /\ ~failed /\ pc = "best" => ViewBestBlock = Expected

\* The assertions of UpdateCoins, ConnectBlock and DisconnectBlock hold.
AssertionsHold == TypeOK /\ SpendAssertion /\ BestBlockAssertion

\* Disconnecting finds the outputs it added and the undo data it needs, restores
\* inputs over nothing, and never calls the database corrupted: also after a crash
\* between the write of the index and that of the coins. A block is only turned
\* away because by the reference it overwrites unspent coins or an input is not there,
\* or a check that is not modelled fails.
DisconnectClean ==
    ~failed => clean /\ (pc = "abandon" => Connecting /\ (cur \in Invalid \/ ~Connectable(cur)))
=============================================================================
