------------------------------- MODULE Mempool -------------------------------
(***************************************************************************)
(* The memory pool (txmempool.cpp), the orphan transactions kept until     *)
(* their parents are known (main.cpp), and what connecting and             *)
(* disconnecting blocks does to both. Handlers that loop over transactions *)
(* take one step per transaction and hold cs_main meanwhile (job). Fees,   *)
(* scripts and standardness are a free choice: a transaction may fail any  *)
(* check that is not about the state modelled here. Zerocoin spends and    *)
(* the fee estimator are left out.                                         *)
(*                                                                         *)
(* Some definitions have a variant just before them that nothing uses      *)
(* (removeOnlyPresent before removeRecursive): the definition with a       *)
(* plausible programming error, kept to confirm that the properties notice *)
(* it.                                                                     *)
(***************************************************************************)
EXTENDS Integers, Sequences, FiniteSets, Functions

CONSTANTS
    Txs,            \* transaction hashes
    Vin,            \* Vin[t]: the outpoints <<hash, n>> that t spends, in order
    Vout,           \* Vout[t]: how many outputs t has
    Generated,      \* coinbase and coinstake transactions
    Blocks,         \* blocks that may arrive: sequences of transactions
    BaseChain,      \* the active chain at start-up, genesis first
    MaxHeight,      \* bound on the height of the active chain
    COINBASE_MATURITY,
    Peers,
    MaxOrphans,     \* -maxorphantx
    NoTx, NoPeer

VARIABLES
    chain,              \* blocks applied to pcoinsTip
    mapTx,              \* transactions in the pool
    mapNextTx,          \* the pool transaction that spends an outpoint
    mapLockedInputs,    \* the transaction an outpoint is locked for (swifttx.cpp)
    mapOrphans,         \* mapOrphanTransactions: the peer an orphan came from
    mapOrphansByPrev,   \* mapOrphanTransactionsByPrev: orphans that spend a transaction
    job,                \* the handler that holds cs_main
    mapRejectedBlocks,  \* blocks refused for a transaction lock, and how long ago
    failed              \* blocks marked invalid for a lock

poolVars == <<mapTx, mapNextTx>>
orphanVars == <<mapOrphans, mapOrphansByPrev>>
blockVars == <<mapRejectedBlocks, failed>>
memVars == <<chain, poolVars, mapLockedInputs, orphanVars, job, blockVars>>

Outputs(t) == {<<t, n>> : n \in 1..Vout[t]}
Outpoints == UNION {Outputs(t) : t \in Txs}
Inputs(t) == Range(Vin[t])

ASSUME TransactionAssumption ==
    /\ IsFiniteSet(Txs) /\ NoTx \notin Txs /\ NoPeer \notin Peers
    /\ Vout \in [Txs -> Nat] /\ Vin \in [Txs -> Seq(Outpoints)]
    /\ \A t \in Txs : \A o \in Inputs(t) : o[1] # t
    /\ Generated \subseteq Txs
    /\ \A t \in Txs \ Generated : Inputs(t) # {}
    /\ Blocks \subseteq Seq(Txs) /\ << >> \notin Blocks
    /\ COINBASE_MATURITY \in Nat /\ MaxOrphans \in Nat

TxsOf(c) == UNION {Range(c[h]) : h \in DOMAIN c}

\* Every transaction of the chain is in it once, spends outputs that the chain has
\* up to its block, and none that another one spends.
IsValidChain(c) ==
    /\ c \in Seq(Seq(Txs))
    /\ \A h \in DOMAIN c : IsInjective(c[h])
    /\ \A g, h \in DOMAIN c : g # h => Range(c[g]) \cap Range(c[h]) = {}
    /\ \A h \in DOMAIN c : \A t \in Range(c[h]) : \A o \in Inputs(t) :
            \E g \in 1..h : o[1] \in Range(c[g])
    /\ \A t, u \in TxsOf(c) : t # u => Inputs(t) \cap Inputs(u) = {}

ASSUME ChainAssumption == IsValidChain(BaseChain)

-----------------------------------------------------------------------------
(* The coins of the active chain, and CCoinsViewMemPool over them *)

Confirmed == TxsOf(chain)
TipHeight == Len(chain) - 1
Height(t) == (CHOOSE h \in DOMAIN chain : t \in Range(chain[h])) - 1

IsAvailable(o) == o[1] \in Confirmed /\ \A t \in Confirmed : o \notin Inputs(t)
HaveCoins(t) == t \in mapTx \/ \E o \in Outputs(t) : IsAvailable(o)
HaveInput(o) == o[1] \in mapTx \/ IsAvailable(o)

\* The coinbases and coinstakes that t spends may be spent at this height.
Mature(t, height) ==
    \A o \in Inputs(t) : o[1] \in Generated \cap Confirmed => height - Height(o[1]) >= COINBASE_MATURITY

-----------------------------------------------------------------------------
(* AcceptToMemoryPool *)

LockConflict(t) == \E o \in Inputs(t) : mapLockedInputs[o] \notin {NoTx, t}

PoolConflict(t) == \E o \in Inputs(t) : mapNextTx[o] # NoTx

\* refused before its inputs are looked up
Refused(t) ==
    t \in mapTx \/ t \in Generated \/ LockConflict(t) \/ PoolConflict(t) \/ HaveCoins(t)

Verdict(t) ==
    IF Refused(t) THEN "refused"
    ELSE IF \E o \in Inputs(t) : ~HaveCoins(o[1]) THEN "missing"
    ELSE IF (\E o \in Inputs(t) : ~HaveInput(o)) \/ ~Mature(t, TipHeight + 1) THEN "refused"
    ELSE "accepted"

\* What a call may answer: some other check may refuse any transaction.
Answers(t) == {Verdict(t), "refused"}

addUnchecked(t) ==
    /\ mapTx' = mapTx \cup {t}
    /\ mapNextTx' = [o \in Outpoints |-> IF o \in Inputs(t) THEN t ELSE mapNextTx[o]]

-----------------------------------------------------------------------------
(* Removal from the pool *)

\* Pool transactions that spend an output of t, as mapNextTx has them.
Spenders(t) == {mapNextTx[o] : o \in Outputs(t)} \ {NoTx}

\* The transactions of S and all that depend on them.
Descendants(S) ==
    {t \in mapTx : \A X \in SUBSET mapTx :
        S \subseteq X /\ (\A u \in X : Spenders(u) \subseteq X) => t \in X}

Erase(R) ==
    /\ mapTx' = mapTx \ R
    /\ mapNextTx' = [o \in Outpoints |-> IF \E t \in R : o \in Inputs(t) THEN NoTx ELSE mapNextTx[o]]

removeOnlyPresent(t) == Erase(Descendants({t} \cap mapTx))

\* remove(tx, removed, true): tx need not be in the pool for its spenders to go.
removeRecursive(t) == Erase(Descendants(IF t \in mapTx THEN {t} ELSE Spenders(t)))

\* Whether removeCoinbaseSpends drops t itself.
SpendsImmature(t) ==
    \E o \in Inputs(t) : o[1] \notin mapTx /\
        \/ ~\E p \in Outputs(o[1]) : IsAvailable(p)
        \/ o[1] \in Generated /\ TipHeight + 1 - Height(o[1]) < COINBASE_MATURITY

removeCoinbaseSpends == Erase(Descendants({t \in mapTx : SpendsImmature(t)}))

removeForBlockRecursive(t) ==
    Erase(Descendants(({t} \cap mapTx) \cup ({mapNextTx[o] : o \in Inputs(t)} \ {NoTx})))

\* One transaction of removeForBlock: it leaves the pool alone, what conflicts
\* with it leaves with its descendants.
removeForBlock(t) ==
    Erase(({t} \cap mapTx) \cup Descendants({mapNextTx[o] : o \in Inputs(t)} \ {NoTx, t}))

-----------------------------------------------------------------------------
(* Orphans *)

OrphanCount == Cardinality({t \in Txs : mapOrphans[t] # NoPeer})

\* EraseOrphanTx for each of E
EraseOrphans(E) ==
    /\ mapOrphans' = [t \in Txs |-> IF t \in E THEN NoPeer ELSE mapOrphans[t]]
    /\ mapOrphansByPrev' = [t \in Txs |-> mapOrphansByPrev[t] \ E]

AddOrphanUnlimited(t, p) ==
    /\ mapOrphans' = [mapOrphans EXCEPT ![t] = p]
    /\ mapOrphansByPrev' = [u \in Txs |-> IF \E o \in Inputs(t) : o[1] = u
                                          THEN mapOrphansByPrev[u] \cup {t} ELSE mapOrphansByPrev[u]]

\* AddOrphanTx, then LimitOrphanTxSize, which may evict the newcomer too.
AddOrphan(t, p) ==
    /\ mapOrphans[t] = NoPeer
    /\ \E E \in SUBSET Txs :
        LET with == [mapOrphans EXCEPT ![t] = p] IN
        /\ IF OrphanCount + 1 > MaxOrphans
           THEN \E v \in Txs : with[v] # NoPeer /\ E = {v}
           ELSE E = {}
        /\ mapOrphans' = [u \in Txs |-> IF u \in E THEN NoPeer ELSE with[u]]
        /\ mapOrphansByPrev' =
            [u \in Txs |-> (mapOrphansByPrev[u] \cup {c \in {t} : \E o \in Inputs(c) : o[1] = u}) \ E]

-----------------------------------------------------------------------------
(* Handlers *)

Idle == [op |-> "idle", rest |-> << >>, todo |-> {}, erase |-> {}, bad |-> {}]
Free == job.op = "idle"

MemInit ==
    /\ chain = BaseChain
    /\ mapTx = {}
    /\ mapNextTx = [o \in Outpoints |-> NoTx]
    /\ mapLockedInputs = [o \in Outpoints |-> NoTx]
    /\ mapOrphans = [t \in Txs |-> NoPeer]
    /\ mapOrphansByPrev = [t \in Txs |-> {}]
    /\ job = Idle
    /\ mapRejectedBlocks = [b \in {} |-> 0]
    /\ failed = {}

\* The "tx" message from peer p. A transaction that is accepted starts the work queue.
TxMessage(p, t) ==
    /\ Free
    /\ UNCHANGED <<chain, mapLockedInputs, blockVars>>
    /\ \/ /\ Verdict(t) = "accepted"
          /\ addUnchecked(t)
          /\ job' = [Idle EXCEPT !.op = "orphans", !.rest = <<t>>, !.todo = mapOrphansByPrev[t]]
          /\ UNCHANGED orphanVars
       \/ /\ Verdict(t) = "missing"
          /\ AddOrphan(t, p)
          /\ UNCHANGED <<poolVars, job>>

\* One orphan of the transaction at the head of the work queue.
ProcessOrphan(t) ==
    /\ job.op = "orphans" /\ t \in job.todo
    /\ UNCHANGED <<chain, mapLockedInputs, orphanVars, blockVars>>
    /\ LET done == [job EXCEPT !.todo = @ \ {t}] IN
       \/ /\ mapOrphans[t] \in job.bad
          /\ job' = done
          /\ UNCHANGED poolVars
       \/ /\ mapOrphans[t] \notin job.bad
          /\ \E answer \in Answers(t) :
             CASE answer = "accepted" ->
                    /\ addUnchecked(t)
                    /\ job' = [done EXCEPT !.rest = Append(@, t), !.erase = @ \cup {t}]
               [] answer = "missing" -> job' = done /\ UNCHANGED poolVars
               [] answer = "refused" ->
                    /\ UNCHANGED poolVars
                    /\ \E punish \in SUBSET {mapOrphans[t]} :
                        job' = [done EXCEPT !.erase = @ \cup {t}, !.bad = @ \cup punish]

NextWorkKeepsHead ==
    /\ job.op = "orphans" /\ job.todo = {}
    /\ UNCHANGED <<chain, poolVars, mapLockedInputs, blockVars>>
    /\ IF Len(job.rest) > 1
       THEN job' = [job EXCEPT !.todo = mapOrphansByPrev[job.rest[2]]] /\ UNCHANGED orphanVars
       ELSE job' = Idle /\ EraseOrphans(job.erase)

\* The next entry of the work queue, or the end of the handler.
NextWork ==
    /\ job.op = "orphans" /\ job.todo = {}
    /\ UNCHANGED <<chain, poolVars, mapLockedInputs, blockVars>>
    /\ IF Len(job.rest) > 1
       THEN /\ job' = [job EXCEPT !.rest = Tail(@), !.todo = mapOrphansByPrev[job.rest[2]]]
            /\ UNCHANGED orphanVars
       ELSE job' = Idle /\ EraseOrphans(job.erase)

\* A wallet or RPC transaction: no orphans are looked at.
LocalTx(t) ==
    /\ Free
    /\ Verdict(t) = "accepted"
    /\ addUnchecked(t)
    /\ UNCHANGED <<chain, mapLockedInputs, orphanVars, job, blockVars>>

\* FinalizeNode -> EraseOrphansFor
PeerGone(p) ==
    /\ Free
    /\ \E t \in Txs : mapOrphans[t] = p
    /\ EraseOrphans({t \in Txs : mapOrphans[t] = p})
    /\ UNCHANGED <<chain, poolVars, mapLockedInputs, job, blockVars>>

\* A block that failed TestBlockValidity in the miner empties the pool.
Clear ==
    /\ Free /\ mapTx # {}
    /\ mapTx' = {} /\ mapNextTx' = [o \in Outpoints |-> NoTx]
    /\ UNCHANGED <<chain, mapLockedInputs, orphanVars, job, blockVars>>

-----------------------------------------------------------------------------
(* Blocks *)

InChain(b) == \E h \in DOMAIN chain : chain[h] = b

\* CheckBlock's scan for transaction locks
BlockLockConflict(b) == \E k \in DOMAIN b : LockConflict(b[k])

\* The inputs of b are there in order, unspent and mature.
Connectable(b) ==
    \A k \in DOMAIN b :
        LET before == {b[l] : l \in 1..(k - 1)} IN
        /\ b[k] \notin Confirmed \cup before
        /\ \A o \in Inputs(b[k]) :
            /\ IsAvailable(o) \/ o[1] \in before
            /\ \A u \in before : o \notin Inputs(u)
            /\ o[1] \in Generated \cap Confirmed => TipHeight + 1 - Height(o[1]) >= COINBASE_MATURITY
            /\ o[1] \notin Generated \cap before

Reject(b) ==
    mapRejectedBlocks' = [c \in DOMAIN mapRejectedBlocks \cup {b} |->
        IF c \in DOMAIN mapRejectedBlocks THEN mapRejectedBlocks[c] ELSE 0]

\* ProcessNewBlock calls CheckBlock before it takes cs_main, for a block it may
\* have already. A block that fails for a lock is remembered and dropped.
RefuseBlock(b) ==
    /\ BlockLockConflict(b)
    /\ Reject(b)
    /\ UNCHANGED <<chain, poolVars, mapLockedInputs, orphanVars, job, failed>>

\* ConnectBlock checks a block again that was read from the disk: one that fails
\* then is marked invalid.
RefuseConnect(b) ==
    /\ Free /\ ~InChain(b) /\ b \notin failed
    /\ BlockLockConflict(b)
    /\ Reject(b)
    /\ failed' = failed \cup {b}
    /\ UNCHANGED <<chain, poolVars, mapLockedInputs, orphanVars, job>>

\* ConnectTip: the coins are in pcoinsTip, then removeForBlock runs. A lock does not
\* stop a block that was checked before it was made (fAlreadyChecked), and any
\* block may have been: nothing is locked at start-up.
ConnectTip(b) ==
    /\ Free /\ TipHeight < MaxHeight
    /\ b \notin failed /\ Connectable(b)
    /\ chain' = Append(chain, b)
    /\ job' = [Idle EXCEPT !.op = "connect", !.rest = b]
    /\ UNCHANGED <<poolVars, mapLockedInputs, orphanVars, blockVars>>

ConnectTx ==
    /\ job.op = "connect"
    /\ removeForBlock(Head(job.rest))
    /\ job' = IF Len(job.rest) = 1 THEN Idle ELSE [job EXCEPT !.rest = Tail(@)]
    /\ UNCHANGED <<chain, mapLockedInputs, orphanVars, blockVars>>

\* DisconnectTip: the coins are back in pcoinsTip, then the block's transactions
\* return to the pool, or what depends on them leaves it.
DisconnectTip ==
    /\ Free /\ Len(chain) > Len(BaseChain)
    /\ chain' = SubSeq(chain, 1, Len(chain) - 1)
    /\ job' = [Idle EXCEPT !.op = "disconnect", !.rest = chain[Len(chain)]]
    /\ UNCHANGED <<poolVars, mapLockedInputs, orphanVars, blockVars>>

DisconnectTx ==
    /\ job.op = "disconnect" /\ job.rest # << >>
    /\ job' = [job EXCEPT !.rest = Tail(@)]
    /\ LET t == Head(job.rest) IN
       \/ Verdict(t) = "accepted" /\ addUnchecked(t)
       \/ removeRecursive(t)
    /\ UNCHANGED <<chain, mapLockedInputs, orphanVars, blockVars>>

DisconnectDone ==
    /\ job.op = "disconnect" /\ job.rest = << >>
    /\ removeCoinbaseSpends
    /\ job' = Idle
    /\ UNCHANGED <<chain, mapLockedInputs, orphanVars, blockVars>>

\* the next step of the handler that holds cs_main
Handler ==
    \/ \E t \in Txs : ProcessOrphan(t)
    \/ NextWork
    \/ ConnectTx
    \/ DisconnectTx
    \/ DisconnectDone

MemNext ==
    \/ Handler
    \/ \E p \in Peers, t \in Txs : TxMessage(p, t)
    \/ \E t \in Txs : LocalTx(t)
    \/ \E p \in Peers : PeerGone(p)
    \/ Clear
    \/ \E b \in Blocks : RefuseBlock(b) \/ RefuseConnect(b) \/ ConnectTip(b)
    \/ DisconnectTip

-----------------------------------------------------------------------------
(* Properties *)

Job == [op : {"idle", "orphans", "connect", "disconnect"}, rest : Seq(Txs),
        todo : SUBSET Txs, erase : SUBSET Txs, bad : SUBSET Peers]

MemTypeOK ==
    /\ chain \in Seq(Seq(Txs))
    /\ mapTx \subseteq Txs \ Generated
    /\ mapNextTx \in [Outpoints -> Txs \cup {NoTx}]
    /\ mapLockedInputs \in [Outpoints -> Txs \cup {NoTx}]
    /\ mapOrphans \in [Txs -> Peers \cup {NoPeer}]
    /\ mapOrphansByPrev \in [Txs -> SUBSET Txs]
    /\ job \in Job
    /\ failed \subseteq DOMAIN mapRejectedBlocks

\* CTxMemPool::check, second loop: mapNextTx is exactly the inputs of the pool's
\* transactions, so that no two of them spend the same output.
NextTxExact ==
    \A o \in Outpoints, t \in Txs : mapNextTx[o] = t <=> t \in mapTx /\ o \in Inputs(t)

\* CTxMemPool::check, first loop: whenever no block is being connected or
\* disconnected, every input of a pool transaction is an output of another pool
\* transaction or unspent in the active chain, through any reorganisation. It holds
\* already when removeCoinbaseSpends starts, which asserts it under -checkmempool.
PoolInputsAvailable ==
    job.op \in {"idle", "orphans"} \/ (job.op = "disconnect" /\ job.rest = << >>)
        => \A t \in mapTx : \A o \in Inputs(t) : HaveInput(o)

SpendsMature(t) ==
    \A o \in Inputs(t) :
        o[1] \in Generated \cap Confirmed => Height(o[1]) + COINBASE_MATURITY <= TipHeight + 1

\* CheckInputs in CTxMemPool::check: every pool transaction could be in the next
\* block as far as the maturity of the coinbases it spends goes.
PoolMature == job.op \in {"idle", "orphans"} => \A t \in mapTx : SpendsMature(t)

\* What CTxMemPool::check asserts of the pool, through any reorganisation.
PoolConsistent == NextTxExact /\ PoolInputsAvailable /\ PoolMature

\* The orphan index lists every orphan under each of its parents and nothing
\* else, whatever was evicted, resolved or dropped with its peer.
OrphanIndexExact ==
    \A t, u \in Txs : u \in mapOrphansByPrev[t] <=>
        mapOrphans[u] # NoPeer /\ \E o \in Inputs(u) : o[1] = t

\* -maxorphantx bounds the orphans at every step.
OrphansBounded == OrphanCount <= MaxOrphans

\* Orphans are found again by their parents, and there are never too many, although
\* the one just added may be the one that is evicted.
OrphansConsistent == OrphanIndexExact /\ OrphansBounded

\* While blocks are connected and disconnected, a transaction leaves the pool only
\* because it was confirmed or could no longer be confirmed: an input is gone or
\* immature. (Outside of that, only the miner's clear removes anything.)
NoNeedlessRemoval ==
    [][~Free => \A t \in mapTx \ mapTx' :
        \/ t \in Confirmed' \/ ~SpendsMature(t)'
        \/ \E o \in Inputs(t) : ~HaveInput(o)']_memVars
=============================================================================
