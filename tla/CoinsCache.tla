----------------------------- MODULE CoinsCache -----------------------------
(***************************************************************************)
(* The stack of coins views (coins.cpp, txdb.cpp): the chainstate database *)
(* (db), pcoinsTip above it (tip), and the view a block is connected or    *)
(* disconnected in (view). Each cache holds entries with the flags DIRTY   *)
(* (differs from the view below) and FRESH (the view below has nothing).   *)
(* The flags let a cache drop coins instead of writing them: a flag that   *)
(* is wrong loses or resurrects an output, and nothing notices until the   *)
(* output is spent. All operations run under cs_main.                      *)
(*                                                                         *)
(* Some definitions have a variant just before them that nothing uses      *)
(* (MergedDropsPruned before Merged): the definition with a plausible      *)
(* programming error, kept to confirm that the properties notice it.       *)
(***************************************************************************)
CONSTANTS
    TxIds,      \* transaction ids
    Values,     \* unspent coins of a transaction, at least one output left
    Pruned,     \* CCoins with no output left; also "no such entry" in db
    NoEntry,    \* a txid a cache has no entry for
    Hashes,     \* block hashes
    NoHash      \* uint256(0)

VARIABLES
    db,         \* CCoinsViewDB: coins by txid
    dbBest,     \* its best block, key 'B'
    tip,        \* pcoinsTip->cacheCoins
    tipBest,    \* pcoinsTip->hashBlock
    view,       \* cacheCoins of the view above pcoinsTip
    viewBest,   \* its hashBlock
    open        \* that view exists

dbVars == <<db, dbBest>>
tipVars == <<tip, tipBest>>
viewVars == <<view, viewBest, open>>
cacheVars == <<db, dbBest, tip, tipBest, view, viewBest, open>>

Coins == Values \cup {Pruned}
Entry == [coins : Coins, dirty : BOOLEAN, fresh : BOOLEAN]
Cache == [TxIds -> Entry \cup {NoEntry}]
EmptyCache == [t \in TxIds |-> NoEntry]

ASSUME PrunedAssumption == Pruned \notin Values
ASSUME NoEntryAssumption == NoEntry \notin Entry
ASSUME NoHashAssumption == NoHash \notin Hashes

CacheTypeOK ==
    /\ db \in [TxIds -> Coins]
    /\ dbBest \in Hashes
    /\ tip \in Cache
    /\ tipBest \in Hashes \cup {NoHash}
    /\ view \in Cache
    /\ viewBest \in Hashes \cup {NoHash}
    /\ open \in BOOLEAN

-----------------------------------------------------------------------------
(* What reading through the stack answers *)

TipCoins(t) == IF tip[t] # NoEntry THEN tip[t].coins ELSE db[t]
ViewCoins(t) == IF view[t] # NoEntry THEN view[t].coins ELSE TipCoins(t)
TipBestBlock == IF tipBest # NoHash THEN tipBest ELSE dbBest
ViewBestBlock == IF viewBest # NoHash THEN viewBest ELSE TipBestBlock

\* pcoinsTip after FetchCoins(t). The database never holds a pruned entry, so
\* an entry fetched from it is neither DIRTY nor FRESH.
TipFetched(t) ==
    IF tip[t] # NoEntry \/ db[t] = Pruned THEN tip
    ELSE [tip EXCEPT ![t] = [coins |-> db[t], dirty |-> FALSE, fresh |-> FALSE]]

-----------------------------------------------------------------------------
(* Operations *)

CacheInit ==
    /\ db \in [TxIds -> Coins]
    /\ dbBest \in Hashes
    /\ tip = EmptyCache /\ tipBest = NoHash
    /\ view = EmptyCache /\ viewBest = NoHash
    /\ open = FALSE

\* FetchCoins on pcoinsTip: GetCoins, AccessCoins, HaveCoins by the memory pool
\* or an RPC command.
TipAccess(t) ==
    /\ ~open
    /\ tip' = TipFetched(t)
    /\ UNCHANGED <<dbVars, tipBest, viewVars>>

\* CCoinsViewCache view(pcoinsTip).
OpenView ==
    /\ ~open
    /\ open' = TRUE
    /\ UNCHANGED <<dbVars, tipVars, view, viewBest>>

\* GetBestBlock on the view: both caches keep the answer of the one below.
GetBestBlock ==
    /\ open
    /\ tipBest' = IF viewBest # NoHash THEN tipBest ELSE TipBestBlock
    /\ viewBest' = ViewBestBlock
    /\ UNCHANGED <<dbVars, tip, view, open>>

SetBestBlock(h) ==
    /\ open
    /\ viewBest' = h
    /\ UNCHANGED <<dbVars, tipVars, view, open>>

\* FetchCoins on the view: the tip is asked, and fetches from the database; a
\* pruned answer is kept as FRESH.
ViewFetched(t) ==
    IF view[t] # NoEntry \/ TipFetched(t)[t] = NoEntry THEN view
    ELSE [view EXCEPT ![t] = [coins |-> TipCoins(t), dirty |-> FALSE,
                              fresh |-> TipCoins(t) = Pruned]]

Access(t) ==
    /\ open
    /\ tip' = IF view[t] # NoEntry THEN tip ELSE TipFetched(t)
    /\ view' = ViewFetched(t)
    /\ UNCHANGED <<dbVars, tipBest, viewBest, open>>

ModifiableAlwaysFresh(t) ==
    IF view[t] # NoEntry THEN [view[t] EXCEPT !.dirty = TRUE]
    ELSE [coins |-> TipCoins(t), dirty |-> TRUE, fresh |-> TRUE]

ModifiableNeverFresh(t) ==
    IF view[t] # NoEntry THEN [view[t] EXCEPT !.dirty = TRUE]
    ELSE [coins |-> TipCoins(t), dirty |-> TRUE, fresh |-> FALSE]

\* The entry ModifyCoins hands out: FRESH if the tip has nothing or a pruned
\* entry, and always DIRTY.
Modifiable(t) ==
    IF view[t] # NoEntry THEN [view[t] EXCEPT !.dirty = TRUE]
    ELSE [coins |-> TipCoins(t), dirty |-> TRUE, fresh |-> TipCoins(t) = Pruned]

\* ModifyCoins(t), the caller's change to c, and the modifier's destructor,
\* which drops the entry if nothing of it has to reach the tip.
Modify(t, c) ==
    /\ open
    /\ tip' = IF view[t] # NoEntry THEN tip ELSE TipFetched(t)
    /\ view' = [view EXCEPT ![t] =
                    IF Modifiable(t).fresh /\ c = Pruned THEN NoEntry
                    ELSE [Modifiable(t) EXCEPT !.coins = c]]
    /\ UNCHANGED <<dbVars, tipBest, viewBest, open>>

MergedDropsPruned(t) ==
    IF view[t] = NoEntry \/ ~view[t].dirty THEN tip[t]
    ELSE IF view[t].coins = Pruned THEN NoEntry
    ELSE [coins |-> view[t].coins, dirty |-> TRUE,
          fresh |-> tip[t] = NoEntry \/ tip[t].fresh]

MergedTakesFlags(t) ==
    IF view[t] = NoEntry \/ ~view[t].dirty THEN tip[t]
    ELSE IF view[t].coins = Pruned /\ (tip[t] = NoEntry \/ tip[t].fresh) THEN NoEntry
    ELSE [coins |-> view[t].coins, dirty |-> TRUE, fresh |-> view[t].fresh]

\* One entry of CCoinsViewCache::BatchWrite of the view into the tip.
Merged(t) ==
    IF view[t] = NoEntry \/ ~view[t].dirty THEN tip[t]
    ELSE IF tip[t] = NoEntry
    THEN IF view[t].coins = Pruned THEN NoEntry
         ELSE [coins |-> view[t].coins, dirty |-> TRUE, fresh |-> TRUE]
    ELSE IF tip[t].fresh /\ view[t].coins = Pruned THEN NoEntry
    ELSE [coins |-> view[t].coins, dirty |-> TRUE, fresh |-> tip[t].fresh]

\* view.Flush(): every caller has asked the view for its best block before.
Commit ==
    /\ open
    /\ viewBest # NoHash
    /\ tip' = [t \in TxIds |-> Merged(t)]
    /\ tipBest' = viewBest
    /\ view' = EmptyCache /\ viewBest' = NoHash
    /\ open' = FALSE
    /\ UNCHANGED dbVars

\* The view goes out of scope without a Flush.
Discard ==
    /\ open
    /\ view' = EmptyCache /\ viewBest' = NoHash
    /\ open' = FALSE
    /\ UNCHANGED <<dbVars, tipVars>>

WrittenKeepsPruned(t) ==
    IF tip[t] # NoEntry /\ tip[t].dirty /\ tip[t].coins # Pruned THEN tip[t].coins ELSE db[t]

\* The database after BatchWriteCoins of every DIRTY entry of the tip.
Written(t) == IF tip[t] # NoEntry /\ tip[t].dirty THEN tip[t].coins ELSE db[t]

\* pcoinsTip->Flush() in FlushStateToDisk: one LevelDB batch.
FlushTip ==
    /\ ~open
    /\ db' = [t \in TxIds |-> Written(t)]
    /\ dbBest' = IF tipBest # NoHash THEN tipBest ELSE dbBest
    /\ tip' = EmptyCache
    /\ UNCHANGED <<tipBest, viewVars>>

\* The same with WriteBatch failing: by then BatchWrite has erased the entries.
FlushTipFails ==
    /\ ~open
    /\ tip' = EmptyCache
    /\ UNCHANGED <<dbVars, tipBest, viewVars>>

\* The process ends, and AppInit2 builds a new stack on the database.
Crash ==
    /\ tip' = EmptyCache /\ tipBest' = NoHash
    /\ view' = EmptyCache /\ viewBest' = NoHash
    /\ open' = FALSE
    /\ UNCHANGED dbVars

CacheNext ==
    \/ OpenView \/ GetBestBlock \/ Commit \/ Discard
    \/ FlushTip \/ FlushTipFails \/ Crash
    \/ \E t \in TxIds : TipAccess(t) \/ Access(t)
    \/ \E t \in TxIds, c \in Coins : Modify(t, c)
    \/ \E h \in Hashes : SetBestBlock(h)

CacheSpec == CacheInit /\ [][CacheNext]_cacheVars

-----------------------------------------------------------------------------
(* Properties *)

\* What coins.h says of the flags: an entry that is not DIRTY equals what the
\* view below answers, and below a FRESH entry there is nothing to spend.
FlagsSound ==
    \A t \in TxIds :
        /\ tip[t] # NoEntry =>
              /\ ~tip[t].dirty => tip[t].coins = db[t]
              /\ tip[t].fresh => db[t] = Pruned
        /\ view[t] # NoEntry =>
              /\ ~view[t].dirty => view[t].coins = TipCoins(t)
              /\ view[t].fresh => TipCoins(t) = Pruned

\* The assertion in BatchWrite: coins the tip has no entry for come from a view
\* that marked them FRESH, because the tip would have fetched them.
BatchWriteAssertion ==
    \A t \in TxIds :
        view[t] # NoEntry /\ tip[t] = NoEntry => view[t].fresh

CacheClosed == ~open => view = EmptyCache /\ viewBest = NoHash

\* Reading through the stack is reading one table: the views implement Coins.
Table == INSTANCE Coins WITH
    working <- [t \in TxIds |-> ViewCoins(t)], workingBest <- ViewBestBlock,
    committed <- [t \in TxIds |-> TipCoins(t)], committedBest <- TipBestBlock,
    disk <- db, diskBest <- dbBest

ImplementsCoins == Table!Spec
=============================================================================
