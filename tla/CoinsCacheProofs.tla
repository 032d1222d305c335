--------------------------- MODULE CoinsCacheProofs ---------------------------
(***************************************************************************)
(* Proofs about CoinsCache, for every set of transactions, coins and block *)
(* hashes: the flags are sound, the assertion of BatchWrite cannot fail,   *)
(* and the stack of views implements the single table of Coins. The        *)
(* argument is entry by entry: every operation changes the entries of one  *)
(* transaction, or all of them by the same rule.                           *)
(***************************************************************************)
EXTENDS CoinsCache, TLAPS

\* The inductive invariant.
CacheInv ==
    /\ CacheTypeOK
    /\ FlagsSound
    /\ BatchWriteAssertion
    /\ CacheClosed

USE PrunedAssumption, NoEntryAssumption, NoHashAssumption

\* An entry is a record of coins and two flags, and is never NoEntry.
LEMMA EntryShape ==
    ASSUME NEW c \in Coins, NEW d \in BOOLEAN, NEW f \in BOOLEAN
    PROVE  /\ [coins |-> c, dirty |-> d, fresh |-> f] \in Entry
           /\ [coins |-> c, dirty |-> d, fresh |-> f] # NoEntry
  BY DEF Entry

\* FetchCoins on the tip: the cache stays a cache, its flags stay sound, it
\* answers as before and it only gains entries.
LEMMA TipFetchedFacts ==
    ASSUME CacheInv, NEW t \in TxIds
    PROVE  /\ TipFetched(t) \in Cache
           /\ \A u \in TxIds : tip[u] # NoEntry => TipFetched(t)[u] = tip[u]
           /\ \A u \in TxIds : tip[u] = NoEntry /\ TipFetched(t)[u] # NoEntry =>
                  TipFetched(t)[u] = [coins |-> db[u], dirty |-> FALSE, fresh |-> FALSE]
           /\ TipFetched(t)[t] = NoEntry => db[t] = Pruned
<1>1. \A u \in TxIds : db[u] \in Coins
  BY DEF CacheInv, CacheTypeOK
<1>2. [coins |-> db[t], dirty |-> FALSE, fresh |-> FALSE] \in Entry
  BY <1>1 DEF Entry
<1>3. tip \in Cache
  BY DEF CacheInv, CacheTypeOK
<1> QED
  BY <1>1, <1>2, <1>3 DEF TipFetched, Cache

\* What every cached entry and every answer is.
LEMMA Shapes ==
    ASSUME CacheInv, NEW u \in TxIds
    PROVE  /\ db[u] \in Coins
           /\ tip[u] # NoEntry => tip[u] \in Entry
           /\ view[u] # NoEntry => view[u] \in Entry
           /\ TipCoins(u) \in Coins
           /\ ViewCoins(u) \in Coins
  BY DEF CacheInv, CacheTypeOK, Cache, Entry, TipCoins, ViewCoins

\* The initial states satisfy the invariant: the caches are empty.
LEMMA CacheInvInit == CacheInit => CacheInv
  BY DEF CacheInit, CacheInv, CacheTypeOK, FlagsSound, BatchWriteAssertion,
         CacheClosed, EmptyCache, Cache, TipCoins

\* A fetch of t into the tip leaves what the tip answers, and its flags.
LEMMA TipFetchedSound ==
    ASSUME CacheInv, NEW t \in TxIds, tip' = TipFetched(t), UNCHANGED db
    PROVE  \A u \in TxIds :
              /\ TipCoins(u)' = TipCoins(u)
              /\ tip'[u] # NoEntry =>
                    /\ ~tip'[u].dirty => tip'[u].coins = db'[u]
                    /\ tip'[u].fresh => db'[u] = Pruned
<1> SUFFICES ASSUME NEW u \in TxIds
             PROVE  /\ TipCoins(u)' = TipCoins(u)
                    /\ tip'[u] # NoEntry =>
                          /\ ~tip'[u].dirty => tip'[u].coins = db'[u]
                          /\ tip'[u].fresh => db'[u] = Pruned
  OBVIOUS
<1>1. /\ tip[u] # NoEntry => tip'[u] = tip[u]
      /\ tip[u] = NoEntry /\ tip'[u] # NoEntry =>
            tip'[u] = [coins |-> db[u], dirty |-> FALSE, fresh |-> FALSE]
  BY TipFetchedFacts
<1>2. /\ tip[u] # NoEntry /\ ~tip[u].dirty => tip[u].coins = db[u]
      /\ tip[u] # NoEntry /\ tip[u].fresh => db[u] = Pruned
  BY DEF CacheInv, FlagsSound
<1> QED
  BY <1>1, <1>2 DEF TipCoins

\* The entry a view gets when it fetches t, or hands t out to be modified.
LEMMA FetchStep ==
    ASSUME CacheInv, NEW t \in TxIds, Access(t)
    PROVE  CacheInv'
<1>1. CASE view[t] # NoEntry
  BY <1>1 DEF Access, ViewFetched, CacheInv, CacheTypeOK, FlagsSound,
              BatchWriteAssertion, CacheClosed, TipCoins, dbVars
<1>2. CASE view[t] = NoEntry
  <2>1. tip' = TipFetched(t) /\ UNCHANGED <<db, dbBest, tipBest, viewBest, open>> /\ open
    BY <1>2 DEF Access, dbVars
  <2>2. view' = ViewFetched(t)
    BY DEF Access
  <2>3. \A u \in TxIds : TipCoins(u)' = TipCoins(u)
    BY <2>1, TipFetchedSound
  <2>4. TipCoins(t) \in Coins
    BY Shapes
  <2>5. view' \in Cache
    BY <2>2, <2>4 DEF ViewFetched, Cache, CacheInv, CacheTypeOK, Entry
  <2>6. CacheTypeOK'
    BY <2>1, <2>5, TipFetchedFacts DEF CacheInv, CacheTypeOK
  <2>7. view \in Cache
    BY DEF CacheInv, CacheTypeOK
  <2>8. \A u \in TxIds : u # t => view'[u] = view[u]
    BY <2>2, <2>7 DEF ViewFetched, Cache
  <2>9. view'[t] # NoEntry => /\ view'[t].coins = TipCoins(t)
                              /\ view'[t].fresh => TipCoins(t) = Pruned
                              /\ tip'[t] # NoEntry
    <3> DEFINE e == [coins |-> TipCoins(t), dirty |-> FALSE, fresh |-> TipCoins(t) = Pruned]
    <3>1. view'[t] # NoEntry => view'[t] = e /\ tip'[t] # NoEntry
      BY <1>2, <2>1, <2>2, <2>7 DEF ViewFetched, Cache
    <3>2. e.coins = TipCoins(t) /\ (e.fresh => TipCoins(t) = Pruned)
      OBVIOUS
    <3> HIDE DEF e
    <3> QED
      BY <3>1, <3>2
  <2>10. FlagsSound'
    <3> SUFFICES ASSUME NEW u \in TxIds
                 PROVE  /\ tip'[u] # NoEntry =>
                              /\ ~tip'[u].dirty => tip'[u].coins = db'[u]
                              /\ tip'[u].fresh => db'[u] = Pruned
                        /\ view'[u] # NoEntry =>
                              /\ ~view'[u].dirty => view'[u].coins = TipCoins(u)'
                              /\ view'[u].fresh => TipCoins(u)' = Pruned
      BY DEF FlagsSound, TipCoins
    <3>1. view'[u] # NoEntry =>
             /\ ~view'[u].dirty => view'[u].coins = TipCoins(u)
             /\ view'[u].fresh => TipCoins(u) = Pruned
      <4>1. CASE u = t
        BY <4>1, <2>9 DEF TipCoins
      <4>2. CASE u # t
        BY <4>2, <2>8 DEF CacheInv, FlagsSound
      <4> QED
        BY <4>1, <4>2
    <3> QED
      BY <3>1, <2>1, <2>3, TipFetchedSound
  <2>11. BatchWriteAssertion'
    BY <2>1, <2>8, <2>9, TipFetchedFacts DEF CacheInv, BatchWriteAssertion
  <2> QED
    BY <2>1, <2>6, <2>10, <2>11 DEF CacheInv, CacheClosed
<1> QED
  BY <1>1, <1>2

\* The entry ModifyCoins hands out is DIRTY, and FRESH only above nothing.
LEMMA ModifiableFacts ==
    ASSUME CacheInv, NEW t \in TxIds
    PROVE  /\ Modifiable(t) \in Entry
           /\ Modifiable(t).dirty
           /\ Modifiable(t).fresh => TipCoins(t) = Pruned
           /\ view[t] = NoEntry /\ TipCoins(t) = Pruned => Modifiable(t).fresh
           /\ view[t] # NoEntry => Modifiable(t).fresh = view[t].fresh
<1>1. TipCoins(t) \in Coins /\ (view[t] # NoEntry => view[t] \in Entry)
  BY Shapes
<1>2. CASE view[t] # NoEntry
  <2>1. Modifiable(t) = [view[t] EXCEPT !.dirty = TRUE]
    BY <1>2 DEF Modifiable
  <2>2. view[t].fresh => TipCoins(t) = Pruned
    BY <1>2 DEF CacheInv, FlagsSound
  <2> QED
    BY <1>1, <1>2, <2>1, <2>2 DEF Entry
<1>3. CASE view[t] = NoEntry
  <2> DEFINE e == [coins |-> TipCoins(t), dirty |-> TRUE, fresh |-> TipCoins(t) = Pruned]
  <2>1. Modifiable(t) = e
    BY <1>3 DEF Modifiable
  <2>2. e \in Entry /\ e.dirty /\ (e.fresh <=> TipCoins(t) = Pruned)
    BY <1>1 DEF Entry
  <2> HIDE DEF e
  <2> QED
    BY <1>3, <2>1, <2>2
<1> QED
  BY <1>2, <1>3

\* ModifyCoins and the modifier's destructor.
LEMMA ModifyStep ==
    ASSUME CacheInv, NEW t \in TxIds, NEW c \in Coins, Modify(t, c)
    PROVE  CacheInv'
<1> DEFINE e == [Modifiable(t) EXCEPT !.coins = c]
<1>1. e \in Entry /\ e # NoEntry /\ e.dirty /\ e.coins = c /\ e.fresh = Modifiable(t).fresh
  BY ModifiableFacts DEF Entry
<1>2. view' = [view EXCEPT ![t] = IF Modifiable(t).fresh /\ c = Pruned THEN NoEntry ELSE e]
  BY DEF Modify
<1> HIDE DEF e
<1>3. /\ open /\ UNCHANGED <<db, dbBest, tipBest, viewBest, open>>
      /\ view[t] # NoEntry => tip' = tip
      /\ view[t] = NoEntry => tip' = TipFetched(t)
  BY DEF Modify, dbVars
<1>4. view \in Cache /\ tip \in Cache
  BY DEF CacheInv, CacheTypeOK
<1>5. /\ \A u \in TxIds : u # t => view'[u] = view[u]
      /\ view'[t] = IF Modifiable(t).fresh /\ c = Pruned THEN NoEntry ELSE e
      /\ view' \in Cache
  BY <1>1, <1>2, <1>4 DEF Cache
<1>6. \A u \in TxIds :
         /\ TipCoins(u)' = TipCoins(u)
         /\ tip'[u] # NoEntry =>
               /\ ~tip'[u].dirty => tip'[u].coins = db'[u]
               /\ tip'[u].fresh => db'[u] = Pruned
         /\ tip[u] # NoEntry => tip'[u] = tip[u]
  <2>1. CASE view[t] # NoEntry
    BY <1>3, <2>1 DEF CacheInv, FlagsSound, TipCoins
  <2>2. CASE view[t] = NoEntry
    BY <1>3, <2>2, TipFetchedSound, TipFetchedFacts
  <2> QED
    BY <2>1, <2>2
<1>7. tip' \in Cache
  BY <1>3, <1>4, TipFetchedFacts
<1>8. CacheTypeOK'
  BY <1>3, <1>5, <1>7 DEF CacheInv, CacheTypeOK
<1>9. FlagsSound'
  <2> SUFFICES ASSUME NEW u \in TxIds, view'[u] # NoEntry
               PROVE  /\ ~view'[u].dirty => view'[u].coins = TipCoins(u)
                      /\ view'[u].fresh => TipCoins(u) = Pruned
    BY <1>6 DEF FlagsSound, TipCoins
  <2>1. CASE u = t
    BY <1>1, <1>5, <2>1, ModifiableFacts
  <2>2. CASE u # t
    BY <1>5, <2>2 DEF CacheInv, FlagsSound
  <2> QED
    BY <2>1, <2>2
<1>10. BatchWriteAssertion'
  <2> SUFFICES ASSUME NEW u \in TxIds, view'[u] # NoEntry, tip'[u] = NoEntry
               PROVE  view'[u].fresh
    BY DEF BatchWriteAssertion
  <2>1. tip[u] = NoEntry
    BY <1>6
  <2>2. CASE u # t
    BY <1>5, <2>1, <2>2 DEF CacheInv, BatchWriteAssertion
  <2>3. CASE u = t /\ view[t] # NoEntry
    BY <1>1, <1>5, <2>1, <2>3, ModifiableFacts DEF CacheInv, BatchWriteAssertion
  <2>4. CASE u = t /\ view[t] = NoEntry
    <3>1. TipCoins(t) = Pruned
      BY <1>3, <2>1, <2>4, TipFetchedFacts DEF TipCoins
    <3> QED
      BY <1>1, <1>5, <2>4, <3>1, ModifiableFacts
  <2> QED
    BY <2>2, <2>3, <2>4
<1> QED
  BY <1>3, <1>8, <1>9, <1>10 DEF CacheInv, CacheClosed

\* What BatchWrite makes of one entry of the tip.
LEMMA MergedFacts ==
    ASSUME CacheInv, NEW t \in TxIds
    PROVE  /\ Merged(t) \in Entry \cup {NoEntry}
           /\ Merged(t) # NoEntry => Merged(t).coins = ViewCoins(t)
           /\ Merged(t) = NoEntry => db[t] = ViewCoins(t)
           /\ Merged(t) # NoEntry /\ ~Merged(t).dirty => Merged(t).coins = db[t]
           /\ Merged(t) # NoEntry /\ Merged(t).fresh => db[t] = Pruned
<1>1. /\ tip[t] # NoEntry => tip[t] \in Entry
      /\ view[t] # NoEntry => view[t] \in Entry
  BY Shapes
<1>2. /\ tip[t] # NoEntry =>
            /\ ~tip[t].dirty => tip[t].coins = db[t]
            /\ tip[t].fresh => db[t] = Pruned
      /\ view[t] # NoEntry =>
            /\ ~view[t].dirty => view[t].coins = TipCoins(t)
            /\ view[t].fresh => TipCoins(t) = Pruned
      /\ view[t] # NoEntry /\ tip[t] = NoEntry => view[t].fresh
  BY DEF CacheInv, FlagsSound, BatchWriteAssertion
<1>3. CASE view[t] = NoEntry \/ ~view[t].dirty
  BY <1>1, <1>2, <1>3 DEF Merged, ViewCoins, TipCoins
<1>4. CASE ~(view[t] = NoEntry \/ ~view[t].dirty) /\ tip[t] = NoEntry
  <2>1. CASE view[t].coins = Pruned
    BY <1>1, <1>2, <1>4, <2>1 DEF Merged, ViewCoins, TipCoins
  <2>2. CASE view[t].coins # Pruned
    <3> DEFINE e == [coins |-> view[t].coins, dirty |-> TRUE, fresh |-> TRUE]
    <3>1. Merged(t) = e
      BY <1>4, <2>2 DEF Merged
    <3>2. e.coins = view[t].coins /\ e.dirty
      OBVIOUS
    <3>3. view[t].coins \in Coins
      BY <1>1, <1>4 DEF Entry
    <3>4. e \in Entry /\ e # NoEntry
      BY <3>3, EntryShape
    <3> HIDE DEF e
    <3> QED
      BY <1>2, <1>4, <3>1, <3>2, <3>4 DEF ViewCoins, TipCoins
  <2> QED
    BY <2>1, <2>2
<1>5. CASE ~(view[t] = NoEntry \/ ~view[t].dirty) /\ tip[t] # NoEntry
  <2>1. CASE tip[t].fresh /\ view[t].coins = Pruned
    BY <1>2, <1>5, <2>1 DEF Merged, ViewCoins
  <2>2. CASE ~(tip[t].fresh /\ view[t].coins = Pruned)
    <3> DEFINE e == [coins |-> view[t].coins, dirty |-> TRUE, fresh |-> tip[t].fresh]
    <3>1. Merged(t) = e
      BY <1>5, <2>2 DEF Merged
    <3>2. e.coins = view[t].coins /\ e.dirty /\ e.fresh = tip[t].fresh
      OBVIOUS
    <3>3. view[t].coins \in Coins /\ tip[t].fresh \in BOOLEAN
      BY <1>1, <1>5 DEF Entry
    <3>4. e \in Entry /\ e # NoEntry
      BY <3>3, EntryShape
    <3> HIDE DEF e
    <3> QED
      BY <1>2, <1>5, <3>1, <3>2, <3>4 DEF ViewCoins
  <2> QED
    BY <2>1, <2>2
<1> QED
  BY <1>3, <1>4, <1>5

\* view.Flush().
LEMMA CommitStep == CacheInv /\ Commit => CacheInv'
<1> SUFFICES ASSUME CacheInv, Commit PROVE CacheInv'
  OBVIOUS
<1>1. /\ tip' = [t \in TxIds |-> Merged(t)]
      /\ view' = EmptyCache /\ viewBest' = NoHash /\ tipBest' = viewBest
      /\ open' = FALSE /\ UNCHANGED <<db, dbBest>>
  BY DEF Commit, dbVars
<1>2. \A t \in TxIds : tip'[t] = Merged(t) /\ view'[t] = NoEntry
  BY <1>1 DEF EmptyCache
<1>3. tip' \in Cache /\ view' \in Cache
  BY <1>1, MergedFacts DEF Cache, EmptyCache
<1>4. CacheTypeOK'
  BY <1>1, <1>3 DEF CacheInv, CacheTypeOK
<1> QED
  BY <1>1, <1>2, <1>4, MergedFacts
  DEF CacheInv, FlagsSound, BatchWriteAssertion, CacheClosed

\* pcoinsTip->Flush().
LEMMA FlushTipStep == CacheInv /\ FlushTip => CacheInv'
<1> SUFFICES ASSUME CacheInv, FlushTip PROVE CacheInv'
  OBVIOUS
<1>1. /\ db' = [t \in TxIds |-> Written(t)] /\ tip' = EmptyCache
      /\ dbBest' = IF tipBest # NoHash THEN tipBest ELSE dbBest
      /\ ~open /\ UNCHANGED <<tipBest, view, viewBest, open>>
  BY DEF FlushTip, viewVars
<1>2. \A t \in TxIds : Written(t) \in Coins
  BY Shapes DEF Written, Entry
<1>3. view = EmptyCache
  BY <1>1 DEF CacheInv, CacheClosed
<1>4. \A t \in TxIds : tip'[t] = NoEntry /\ view'[t] = NoEntry
  BY <1>1, <1>3 DEF EmptyCache
<1>5. CacheTypeOK'
  BY <1>1, <1>2 DEF CacheInv, CacheTypeOK, EmptyCache, Cache
<1> QED
  BY <1>1, <1>3, <1>4, <1>5
  DEF CacheInv, FlagsSound, BatchWriteAssertion, CacheClosed

\* FetchCoins on the tip, while there is no view above it.
LEMMA TipAccessStep ==
    ASSUME CacheInv, NEW t \in TxIds, TipAccess(t)
    PROVE  CacheInv'
<1>1. /\ tip' = TipFetched(t) /\ ~open
      /\ UNCHANGED <<db, dbBest, tipBest, view, viewBest, open>>
  BY DEF TipAccess, dbVars, viewVars
<1>2. view = EmptyCache
  BY <1>1 DEF CacheInv, CacheClosed
<1>3. \A u \in TxIds : view'[u] = NoEntry
  BY <1>1, <1>2 DEF EmptyCache
<1>4. CacheTypeOK'
  BY <1>1, TipFetchedFacts DEF CacheInv, CacheTypeOK
<1>5. FlagsSound'
  BY <1>1, <1>3, TipFetchedSound DEF FlagsSound
<1> QED
  BY <1>1, <1>2, <1>3, <1>4, <1>5 DEF CacheInv, BatchWriteAssertion, CacheClosed

\* Every operation keeps the invariant.
LEMMA CacheInvStep == CacheInv /\ [CacheNext]_cacheVars => CacheInv'
<1> SUFFICES ASSUME CacheInv, [CacheNext]_cacheVars PROVE CacheInv'
  OBVIOUS
<1>1. CASE OpenView \/ GetBestBlock \/ \E h \in Hashes : SetBestBlock(h)
  <2>1. UNCHANGED <<db, dbBest, tip, view>> /\ open'
    BY <1>1 DEF OpenView, GetBestBlock, SetBestBlock, dbVars, tipVars
  <2>2. open' \in BOOLEAN /\ viewBest' \in Hashes \cup {NoHash} /\ tipBest' \in Hashes \cup {NoHash}
    BY <1>1 DEF OpenView, GetBestBlock, SetBestBlock, ViewBestBlock, TipBestBlock,
                CacheInv, CacheTypeOK, tipVars
  <2> QED
    BY <2>1, <2>2 DEF CacheInv, CacheTypeOK, FlagsSound, BatchWriteAssertion,
                      CacheClosed, TipCoins
<1>2. CASE Discard
  BY <1>2 DEF Discard, CacheInv, CacheTypeOK, FlagsSound, BatchWriteAssertion,
              CacheClosed, TipCoins, EmptyCache, Cache, dbVars, tipVars
<1>3. CASE FlushTipFails \/ Crash
  <2>1. tip' = EmptyCache /\ view' = EmptyCache /\ viewBest' = NoHash /\ UNCHANGED <<db, dbBest>>
    BY <1>3 DEF FlushTipFails, Crash, CacheInv, CacheClosed, dbVars, viewVars
  <2>2. open' \in BOOLEAN /\ tipBest' \in Hashes \cup {NoHash}
    BY <1>3 DEF FlushTipFails, Crash, CacheInv, CacheTypeOK, viewVars
  <2> QED
    BY <2>1, <2>2 DEF CacheInv, CacheTypeOK, FlagsSound, BatchWriteAssertion,
                      CacheClosed, TipCoins, EmptyCache, Cache
<1>4. CASE UNCHANGED cacheVars
  BY <1>4 DEF cacheVars, CacheInv, CacheTypeOK, FlagsSound, BatchWriteAssertion,
              CacheClosed, TipCoins
<1> QED
  BY <1>1, <1>2, <1>3, <1>4, CommitStep, FlushTipStep, TipAccessStep, FetchStep, ModifyStep
  DEF CacheNext

-----------------------------------------------------------------------------
(* The theorems *)

\* The flags of coins.h mean what they say, the assertion of BatchWrite holds
\* and a cache without a view above it is empty, in every reachable state.
THEOREM CacheInvariant == CacheSpec => []CacheInv
<1>1. CacheInit => CacheInv
  BY CacheInvInit
<1>2. CacheInv /\ [CacheNext]_cacheVars => CacheInv'
  BY CacheInvStep
<1> QED
  BY <1>1, <1>2, PTL DEF CacheSpec

\* The DIRTY and FRESH flags of both caches are sound (coins.h, CCoinsCacheEntry).
THEOREM FlagsTheorem == CacheSpec => []FlagsSound
<1>1. CacheInv => FlagsSound
  BY DEF CacheInv
<1> QED
  BY <1>1, CacheInvariant, PTL

\* CCoinsViewCache::BatchWrite never meets coins the tip should have fetched.
THEOREM BatchWriteTheorem == CacheSpec => []BatchWriteAssertion
<1>1. CacheInv => BatchWriteAssertion
  BY DEF CacheInv
<1> QED
  BY <1>1, CacheInvariant, PTL

\* The initial states map to initial states of Coins.
LEMMA InitImplements == CacheInit => Table!Init
<1> SUFFICES ASSUME CacheInit PROVE Table!Init
  OBVIOUS
<1>1. [t \in TxIds |-> TipCoins(t)] = db /\ [t \in TxIds |-> ViewCoins(t)] = db
  BY DEF CacheInit, TipCoins, ViewCoins, EmptyCache
<1>2. TipBestBlock = dbBest /\ ViewBestBlock = dbBest
  BY DEF CacheInit, TipBestBlock, ViewBestBlock
<1> QED
  BY <1>1, <1>2 DEF CacheInit, Table!Init, Table!Table, Coins

-----------------------------------------------------------------------------
(* What each operation does to what readers see: nothing, to the coins of one *)
(* transaction, or to one version of the table as a whole.                    *)

SameReads ==
    /\ \A t \in TxIds : ViewCoins(t)' = ViewCoins(t) /\ TipCoins(t)' = TipCoins(t)
    /\ ViewBestBlock' = ViewBestBlock /\ TipBestBlock' = TipBestBlock
    /\ UNCHANGED <<db, dbBest>>

LEMMA ClosedReads ==
    CacheInv /\ ~open =>
        (\A t \in TxIds : ViewCoins(t) = TipCoins(t)) /\ ViewBestBlock = TipBestBlock
  BY DEF CacheInv, CacheClosed, EmptyCache, ViewCoins, ViewBestBlock

LEMMA StutterReads == UNCHANGED cacheVars => SameReads /\ open' = open
  BY DEF SameReads, cacheVars, TipCoins, ViewCoins, TipBestBlock, ViewBestBlock

LEMMA OpenReads == OpenView => SameReads /\ ~open /\ open' = TRUE
  BY DEF OpenView, SameReads, TipCoins, ViewCoins, TipBestBlock, ViewBestBlock, dbVars, tipVars

LEMMA GetBestBlockReads == CacheInv /\ GetBestBlock => SameReads /\ open /\ open' = open
<1> SUFFICES ASSUME CacheInv, GetBestBlock PROVE SameReads /\ open /\ open' = open
  OBVIOUS
<1>1. TipBestBlock' = TipBestBlock /\ ViewBestBlock' = ViewBestBlock
  BY DEF GetBestBlock, TipBestBlock, ViewBestBlock, dbVars, CacheInv, CacheTypeOK
<1> QED
  BY <1>1 DEF GetBestBlock, SameReads, TipCoins, ViewCoins, dbVars

LEMMA SetBestBlockReads ==
    ASSUME NEW h \in Hashes, SetBestBlock(h)
    PROVE  /\ \A t \in TxIds : ViewCoins(t)' = ViewCoins(t) /\ TipCoins(t)' = TipCoins(t)
           /\ ViewBestBlock' = h /\ TipBestBlock' = TipBestBlock
           /\ UNCHANGED <<db, dbBest, open>> /\ open
  BY DEF SetBestBlock, TipCoins, ViewCoins, TipBestBlock, ViewBestBlock, dbVars, tipVars

LEMMA TipAccessReads ==
    ASSUME CacheInv, NEW t \in TxIds, TipAccess(t)
    PROVE  SameReads /\ open' = open
<1>1. /\ tip' = TipFetched(t) /\ UNCHANGED <<db, dbBest, tipBest, view, viewBest, open>>
  BY DEF TipAccess, dbVars, viewVars
<1>2. \A u \in TxIds : TipCoins(u)' = TipCoins(u)
  BY <1>1, TipFetchedSound
<1> QED
  BY <1>1, <1>2 DEF SameReads, ViewCoins, TipBestBlock, ViewBestBlock

LEMMA AccessReads ==
    ASSUME CacheInv, NEW t \in TxIds, Access(t)
    PROVE  SameReads /\ open /\ open' = open
<1>1. open /\ UNCHANGED <<db, dbBest, tipBest, viewBest, open>>
  BY DEF Access, dbVars
<1>2. \A u \in TxIds : TipCoins(u)' = TipCoins(u)
  <2>1. CASE view[t] # NoEntry
    BY <1>1, <2>1 DEF Access, TipCoins
  <2>2. CASE view[t] = NoEntry
    BY <1>1, <2>2, TipFetchedSound DEF Access
  <2> QED
    BY <2>1, <2>2
<1>3. \A u \in TxIds : ViewCoins(u)' = ViewCoins(u)
  <2>1. view \in Cache /\ view' = ViewFetched(t)
    BY DEF CacheInv, CacheTypeOK, Access
  <2>2. \A u \in TxIds : u # t => view'[u] = view[u]
    BY <2>1 DEF ViewFetched, Cache
  <2>3. view[t] # NoEntry => view'[t] = view[t]
    BY <2>1 DEF ViewFetched
  <2>4. view[t] = NoEntry /\ view'[t] # NoEntry => view'[t].coins = TipCoins(t)
    BY <2>1 DEF ViewFetched, Cache
  <2> QED
    BY <1>2, <2>2, <2>3, <2>4 DEF ViewCoins
<1>4. TipBestBlock' = TipBestBlock /\ ViewBestBlock' = ViewBestBlock
  BY <1>1 DEF TipBestBlock, ViewBestBlock
<1> QED
  BY <1>1, <1>2, <1>3, <1>4 DEF SameReads

LEMMA ModifyReads ==
    ASSUME CacheInv, NEW t \in TxIds, NEW c \in Coins, Modify(t, c)
    PROVE  /\ \A u \in TxIds : /\ ViewCoins(u)' = IF u = t THEN c ELSE ViewCoins(u)
                               /\ TipCoins(u)' = TipCoins(u)
           /\ ViewBestBlock' = ViewBestBlock /\ TipBestBlock' = TipBestBlock
           /\ UNCHANGED <<db, dbBest, open>> /\ open
<1>1. open /\ UNCHANGED <<db, dbBest, tipBest, viewBest, open>>
  BY DEF Modify, dbVars
<1>2. \A u \in TxIds : TipCoins(u)' = TipCoins(u)
  <2>1. CASE view[t] # NoEntry
    BY <1>1, <2>1 DEF Modify, TipCoins
  <2>2. CASE view[t] = NoEntry
    BY <1>1, <2>2, TipFetchedSound DEF Modify
  <2> QED
    BY <2>1, <2>2
<1>3. view \in Cache
  BY DEF CacheInv, CacheTypeOK
<1>4. \A u \in TxIds : u # t => view'[u] = view[u]
  BY <1>3 DEF Modify, Cache
<1>5. view'[t] = IF Modifiable(t).fresh /\ c = Pruned THEN NoEntry
                 ELSE [Modifiable(t) EXCEPT !.coins = c]
  BY <1>3 DEF Modify, Cache
<1>6. [Modifiable(t) EXCEPT !.coins = c] # NoEntry /\ [Modifiable(t) EXCEPT !.coins = c].coins = c
  BY ModifiableFacts DEF Entry
<1>7. ViewCoins(t)' = c
  BY <1>2, <1>5, <1>6, ModifiableFacts DEF ViewCoins
<1>8. TipBestBlock' = TipBestBlock /\ ViewBestBlock' = ViewBestBlock
  BY <1>1 DEF TipBestBlock, ViewBestBlock
<1> QED
  BY <1>1, <1>2, <1>4, <1>7, <1>8 DEF ViewCoins

LEMMA CommitReads ==
    ASSUME CacheInv, Commit
    PROVE  /\ \A t \in TxIds : TipCoins(t)' = ViewCoins(t) /\ ViewCoins(t)' = ViewCoins(t)
           /\ TipBestBlock' = ViewBestBlock /\ ViewBestBlock' = ViewBestBlock
           /\ UNCHANGED <<db, dbBest>> /\ open /\ open' = FALSE
<1>1. /\ open /\ open' = FALSE /\ viewBest # NoHash /\ viewBest' = NoHash
      /\ tipBest' = viewBest /\ UNCHANGED <<db, dbBest>>
  BY DEF Commit, dbVars
<1>2. \A t \in TxIds : tip'[t] = Merged(t) /\ view'[t] = NoEntry
  BY DEF Commit, EmptyCache
<1>3. \A t \in TxIds : TipCoins(t)' = ViewCoins(t) /\ ViewCoins(t)' = ViewCoins(t)
  BY <1>1, <1>2, MergedFacts DEF TipCoins, ViewCoins
<1>4. TipBestBlock' = ViewBestBlock /\ ViewBestBlock' = ViewBestBlock
  BY <1>1 DEF TipBestBlock, ViewBestBlock
<1> QED
  BY <1>1, <1>3, <1>4

LEMMA DiscardReads ==
    ASSUME CacheInv, Discard
    PROVE  /\ \A t \in TxIds : TipCoins(t)' = TipCoins(t) /\ ViewCoins(t)' = TipCoins(t)
           /\ TipBestBlock' = TipBestBlock /\ ViewBestBlock' = TipBestBlock
           /\ UNCHANGED <<db, dbBest>> /\ open /\ open' = FALSE
<1>1. /\ open /\ open' = FALSE /\ viewBest' = NoHash /\ UNCHANGED <<db, dbBest, tip, tipBest>>
      /\ \A t \in TxIds : view'[t] = NoEntry
  BY DEF Discard, dbVars, tipVars, EmptyCache
<1> QED
  BY <1>1 DEF TipCoins, ViewCoins, TipBestBlock, ViewBestBlock

LEMMA FlushTipReads ==
    ASSUME CacheInv, FlushTip
    PROVE  /\ \A t \in TxIds : TipCoins(t)' = TipCoins(t) /\ ViewCoins(t)' = ViewCoins(t)
           /\ db' = [t \in TxIds |-> TipCoins(t)] /\ dbBest' = TipBestBlock
           /\ TipBestBlock' = TipBestBlock /\ ViewBestBlock' = ViewBestBlock
           /\ ~open /\ open' = open
<1>1. /\ ~open /\ UNCHANGED <<open, tipBest, view, viewBest>>
      /\ dbBest' = IF tipBest # NoHash THEN tipBest ELSE dbBest
      /\ db' = [t \in TxIds |-> Written(t)]
      /\ \A t \in TxIds : tip'[t] = NoEntry
  BY DEF FlushTip, viewVars, EmptyCache
<1>2. \A t \in TxIds : Written(t) = TipCoins(t)
  BY DEF Written, TipCoins, CacheInv, FlagsSound
<1>3. \A t \in TxIds : view[t] = NoEntry /\ view'[t] = NoEntry
  BY <1>1 DEF CacheInv, CacheClosed, EmptyCache
<1>4. db' = [t \in TxIds |-> TipCoins(t)]
  BY <1>1, <1>2
<1>5. \A t \in TxIds : TipCoins(t)' = TipCoins(t) /\ ViewCoins(t)' = ViewCoins(t)
  BY <1>1, <1>3, <1>4 DEF TipCoins, ViewCoins
<1>6. dbBest' = TipBestBlock /\ TipBestBlock' = TipBestBlock /\ ViewBestBlock' = ViewBestBlock
  BY <1>1 DEF TipBestBlock, ViewBestBlock, CacheInv, CacheClosed
<1> QED
  BY <1>1, <1>4, <1>5, <1>6

LEMMA FlushTipFailsReads ==
    ASSUME CacheInv, FlushTipFails
    PROVE  /\ \A t \in TxIds : TipCoins(t)' = db[t] /\ ViewCoins(t)' = db[t]
           /\ TipBestBlock' = TipBestBlock /\ ViewBestBlock' = ViewBestBlock
           /\ UNCHANGED <<db, dbBest, open>> /\ ~open
<1>1. /\ ~open /\ UNCHANGED <<open, db, dbBest, tipBest, view, viewBest>>
      /\ \A t \in TxIds : tip'[t] = NoEntry
  BY DEF FlushTipFails, dbVars, viewVars, EmptyCache
<1>2. \A t \in TxIds : view'[t] = NoEntry
  BY <1>1 DEF CacheInv, CacheClosed, EmptyCache
<1> QED
  BY <1>1, <1>2 DEF TipCoins, ViewCoins, TipBestBlock, ViewBestBlock

LEMMA CrashReads ==
    ASSUME Crash
    PROVE  /\ \A t \in TxIds : TipCoins(t)' = db[t] /\ ViewCoins(t)' = db[t]
           /\ TipBestBlock' = dbBest /\ ViewBestBlock' = dbBest
           /\ UNCHANGED <<db, dbBest>> /\ open' = FALSE
<1>1. /\ UNCHANGED <<db, dbBest>> /\ tipBest' = NoHash /\ viewBest' = NoHash /\ open' = FALSE
      /\ \A t \in TxIds : tip'[t] = NoEntry /\ view'[t] = NoEntry
  BY DEF Crash, dbVars, EmptyCache
<1> QED
  BY <1>1 DEF TipCoins, ViewCoins, TipBestBlock, ViewBestBlock

\* Every operation is an operation of Coins, or is not visible in it.
LEMMA StepImplements ==
    CacheInv /\ [CacheNext]_cacheVars => [Table!Next]_(Table!vars)
<1> SUFFICES ASSUME CacheInv, [CacheNext]_cacheVars PROVE [Table!Next]_(Table!vars)
  OBVIOUS
<1> DEFINE W == [t \in TxIds |-> ViewCoins(t)]
           C == [t \in TxIds |-> TipCoins(t)]
<1>0. SameReads => W' = W /\ C' = C
  BY DEF SameReads
<1>1. CASE OpenView
  BY <1>0, <1>1, OpenReads DEF SameReads, Table!Next, Table!Open
<1>2. CASE SameReads /\ open' = open
  BY <1>0, <1>2 DEF SameReads, Table!vars
<1>3. ASSUME NEW h \in Hashes, SetBestBlock(h) PROVE Table!Next
  <2>1. W' = W /\ C' = C
    BY <1>3, SetBestBlockReads
  <2> QED
    BY <2>1, <1>3, SetBestBlockReads DEF Table!Next, Table!SetBest
<1>4. ASSUME NEW t \in TxIds, NEW c \in Coins, Modify(t, c) PROVE Table!Next
  <2>1. W' = [W EXCEPT ![t] = c] /\ C' = C
    BY <1>4, ModifyReads
  <2> QED
    BY <2>1, <1>4, ModifyReads DEF Table!Next, Table!Modify, Coins
<1>5. CASE Commit
  <2>1. C' = W /\ W' = W
    BY <1>5, CommitReads
  <2> QED
    BY <2>1, <1>5, CommitReads DEF Table!Next, Table!Commit
<1>6. CASE Discard
  <2>1. W' = C /\ C' = C
    BY <1>6, DiscardReads
  <2> QED
    BY <2>1, <1>6, DiscardReads DEF Table!Next, Table!Discard
<1>7. CASE FlushTip
  <2>1. W' = W /\ C' = C
    BY <1>7, FlushTipReads
  <2> QED
    BY <2>1, <1>7, FlushTipReads DEF Table!Next, Table!Flush
<1>8. CASE FlushTipFails
  <2>1. C' = db /\ W' = db
    BY <1>8, FlushTipFailsReads DEF CacheInv, CacheTypeOK
  <2> QED
    BY <2>1, <1>8, FlushTipFailsReads DEF Table!Next, Table!FlushFails
<1>9. CASE Crash
  <2>1. C' = db /\ W' = db
    BY <1>9, CrashReads DEF CacheInv, CacheTypeOK
  <2> QED
    BY <2>1, <1>9, CrashReads DEF Table!Next, Table!Crash
<1> QED
  BY <1>1, <1>2, <1>3, <1>4, <1>5, <1>6, <1>7, <1>8, <1>9, StutterReads, GetBestBlockReads,
     TipAccessReads, AccessReads DEF CacheNext

\* The stack of coins views, with its caches and flags, implements one table
\* of coins with a committed and a durable version.
THEOREM Refinement == CacheSpec => ImplementsCoins
<1>1. CacheInit => Table!Init
  BY InitImplements
<1>2. CacheInv /\ [CacheNext]_cacheVars => [Table!Next]_(Table!vars)
  BY StepImplements
<1> QED
  BY <1>1, <1>2, CacheInvariant, PTL DEF CacheSpec, ImplementsCoins, Table!Spec
==============================================================================
