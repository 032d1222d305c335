-------------------------- MODULE ChainCoinsProofs --------------------------
(***************************************************************************)
(* Proofs about ChainCoins, for every block tree, all transactions and     *)
(* every interleaving of connects, disconnects, abandoned views, flushes,  *)
(* failed flushes and restarts. The reference (CoinsAt) gives the coins at *)
(* every point of a block; the invariant says that the view shows them at  *)
(* the point the code has come to, that the tip and the database show them *)
(* at the end of their best blocks, and that undo data, in the index and   *)
(* on disk, is what the reference says for every block that a disconnect   *)
(* or a restart can come back to. Connecting walks the points of a block   *)
(* forwards and disconnecting walks them backwards.                        *)
(***************************************************************************)
EXTENDS ChainCoins, CoinsCacheProofs

-----------------------------------------------------------------------------
(* The undo data of CTxInUndo does not hold fCoinStake (finding              *)
(* coins_stake_undo): the flag is lost where the last output of a coinstake  *)
(* is spent and comes back. StakesKept says that the tree has no such spend. *)
StakesKept ==
    \A b \in Hashes \ {Genesis} : Connectable(b) =>
        \A k \in DOMAIN Vtx[b] : \A l \in DOMAIN Vin[Vtx[b][k]] :
            LET o == Vin[Vtx[b][k]][l]
                c == CoinsAt(b, k, l - 1)[o[1]]
            IN  c.outs = {o[2]} => ~c.stake

(* Equal coins, but for a flag that may have been lost. *)
Like(c, d) == c.outs = d.outs /\ c.height = d.height /\ (StakesKept => c = d)

Shows(U) == \A t \in TxIds : Like(ViewCoins(t), U[t])

-----------------------------------------------------------------------------
(* The inductive invariant *)

Has(u, b) == b = Genesis \/ u[b] # NoUndo

UndoFits(b, w) ==
    /\ w \in BlockUndo /\ Len(w) = Len(Vtx[b])
    /\ \A k \in DOMAIN Vtx[b] : Len(w[k]) = Len(Vin[Vtx[b][k]])

UndoHeight(b, k, l) ==
    LET o == Vin[Vtx[b][k]][l]
    IN  SpendUndo(CoinsAt(b, k, l - 1)[o[1]], o[2]).height

HeightsKnown(U) == \A t \in TxIds : U[t] # Pruned => U[t].height # 0

UndoTrue(b, u) ==
    /\ b \notin Invalid /\ Connectable(b) /\ Has(u, Parent[b])
    /\ HeightsKnown(Utxo[b])
    /\ \A k \in DOMAIN Vtx[b] : \A l \in DOMAIN Vin[Vtx[b][k]] :
            u[b][k][l].height = UndoHeight(b, k, l)

UndoInv(u) ==
    /\ u \in [Hashes -> BlockUndo \cup {NoUndo}]
    /\ \A b \in Hashes \ {Genesis} : u[b] # NoUndo =>
            UndoFits(b, u[b]) /\ (~failed => UndoTrue(b, u))

Target == IF op = "connect" THEN cur ELSE IF op = "disconnect" THEN Parent[cur] ELSE active

Working == {"best", "overwrite", "inputs", "spend", "finish", "remove", "restore", "moved",
            "flushview", "abandon"}
Applying == {"overwrite", "inputs", "spend", "finish"}

ControlInv ==
    /\ active \in Hashes /\ cur \in Hashes /\ clean \in BOOLEAN /\ failed \in BOOLEAN
    /\ i \in Nat /\ j \in Nat
    /\ pc \in Working \cup {"idle", "committed", "indexed", "flushed"}
    /\ op \in {"none", "connect", "check", "disconnect", "verify", "flush"}
    /\ open <=> pc \in Working
    /\ pc = "idle" <=> op = "none"
    /\ pc = "idle" => clean
    /\ op = "flush" => pc \in {"indexed", "flushed"}
    /\ Connecting => cur # Genesis /\ Parent[cur] = active
    /\ op = "disconnect" => cur # Genesis /\ cur = active
    /\ op = "verify" => cur # Genesis
    /\ pc \in Applying => Connecting
    /\ pc \in {"remove", "restore", "moved"} => op \in {"disconnect", "verify"} /\ undo[cur] # NoUndo
    /\ pc \in {"overwrite", "inputs", "spend", "remove", "restore"} => i \in 1..Len(Vtx[cur])
    /\ pc \in {"inputs", "spend"} => j \in 1..(Len(Vin[tx]) + 1)
    /\ pc = "restore" => j \in 0..Len(Vin[tx])
    /\ pc = "moved" => op = "verify"
    /\ pc \in {"flushview", "committed"} => op \in {"connect", "disconnect"}
    /\ pc \in {"indexed", "flushed"} => op \in {"connect", "disconnect", "flush"}
    /\ pc = "flushview" => viewBest = Target /\ (op = "connect" => undo[cur] # NoUndo)

(* The undo data of the block being connected, as far as it has come. *)
RecordsInv ==
    /\ blockundo \in BlockUndo
    /\ ~Connecting \/ pc \in {"best", "overwrite"} => blockundo = << >>
    /\ pc = "inputs" => Len(blockundo) = i - 1
    /\ pc = "spend" => Len(blockundo) = i /\ Len(blockundo[i]) = j - 1
    /\ pc = "finish" => Len(blockundo) = Len(Vtx[cur])
    /\ pc \in Applying => \A k \in DOMAIN blockundo :
            /\ (pc = "spend" => k # i) => Len(blockundo[k]) = Len(Vin[Vtx[cur][k]])
            /\ ~failed => \A l \in DOMAIN blockundo[k] :
                    blockundo[k][l].height = UndoHeight(cur, k, l)

Fresh(b, n) == \A k \in 1..n : Utxo[Parent[b]][Vtx[b][k]] = Pruned
Found(b, n) ==
    \A k \in 1..n : \A o \in Range(Vin[Vtx[b][k]]) : o[2] \in CoinsAt(b, k, 0)[o[1]].outs

ViewInv ==
    /\ pc = "best" => ViewBestBlock = Expected /\ Shows(Utxo[Expected])
    /\ pc = "overwrite" => Shows(Utxo[Parent[cur]]) /\ Fresh(cur, i - 1)
    /\ pc = "inputs" =>
        /\ Shows(CoinsAt(cur, i, 0)) /\ Fresh(cur, Len(Vtx[cur])) /\ Found(cur, i - 1)
        /\ \A l \in 1..(j - 1) : Vin[tx][l][2] \in CoinsAt(cur, i, 0)[Vin[tx][l][1]].outs
    /\ pc = "spend" =>
        Shows(CoinsAt(cur, i, j - 1)) /\ Fresh(cur, Len(Vtx[cur])) /\ Found(cur, i)
    /\ pc = "finish" => Shows(After(cur)) /\ Connectable(cur)
    /\ pc = "remove" => Shows(CoinsAt(cur, i + 1, 0))
    /\ pc = "restore" => Shows(CoinsAt(cur, i, j))
    /\ pc = "moved" => Shows(Utxo[Parent[cur]]) /\ ViewBestBlock = Parent[cur]
    /\ pc = "flushview" => Shows(Utxo[Target])

CoinsInv ==
    /\ \A t \in TxIds : Like(db[t], Utxo[dbBest][t])
    /\ \A t \in TxIds : Like(TipCoins(t), Utxo[TipBestBlock][t])
    /\ TipBestBlock = IF pc \in {"committed", "indexed", "flushed"} THEN Target ELSE active
    /\ Has(undo, TipBestBlock) /\ Has(undo, dbBest) /\ Has(undoDisk, dbBest)
    /\ pc = "indexed" => Has(undoDisk, TipBestBlock)
    /\ op \in {"disconnect", "verify"} => Has(undo, cur)
    /\ StakesKept => clean
    /\ StakesKept /\ pc = "abandon" => Connecting /\ (cur \in Invalid \/ ~Connectable(cur))

IInv ==
    /\ CacheInv
    /\ UndoInv(undo) /\ UndoInv(undoDisk)
    /\ ControlInv /\ RecordsInv
    /\ ~failed => ViewInv /\ CoinsInv
-----------------------------------------------------------------------------
(* Coins, and the reference at two neighbouring points of a block *)

\* Coins are what CoinsAssumption says.
LEMMA ValuesAre ==
    /\ Values = [outs : (SUBSET Outputs) \ {{}}, height : {0} \cup {Height[b] : b \in Hashes},
                 stake : BOOLEAN]
    /\ Pruned = [outs |-> {}, height |-> 0, stake |-> FALSE]
    /\ Coins = Values \cup {Pruned}
  BY CoinsAssumption DEF Coins

\* The fields of coins; pruned coins are those without outputs.
LEMMA CoinsFields ==
    ASSUME NEW c \in Coins
    PROVE  /\ c.outs \in SUBSET Outputs /\ c.stake \in BOOLEAN
           /\ c.height \in {0} \cup {Height[b] : b \in Hashes}
           /\ c.outs = {} <=> c = Pruned
           /\ c \in [outs : SUBSET Outputs, height : {0} \cup {Height[b] : b \in Hashes},
                     stake : BOOLEAN]
           /\ c = [outs |-> c.outs, height |-> c.height, stake |-> c.stake]
<1>1. CASE c \in Values
  BY <1>1, ValuesAre
<1>2. CASE c = Pruned
  BY <1>2, ValuesAre
<1> QED
  BY <1>1, <1>2, ValuesAre

\* A record with an output left is coins.
LEMMA CoinsMade ==
    ASSUME NEW o \in SUBSET Outputs, o # {}, NEW s \in BOOLEAN,
           NEW h \in {0} \cup {Height[b] : b \in Hashes}
    PROVE  [outs |-> o, height |-> h, stake |-> s] \in Coins
  BY ValuesAre

LEMMA PrunedCoins == Pruned \in Coins /\ Pruned.outs = {} /\ Pruned.height = 0
  BY ValuesAre

\* Taking outputs away leaves coins, of the same height and flag if any are left.
LEMMA LessFacts ==
    ASSUME NEW c \in Coins, NEW S
    PROVE  /\ Less(c, S) \in Coins /\ Less(c, S).outs = c.outs \ S
           /\ Less(c, S) # Pruned => Less(c, S).height = c.height /\ Less(c, S).stake = c.stake
           /\ Less(c, S) = IF c.outs \subseteq S THEN Pruned
                           ELSE [outs |-> c.outs \ S, height |-> c.height, stake |-> c.stake]
           /\ c = Pruned => Less(c, S) = Pruned
           /\ S \cap c.outs = {} => Less(c, S) = c
<1>1. CASE c.outs \subseteq S
  BY <1>1, PrunedCoins, CoinsFields DEF Less
<1>2. CASE ~(c.outs \subseteq S)
  <2>1. c.outs \ S \in SUBSET Outputs /\ c.outs \ S # {}
    BY <1>2, CoinsFields
  <2>2. [c EXCEPT !.outs = @ \ S] = [outs |-> c.outs \ S, height |-> c.height, stake |-> c.stake]
    <3>1. c \in [outs : SUBSET Outputs, height : {0} \cup {Height[b] : b \in Hashes},
                 stake : BOOLEAN]
      BY CoinsFields
    <3> QED
      BY <3>1
  <2>3. Less(c, S) = [outs |-> c.outs \ S, height |-> c.height, stake |-> c.stake]
    BY <1>2, <2>2 DEF Less
  <2>4. Less(c, S) \in Coins
    <3>1. c.stake \in BOOLEAN /\ c.height \in {0} \cup {Height[b] : b \in Hashes}
      BY CoinsFields
    <3>2. [outs |-> c.outs \ S, height |-> c.height, stake |-> c.stake] \in Coins
      BY <2>1, <3>1, CoinsMade
    <3> QED
      BY <2>3, <3>2
  <2>5. c # Pruned
    BY <1>2, PrunedCoins
  <2>6. S \cap c.outs = {} => c.outs \ S = c.outs
    OBVIOUS
  <2> QED
    BY <1>2, <2>3, <2>4, <2>5, <2>6, CoinsFields
<1> QED
  BY <1>1, <1>2

\* CCoins::Spend takes one output away, and its undo record has its type.
LEMMA SpendFacts ==
    ASSUME NEW c \in Coins, NEW n \in c.outs
    PROVE  /\ Spend(c, n) \in Coins /\ Spend(c, n) = Less(c, {n})
           /\ SpendUndo(c, n) \in UndoRecord
<1>1. c.outs \subseteq {n} <=> c.outs = {n}
  OBVIOUS
<1>2. Spend(c, n) = Less(c, {n})
  BY <1>1 DEF Spend, Less
<1>3. SpendUndo(c, n) \in UndoRecord
  BY CoinsFields DEF SpendUndo, UndoRecord
<1> QED
  BY <1>2, <1>3, LessFacts

\* Taking outputs away one after the other, or all at once.
LEMMA LessLess ==
    ASSUME NEW c \in Coins, NEW S, NEW n
    PROVE  Less(Less(c, S), {n}) = Less(c, S \cup {n})
<1>1. Less(c, S) \in Coins /\ Less(c, S).outs = c.outs \ S
  BY LessFacts
<1>2. CASE c.outs \subseteq S
  <2>1. Less(c, S) = Pruned /\ Less(c, S \cup {n}) = Pruned
    BY <1>2, LessFacts
  <2> QED
    BY <2>1, PrunedCoins, LessFacts
<1>3. CASE ~(c.outs \subseteq S)
  <2>1. Less(c, S).height = c.height /\ Less(c, S).stake = c.stake
    BY <1>1, <1>3, LessFacts, PrunedCoins
  <2>2. (c.outs \ S) \ {n} = c.outs \ (S \cup {n})
    OBVIOUS
  <2>3. (c.outs \ S) \subseteq {n} <=> c.outs \subseteq S \cup {n}
    OBVIOUS
  <2>4. Less(Less(c, S), {n}) = IF c.outs \ S \subseteq {n} THEN Pruned
            ELSE [outs |-> (c.outs \ S) \ {n}, height |-> c.height, stake |-> c.stake]
    <3>1. PICK d \in Coins : d = Less(c, S)
      BY <1>1
    <3>2. Less(d, {n}) = IF d.outs \subseteq {n} THEN Pruned
                         ELSE [outs |-> d.outs \ {n}, height |-> d.height, stake |-> d.stake]
      BY LessFacts
    <3>3. d.outs = c.outs \ S /\ d.height = c.height /\ d.stake = c.stake
      BY <1>1, <2>1, <3>1
    <3> QED
      BY <3>1, <3>2, <3>3
  <2>5. Less(c, S \cup {n}) = IF c.outs \subseteq S \cup {n} THEN Pruned
            ELSE [outs |-> c.outs \ (S \cup {n}), height |-> c.height, stake |-> c.stake]
    BY LessFacts
  <2> QED
    BY <2>2, <2>3, <2>4, <2>5
<1> QED
  BY <1>2, <1>3

\* CCoins(tx, nHeight) is coins of the block's height, or pruned.
LEMMA FromTxCoins ==
    ASSUME NEW t \in TxIds, NEW b \in Hashes
    PROVE  FromTx(t, Height[b]) \in Coins /\ FromTx(t, Height[b]).outs = Vout[t]
           /\ (FromTx(t, Height[b]) # Pruned => FromTx(t, Height[b]).height = Height[b])
<1>1. Vout[t] \in SUBSET Outputs /\ Height[b] \in {0} \cup {Height[c] : c \in Hashes}
  BY TransactionAssumption
<1>2. \E s \in BOOLEAN : s = (t \in Stakes)
  <2>1. CASE t \in Stakes
    <3>1. TRUE = (t \in Stakes)
      BY <2>1
    <3> QED
      BY <3>1, Zenon
  <2>2. CASE t \notin Stakes
    <3>1. FALSE = (t \in Stakes)
      BY <2>2
    <3> QED
      BY <3>1, Zenon
  <2> QED
    BY <2>1, <2>2
<1>3. PICK s \in BOOLEAN : s = (t \in Stakes)
  BY <1>2
<1>4. FromTx(t, Height[b]) = IF Vout[t] = {} THEN Pruned
                             ELSE [outs |-> Vout[t], height |-> Height[b], stake |-> s]
  BY <1>3 DEF FromTx
<1>5. Vout[t] # {} => [outs |-> Vout[t], height |-> Height[b], stake |-> s] \in Coins
  BY <1>1, CoinsMade
<1> QED
  BY <1>4, <1>5, PrunedCoins

\* The coins of t that block b spends from, and the outputs of them it has spent.
Source(b, k, t) == IF t \in Added(b, k) THEN FromTx(t, Height[b]) ELSE Utxo[Parent[b]][t]
Gone(b, k, l, t) == {n \in Outputs : <<t, n>> \in Spent(b, k, l)}

\* The reference gives coins at every point of a block.
LEMMA SourceCoins ==
    ASSUME NEW b \in Hashes \ {Genesis}, NEW k, NEW l, NEW t \in TxIds
    PROVE  /\ Source(b, k, t) \in Coins
           /\ CoinsAt(b, k, l)[t] = Less(Source(b, k, t), Gone(b, k, l, t))
           /\ CoinsAt(b, k, l)[t] \in Coins
           /\ CoinsAt(b, k, l)[t].outs = Source(b, k, t).outs \ Gone(b, k, l, t)
<1>1. Source(b, k, t) \in Coins
  BY FromTxCoins, UtxoAssumption, TreeAssumption DEF Source
<1>2. CoinsAt(b, k, l)[t] = Less(Source(b, k, t), Gone(b, k, l, t))
  BY DEF CoinsAt, Source, Gone
<1> QED
  BY <1>1, <1>2, LessFacts

\* An input is a transaction and one of its outputs.
LEMMA InputIs ==
    ASSUME NEW b \in Hashes, NEW k \in DOMAIN Vtx[b], NEW l \in DOMAIN Vin[Vtx[b][k]]
    PROVE  /\ Vtx[b][k] \in TxIds /\ Len(Vtx[b]) \in Nat /\ k \in 1..Len(Vtx[b])
           /\ Len(Vin[Vtx[b][k]]) \in Nat /\ l \in 1..Len(Vin[Vtx[b][k]])
           /\ Vin[Vtx[b][k]][l] \in Range(Vin[Vtx[b][k]])
           /\ Vin[Vtx[b][k]][l][1] \in TxIds /\ Vin[Vtx[b][k]][l][2] \in Outputs
           /\ Vin[Vtx[b][k]][l] = <<Vin[Vtx[b][k]][l][1], Vin[Vtx[b][k]][l][2]>>
<1>1. Vtx[b] \in Seq(TxIds)
  BY TransactionAssumption
<1>2. Vtx[b][k] \in TxIds /\ Len(Vtx[b]) \in Nat /\ k \in 1..Len(Vtx[b])
  BY <1>1
<1>3. Vin[Vtx[b][k]] \in Seq(TxIds \X Outputs)
  BY <1>2, TransactionAssumption
<1>4. Len(Vin[Vtx[b][k]]) \in Nat /\ l \in 1..Len(Vin[Vtx[b][k]])
      /\ Vin[Vtx[b][k]][l] \in TxIds \X Outputs
  BY <1>3
<1> QED
  BY <1>2, <1>4 DEF Range

\* One more input takes its output away and changes nothing else.
LEMMA CoinsSpend ==
    ASSUME NEW b \in Hashes \ {Genesis}, NEW k \in DOMAIN Vtx[b],
           NEW l \in DOMAIN Vin[Vtx[b][k]], NEW t \in TxIds
    PROVE  CoinsAt(b, k, l)[t] =
              IF t = Vin[Vtx[b][k]][l][1]
              THEN Less(CoinsAt(b, k, l - 1)[t], {Vin[Vtx[b][k]][l][2]})
              ELSE CoinsAt(b, k, l - 1)[t]
<1>0. PICK u \in TxIds, n \in Outputs :
        /\ u = Vin[Vtx[b][k]][l][1] /\ n = Vin[Vtx[b][k]][l][2]
        /\ Vin[Vtx[b][k]][l] = <<u, n>>
  <2>1. Vin[Vtx[b][k]][l][1] \in TxIds /\ Vin[Vtx[b][k]][l][2] \in Outputs
        /\ Vin[Vtx[b][k]][l] = <<Vin[Vtx[b][k]][l][1], Vin[Vtx[b][k]][l][2]>>
    BY InputIs
  <2> QED
    BY <2>1
<1>1. l \in Nat /\ 1 <= l /\ n \in Outputs
  BY InputIs
<1>2. 1..l = (1..(l - 1)) \cup {l}
  BY <1>1
<1>3. Spent(b, k, l) = Spent(b, k, l - 1) \cup {<<u, n>>}
  <2> DEFINE v == Vin[Vtx[b][k]]
  <2>1. {v[m] : m \in 1..l} = {v[m] : m \in 1..(l - 1)} \cup {v[l]}
    BY <1>2
  <2> QED
    BY <1>0, <2>1 DEF Spent
<1>4. Gone(b, k, l, t) = IF t = u THEN Gone(b, k, l - 1, t) \cup {n} ELSE Gone(b, k, l - 1, t)
  BY <1>1, <1>3 DEF Gone
<1>5. PICK m : m = l - 1
  OBVIOUS
<1>6. Source(b, k, t) \in Coins
      /\ CoinsAt(b, k, l)[t] = Less(Source(b, k, t), Gone(b, k, l, t))
  BY SourceCoins
<1>7. CoinsAt(b, k, m)[t] = Less(Source(b, k, t), Gone(b, k, m, t))
  BY SourceCoins
<1>8. Less(Less(Source(b, k, t), Gone(b, k, m, t)), {n}) =
        Less(Source(b, k, t), Gone(b, k, m, t) \cup {n})
  BY <1>6, LessLess
<1> QED
  BY <1>0, <1>4, <1>5, <1>6, <1>7, <1>8

\* Before its first transaction a block has changed nothing.
LEMMA CoinsStart ==
    ASSUME NEW b \in Hashes \ {Genesis}, NEW t \in TxIds
    PROVE  CoinsAt(b, 1, 0)[t] = Utxo[Parent[b]][t]
<1>1. Added(b, 1) = {} /\ Spent(b, 1, 0) = {}
  BY DEF Added, Spent
<1>2. Source(b, 1, t) = Utxo[Parent[b]][t] /\ Gone(b, 1, 0, t) = {}
  BY <1>1 DEF Source, Gone
<1> QED
  BY <1>2, SourceCoins, LessFacts

\* What a block has added and spent when it comes to its next transaction.
LEMMA AddedNext ==
    ASSUME NEW b \in Hashes, NEW k \in DOMAIN Vtx[b]
    PROVE  /\ Added(b, k + 1) = Added(b, k) \cup {Vtx[b][k]}
           /\ Added(b, k) \subseteq TxIds
           /\ Spent(b, k + 1, 0) = Spent(b, k, Len(Vin[Vtx[b][k]]))
           /\ \A m \in 1..(k - 1) : Vtx[b][m] \in Added(b, k)
<1>1. k \in Nat /\ k >= 1 /\ Vtx[b] \in Seq(TxIds) /\ k \in 1..Len(Vtx[b])
  BY TransactionAssumption
<1>2. 1..((k + 1) - 1) = 1..(k - 1) \cup {k}
  BY <1>1
<1>3. Added(b, k + 1) = Added(b, k) \cup {Vtx[b][k]}
  BY <1>2 DEF Added
<1>4. Added(b, k) \subseteq TxIds
  BY <1>1 DEF Added
<1>5. Vtx[b][k] \in TxIds /\ Vin[Vtx[b][k]] \in Seq(TxIds \X Outputs)
  BY <1>1, TransactionAssumption
<1>6. Range(Vin[Vtx[b][k]]) = {Vin[Vtx[b][k]][m] : m \in 1..Len(Vin[Vtx[b][k]])}
  BY <1>5 DEF Range
<1>7. Spent(b, k + 1, 0) = (UNION {Range(Vin[t]) : t \in Added(b, k + 1)})
  BY DEF Spent
<1>8. (UNION {Range(Vin[t]) : t \in Added(b, k) \cup {Vtx[b][k]}}) =
        (UNION {Range(Vin[t]) : t \in Added(b, k)}) \cup Range(Vin[Vtx[b][k]])
  OBVIOUS
<1> QED
  BY <1>1, <1>3, <1>4, <1>6, <1>7, <1>8 DEF Spent, Added

\* What a block adds it has not added before, and has not spent yet: a second copy
\* would spend its inputs twice, and a transaction without inputs occurs once.
LEMMA NotSpentYet ==
    ASSUME NEW b \in Hashes \ {Genesis}, NEW k \in DOMAIN Vtx[b],
           Fresh(b, Len(Vtx[b])), Found(b, k)
    PROVE  /\ Vtx[b][k] \notin Added(b, k)
           /\ \A n : <<Vtx[b][k], n>> \notin Spent(b, k, Len(Vin[Vtx[b][k]]))
<1> DEFINE t == Vtx[b][k]
<1>1. Vtx[b] \in Seq(TxIds) /\ k \in 1..Len(Vtx[b]) /\ Len(Vtx[b]) \in Nat /\ t \in TxIds
  BY TransactionAssumption
<1>2. Vin[t] \in Seq(TxIds \X Outputs)
  BY <1>1, TransactionAssumption
<1>3. ASSUME t \in Added(b, k) PROVE FALSE
  <2>1. PICK m \in 1..(k - 1) : Vtx[b][m] = t
    BY <1>3 DEF Added
  <2>2. m \in DOMAIN Vtx[b] /\ m # k
    BY <1>1, <2>1
  <2>3. Vin[t] # << >>
    BY <2>1, <2>2, TransactionAssumption
  <2>4. 1 \in DOMAIN Vin[t] /\ Vin[t][1] \in Range(Vin[t])
    BY <1>2, <2>3 DEF Range
  <2>5. PICK o \in TxIds \X Outputs : o = Vin[t][1]
    BY <1>2, <2>4
  <2>6. o[1] \in TxIds /\ o[2] \in Outputs /\ o = <<o[1], o[2]>>
    OBVIOUS
  <2>7. o \in Spent(b, k, 0)
    BY <1>3, <2>4, <2>5 DEF Spent
  <2>8. o[2] \in Gone(b, k, 0, o[1])
    BY <2>6, <2>7 DEF Gone
  <2>9. o[2] \in CoinsAt(b, k, 0)[o[1]].outs
    <3>1. k \in 1..k /\ o \in Range(Vin[Vtx[b][k]])
      BY <1>1, <2>4, <2>5
    <3> QED
      BY <3>1 DEF Found
  <2> QED
    BY <2>6, <2>8, <2>9, SourceCoins
<1>4. ASSUME NEW n, <<t, n>> \in Spent(b, k, Len(Vin[t])) PROVE FALSE
  <2>1. PICK m \in 1..k : <<t, n>> \in Range(Vin[Vtx[b][m]])
    <3>1. CASE \E w \in Added(b, k) : <<t, n>> \in Range(Vin[w])
      <4>1. PICK m \in 1..(k - 1) : <<t, n>> \in Range(Vin[Vtx[b][m]])
        BY <3>1 DEF Added
      <4> QED
        BY <1>1, <4>1
    <3>2. CASE \E l \in 1..Len(Vin[t]) : <<t, n>> = Vin[t][l]
      <4>1. <<t, n>> \in Range(Vin[Vtx[b][k]]) /\ k \in 1..k
        BY <1>1, <1>2, <3>2 DEF Range
      <4> QED
        BY <4>1
    <3> QED
      BY <1>4, <3>1, <3>2 DEF Spent
  <2>2. n \in CoinsAt(b, m, 0)[t].outs
    BY <2>1 DEF Found
  <2>3. Source(b, m, t).outs # {}
    <3>1. CoinsAt(b, m, 0)[t].outs = Source(b, m, t).outs \ Gone(b, m, 0, t)
      BY <1>1, SourceCoins
    <3> QED
      BY <2>2, <3>1
  <2>4. Utxo[Parent[b]][t] = Pruned
    BY <1>1 DEF Fresh
  <2>5. t \in Added(b, m)
    BY <2>3, <2>4, PrunedCoins DEF Source
  <2>6. t \in Added(b, k)
    BY <1>1, <2>1, <2>5 DEF Added
  <2> QED
    BY <1>3, <2>6
<1> QED
  BY <1>3, <1>4

\* A transaction's outputs come where nothing was, and nothing else changes.
LEMMA CoinsAdd ==
    ASSUME NEW b \in Hashes \ {Genesis}, NEW k \in DOMAIN Vtx[b],
           Fresh(b, Len(Vtx[b])), Found(b, k), NEW t \in TxIds
    PROVE  /\ CoinsAt(b, k + 1, 0)[t] = IF t = Vtx[b][k] THEN FromTx(t, Height[b])
                                        ELSE CoinsAt(b, k, Len(Vin[Vtx[b][k]]))[t]
           /\ t = Vtx[b][k] => CoinsAt(b, k, Len(Vin[Vtx[b][k]]))[t] = Pruned
<1> DEFINE L == Len(Vin[Vtx[b][k]])
<1>1. Gone(b, k + 1, 0, t) = Gone(b, k, L, t)
  BY AddedNext DEF Gone
<1>2. t # Vtx[b][k] => Source(b, k + 1, t) = Source(b, k, t)
  BY AddedNext DEF Source
<1>3. CASE t = Vtx[b][k]
  <2>1. Source(b, k + 1, t) = FromTx(t, Height[b])
    BY <1>3, AddedNext DEF Source
  <2>2. Gone(b, k, L, t) = {} /\ t \notin Added(b, k)
    BY <1>3, NotSpentYet DEF Gone
  <2>3. k \in 1..Len(Vtx[b])
    BY TransactionAssumption
  <2>4. Source(b, k, t) = Pruned
    BY <1>3, <2>2, <2>3 DEF Source, Fresh
  <2>5. CoinsAt(b, k, L)[t] = Pruned
    BY <2>4, SourceCoins, LessFacts
  <2>6. CoinsAt(b, k + 1, 0)[t] = FromTx(t, Height[b])
    BY <1>1, <2>1, <2>2, SourceCoins, LessFacts
  <2> QED
    BY <1>3, <2>5, <2>6
<1>4. CASE t # Vtx[b][k]
  BY <1>1, <1>2, <1>4, SourceCoins
<1> QED
  BY <1>3, <1>4

\* The inputs that were there at the start of a transaction are there when their
\* turn comes, since they differ.
LEMMA StillThere ==
    ASSUME NEW b \in Hashes \ {Genesis}, NEW k \in DOMAIN Vtx[b], Found(b, k),
           NEW l \in DOMAIN Vin[Vtx[b][k]]
    PROVE  Vin[Vtx[b][k]][l][2] \in CoinsAt(b, k, l - 1)[Vin[Vtx[b][k]][l][1]].outs
<1> DEFINE v == Vin[Vtx[b][k]]
<1>1. PICK o : o = v[l]
  OBVIOUS
<1>2. o[1] \in TxIds /\ o[2] \in Outputs /\ o = <<o[1], o[2]>> /\ o \in Range(v)
  BY <1>1, InputIs
<1>3. k \in 1..Len(Vtx[b]) /\ k \in 1..k /\ Vtx[b][k] \in TxIds /\ l \in 1..Len(v) /\ Len(v) \in Nat
  BY InputIs
<1>4. o[2] \in CoinsAt(b, k, 0)[o[1]].outs
  BY <1>2, <1>3 DEF Found
<1>5. o[2] \in Source(b, k, o[1]).outs /\ o[2] \notin Gone(b, k, 0, o[1])
  BY <1>2, <1>4, SourceCoins
<1>6. \A m \in 1..(l - 1) : v[m] # o
  <2>1. IsInjective(v)
    BY <1>3, TransactionAssumption
  <2>2. v \in Seq(TxIds \X Outputs)
    BY <1>3, TransactionAssumption
  <2>3. DOMAIN v = 1..Len(v)
    BY <2>2
  <2>4. \A m \in 1..(l - 1) : m \in DOMAIN v /\ m # l
    BY <1>3, <2>3
  <2> QED
    BY <1>1, <2>1, <2>4 DEF IsInjective
<1>7. o \notin Spent(b, k, 0)
  BY <1>2, <1>5 DEF Gone
<1>8. o \notin Spent(b, k, l - 1)
  BY <1>6, <1>7 DEF Spent
<1>9. o[2] \notin Gone(b, k, l - 1, o[1])
  BY <1>2, <1>8 DEF Gone
<1> QED
  BY <1>1, <1>2, <1>5, <1>9, SourceCoins

\* Coins have a height if those before the block do: the height 0 in an undo
\* record can stand for `not the last output'.
LEMMA HeightsFollow ==
    ASSUME NEW b \in Hashes \ {Genesis}, HeightsKnown(Utxo[Parent[b]]), NEW k, NEW l,
           NEW t \in TxIds
    PROVE  CoinsAt(b, k, l)[t] # Pruned => CoinsAt(b, k, l)[t].height # 0
<1>1. Height[b] # 0
  <2>1. Height[b] = Height[Parent[b]] + 1 /\ Height[Parent[b]] \in Nat
    BY TreeAssumption
  <2> QED
    BY <2>1
<1>2. Source(b, k, t) # Pruned => Source(b, k, t).height # 0
  BY <1>1, FromTxCoins DEF Source, HeightsKnown
<1> QED
  BY <1>2, SourceCoins, LessFacts
-----------------------------------------------------------------------------
(* Coins that are alike stay alike when both are spent from, and spending    *)
(* and then restoring gives coins that are alike.                            *)

LEMMA LikeFacts ==
    ASSUME NEW c \in Coins, NEW d \in Coins
    PROVE  /\ Like(c, c)
           /\ Like(c, d) => (c = Pruned <=> d = Pruned) /\ c.outs = d.outs
  BY CoinsFields DEF Like

\* Spending keeps coins alike, and makes undo records of the same height.
LEMMA LikeSpend ==
    ASSUME NEW c \in Coins, NEW d \in Coins, Like(c, d), NEW n \in d.outs
    PROVE  /\ Like(Spend(c, n), Less(d, {n}))
           /\ SpendUndo(c, n).height = SpendUndo(d, n).height
<1>1. c.outs = d.outs /\ c.height = d.height /\ (StakesKept => c = d)
  BY DEF Like
<1>2. Spend(c, n) = Less(c, {n})
  BY <1>1, SpendFacts
<1>3. Less(c, {n}).outs = Less(d, {n}).outs /\ (StakesKept => Less(c, {n}) = Less(d, {n}))
  <2>1. Less(c, {n}).outs = c.outs \ {n} /\ Less(d, {n}).outs = d.outs \ {n}
    BY LessFacts
  <2> QED
    BY <1>1, <2>1
<1>4. Less(c, {n}).height = Less(d, {n}).height
  <2>1. Less(c, {n}) = Pruned <=> Less(d, {n}) = Pruned
    BY <1>3, LessFacts, CoinsFields
  <2> QED
    BY <1>1, <2>1, LessFacts
<1> QED
  BY <1>1, <1>2, <1>3, <1>4 DEF Like, SpendUndo

\* DisconnectBlock makes coins of any undo record.
LEMMA RestoreCoins ==
    ASSUME NEW c \in Coins, NEW u \in UndoRecord, NEW n \in Outputs
    PROVE  /\ Restore(c, u, n) \in Coins
           /\ Restore(c, u, n) =
                IF u.height # 0 THEN [outs |-> {n}, height |-> u.height, stake |-> FALSE]
                ELSE [outs |-> c.outs \cup {n}, height |-> c.height, stake |-> c.stake]
<1>1. u.height \in {0} \cup {Height[b] : b \in Hashes}
  BY DEF UndoRecord
<1>2. c \in [outs : SUBSET Outputs, height : {0} \cup {Height[b] : b \in Hashes}, stake : BOOLEAN]
  BY CoinsFields
<1>3. [c EXCEPT !.outs = @ \cup {n}] =
        [outs |-> c.outs \cup {n}, height |-> c.height, stake |-> c.stake]
  BY <1>2
<1>4. [outs |-> {n}, height |-> u.height, stake |-> FALSE] \in Coins
  BY <1>1, CoinsMade
<1>5. [outs |-> c.outs \cup {n}, height |-> c.height, stake |-> c.stake] \in Coins
  <2>1. c.outs \cup {n} \in SUBSET Outputs /\ c.outs \cup {n} # {}
        /\ c.height \in {0} \cup {Height[b] : b \in Hashes} /\ c.stake \in BOOLEAN
    BY <1>2
  <2> QED
    BY <2>1, CoinsMade
<1> QED
  BY <1>3, <1>4, <1>5 DEF Restore

\* Spending an output and restoring it from the undo record gives coins alike, and
\* nothing that DisconnectBlock calls unclean.
LEMMA LikeRestore ==
    ASSUME NEW c \in Coins, NEW d \in Coins, NEW n \in d.outs, Like(c, Less(d, {n})),
           d.height # 0, StakesKept /\ d.outs = {n} => ~d.stake,
           NEW u \in UndoRecord, u.height = SpendUndo(d, n).height
    PROVE  Like(Restore(c, u, n), d) /\ RestoreClean(c, u, n)
<1>1. d.outs \in SUBSET Outputs /\ n \in Outputs /\ d.stake \in BOOLEAN
      /\ d = [outs |-> d.outs, height |-> d.height, stake |-> d.stake]
  BY CoinsFields
<1>2. c.outs = d.outs \ {n} /\ (StakesKept => c = Less(d, {n}))
  BY LessFacts DEF Like
<1>3. CASE d.outs = {n}
  <2>1. u.height = d.height
    BY <1>3 DEF SpendUndo
  <2>2. Restore(c, u, n) = [outs |-> {n}, height |-> d.height, stake |-> FALSE]
    BY <1>1, <2>1, RestoreCoins
  <2>3. StakesKept => d.stake = FALSE
    BY <1>1, <1>3
  <2>4. StakesKept => d = [outs |-> {n}, height |-> d.height, stake |-> FALSE]
    BY <1>1, <1>3, <2>3
  <2>5. c = Pruned
    BY <1>2, <1>3, CoinsFields
  <2> QED
    BY <1>2, <1>3, <2>1, <2>2, <2>4, <2>5 DEF Like, RestoreClean
<1>4. CASE d.outs # {n}
  <2>1. u.height = 0
    BY <1>4 DEF SpendUndo
  <2>2. Restore(c, u, n) = [outs |-> c.outs \cup {n}, height |-> c.height, stake |-> c.stake]
    BY <1>1, <2>1, RestoreCoins
  <2>3. Less(d, {n}) = [outs |-> d.outs \ {n}, height |-> d.height, stake |-> d.stake]
    <3>1. ~(d.outs \subseteq {n})
      BY <1>4
    <3> QED
      BY <3>1, LessFacts
  <2>4. c.height = d.height /\ c.outs \cup {n} = d.outs
    BY <1>2, <2>3 DEF Like
  <2>5. StakesKept => c.stake = d.stake
    BY <1>2, <2>3
  <2>6. c # Pruned
    BY <1>2, <1>4, PrunedCoins
  <2>7. StakesKept => Restore(c, u, n) = d
    BY <1>1, <2>2, <2>4, <2>5
  <2> QED
    BY <1>2, <2>1, <2>2, <2>4, <2>6, <2>7 DEF Like, RestoreClean
<1> QED
  BY <1>3, <1>4

LEMMA Lengths ==
    ASSUME NEW b \in Hashes
    PROVE  /\ Len(Vtx[b]) \in Nat /\ DOMAIN Vtx[b] = 1..Len(Vtx[b])
           /\ b # Genesis => Len(Vtx[b]) >= 1
           /\ \A k \in 1..Len(Vtx[b]) :
                /\ Vtx[b][k] \in TxIds
                /\ Len(Vin[Vtx[b][k]]) \in Nat
                /\ DOMAIN Vin[Vtx[b][k]] = 1..Len(Vin[Vtx[b][k]])
                /\ \A l \in 1..Len(Vin[Vtx[b][k]]) :
                     Vin[Vtx[b][k]][l][1] \in TxIds /\ Vin[Vtx[b][k]][l][2] \in Outputs
<1>1. Vtx[b] \in Seq(TxIds) /\ (b # Genesis => Vtx[b] # << >>)
  BY TransactionAssumption
<1>2. ASSUME NEW k \in 1..Len(Vtx[b])
      PROVE  Vtx[b][k] \in TxIds /\ Vin[Vtx[b][k]] \in Seq(TxIds \X Outputs)
  BY <1>1, TransactionAssumption
<1>3. b # Genesis => Len(Vtx[b]) >= 1
  BY <1>1
<1>4. ASSUME NEW k \in 1..Len(Vtx[b]), NEW l \in 1..Len(Vin[Vtx[b][k]])
      PROVE  Vin[Vtx[b][k]][l][1] \in TxIds /\ Vin[Vtx[b][k]][l][2] \in Outputs
  <2>1. Vin[Vtx[b][k]][l] \in TxIds \X Outputs
    BY <1>2
  <2> QED
    BY <2>1
<1> QED
  BY <1>1, <1>2, <1>3, <1>4

LEMMA ParentHash == \A b \in Hashes \ {Genesis} : Parent[b] \in Hashes
  BY TreeAssumption
-----------------------------------------------------------------------------
(* Control, and the undo records *)

\* Where the code is at a transaction, it is one of the block's.
LEMMA TxFacts ==
    ASSUME ControlInv, pc \in {"overwrite", "inputs", "spend", "remove", "restore"}
    PROVE  /\ cur \in Hashes \ {Genesis} /\ Parent[cur] \in Hashes
           /\ i \in Nat /\ 1 <= i /\ i <= Len(Vtx[cur]) /\ i \in DOMAIN Vtx[cur]
           /\ tx = Vtx[cur][i] /\ tx \in TxIds /\ Len(Vtx[cur]) \in Nat
           /\ Len(Vin[tx]) \in Nat /\ DOMAIN Vin[tx] = 1..Len(Vin[tx])
           /\ Range(Vin[tx]) = {Vin[tx][l] : l \in 1..Len(Vin[tx])}
           /\ \A l \in 1..Len(Vin[tx]) : Vin[tx][l][1] \in TxIds /\ Vin[tx][l][2] \in Outputs
<1>1. cur \in Hashes \ {Genesis} /\ i \in 1..Len(Vtx[cur])
  BY DEF ControlInv, Connecting, Applying
<1>2. Parent[cur] \in Hashes
  BY <1>1, ParentHash
<1>3. tx = Vtx[cur][i]
  BY DEF tx
<1>4. /\ Len(Vtx[cur]) \in Nat /\ DOMAIN Vtx[cur] = 1..Len(Vtx[cur])
      /\ tx \in TxIds /\ Len(Vin[tx]) \in Nat /\ DOMAIN Vin[tx] = 1..Len(Vin[tx])
      /\ \A l \in 1..Len(Vin[tx]) : Vin[tx][l][1] \in TxIds /\ Vin[tx][l][2] \in Outputs
  BY <1>1, <1>3, Lengths
<1>5. Range(Vin[tx]) = {Vin[tx][l] : l \in 1..Len(Vin[tx])}
  BY <1>4 DEF Range
<1>6. i \in Nat /\ 1 <= i /\ i <= Len(Vtx[cur]) /\ i \in DOMAIN Vtx[cur]
  BY <1>1, <1>4
<1> QED
  BY <1>1, <1>2, <1>3, <1>4, <1>5, <1>6

\* ControlInv over each group of steps, beginning with those that open a view.
LEMMA BeginControl ==
    ASSUME ControlInv, NEW o \in {"connect", "check", "disconnect", "verify"},
           NEW b \in Hashes \ {Genesis}, Begin(o, b),
           o \in {"connect", "check"} => Parent[b] = active, o = "disconnect" => b = active
    PROVE  ControlInv'
<1>1. /\ pc = "idle" /\ pc' = "best" /\ op' = o /\ cur' = b /\ open' = TRUE
      /\ UNCHANGED <<active, undo, i, j, clean, failed>>
  BY DEF Begin, OpenView
<1> QED
  BY <1>1 DEF ControlInv, Connecting, Working, Applying

\* The end of an operation, for whatever reason.
LEMMA IdleControl ==
    ASSUME ControlInv, Idle, active' \in Hashes, failed' \in BOOLEAN, open' = FALSE
    PROVE  ControlInv'
<1>1. op' = "none" /\ pc' = "idle" /\ cur' = Genesis /\ i' = 0 /\ j' = 0 /\ clean' = TRUE
  BY DEF Idle
<1> QED
  BY <1>1, TreeAssumption DEF ControlInv, Connecting, Working, Applying

\* ConnectBlock.
LEMMA ConnectControl ==
    ASSUME ControlInv, AssertBestBlock \/ CheckOverwrite \/ CheckInputs \/ SpendInput \/ AddOutputs
    PROVE  ControlInv'
<1>1. CASE AssertBestBlock
  <2>1. /\ pc = "best" /\ open' = open /\ UNCHANGED <<active, undo, op, cur, j, clean, failed>>
        /\ Connecting => pc' = "overwrite" /\ i' = 1
        /\ ~Connecting /\ undo[cur] = NoUndo => pc' = "abandon" /\ i' = i
        /\ ~Connecting /\ undo[cur] # NoUndo => pc' = "remove" /\ i' = Len(Vtx[cur])
    BY <1>1 DEF AssertBestBlock, GetBestBlock
  <2>2. cur \in Hashes \ {Genesis} /\ Len(Vtx[cur]) \in Nat /\ Len(Vtx[cur]) >= 1
    BY <2>1, Lengths DEF ControlInv, Connecting
  <2>3. 1 \in 1..Len(Vtx[cur]) /\ Len(Vtx[cur]) \in 1..Len(Vtx[cur])
    BY <2>2
  <2> QED
    BY <2>1, <2>2, <2>3 DEF ControlInv, Connecting, Working, Applying
<1>2. CASE CheckOverwrite
  <2>1. /\ pc = "overwrite" /\ open' = open /\ UNCHANGED <<active, undo, op, cur, clean, failed>>
        /\ \/ pc' = "abandon" /\ UNCHANGED <<i, j>>
           \/ i < Len(Vtx[cur]) /\ i' = i + 1 /\ UNCHANGED <<pc, j>>
           \/ pc' = "inputs" /\ i' = 1 /\ j' = 1
    BY <1>2 DEF CheckOverwrite, Access
  <2>2. /\ i \in 1..Len(Vtx[cur]) /\ Len(Vtx[cur]) \in Nat /\ cur \in Hashes
        /\ 1 \in 1..Len(Vtx[cur])
    BY <2>1, TxFacts DEF ControlInv
  <2>3. 1 \in 1..(Len(Vin[Vtx[cur][1]]) + 1)
    BY <2>2, Lengths
  <2>4. tx' = Vtx[cur][i']
    BY <2>1 DEF tx
  <2> QED
    BY <2>1, <2>2, <2>3, <2>4 DEF ControlInv, Connecting, Working, Applying
<1>3. CASE CheckInputs
  <2>1. /\ pc = "inputs" /\ open' = open /\ UNCHANGED <<active, undo, op, cur, i, clean, failed>>
        /\ \/ j <= Len(Vin[tx]) /\ j' = j + 1 /\ pc' = pc
           \/ pc' = "spend" /\ j' = 1
           \/ pc' = "abandon" /\ j' = j
    BY <1>3 DEF CheckInputs, Access, cacheVars
  <2>2. j \in 1..(Len(Vin[tx]) + 1) /\ Len(Vin[tx]) \in Nat /\ tx' = tx
    BY <2>1, TxFacts DEF ControlInv, tx
  <2>3. 1 \in 1..(Len(Vin[tx]) + 1)
    BY <2>2
  <2> QED
    BY <2>1, <2>2, <2>3 DEF ControlInv, Connecting, Working, Applying
<1>4. CASE SpendInput
  <2>1. /\ pc = "spend" /\ j <= Len(Vin[tx]) /\ j' = j + 1
        /\ open' = open /\ UNCHANGED <<active, undo, op, pc, cur, i, clean, failed>>
    BY <1>4 DEF SpendInput, Modify
  <2>2. j \in 1..(Len(Vin[tx]) + 1) /\ Len(Vin[tx]) \in Nat /\ tx' = tx
    BY <2>1, TxFacts DEF ControlInv, tx
  <2> QED
    BY <2>1, <2>2 DEF ControlInv, Connecting, Working, Applying
<1>5. CASE AddOutputs
  <2>1. /\ pc = "spend" /\ open' = open /\ UNCHANGED <<active, undo, op, cur, clean, failed>>
        /\ \/ i < Len(Vtx[cur]) /\ pc' = "inputs" /\ i' = i + 1 /\ j' = 1
           \/ pc' = "finish" /\ UNCHANGED <<i, j>>
    BY <1>5 DEF AddOutputs, Modify
  <2>2. i \in 1..Len(Vtx[cur]) /\ Len(Vtx[cur]) \in Nat /\ cur \in Hashes
    BY <2>1, TxFacts
  <2>3. pc' = "inputs" => i' \in 1..Len(Vtx[cur]) /\ 1 \in 1..(Len(Vin[Vtx[cur][i']]) + 1)
    <3> SUFFICES ASSUME pc' = "inputs"
                 PROVE  i' \in 1..Len(Vtx[cur]) /\ 1 \in 1..(Len(Vin[Vtx[cur][i']]) + 1)
      OBVIOUS
    <3>1. i' \in 1..Len(Vtx[cur])
      BY <2>1, <2>2
    <3>2. Len(Vin[Vtx[cur][i']]) \in Nat
      BY <2>2, <3>1, Lengths
    <3> QED
      BY <3>1, <3>2
  <2>4. tx' = Vtx[cur][i']
    BY <2>1 DEF tx
  <2> QED
    BY <2>1, <2>2, <2>3, <2>4 DEF ControlInv, Connecting, Working, Applying
<1> QED
  BY <1>1, <1>2, <1>3, <1>4, <1>5

\* DisconnectBlock.
LEMMA DisconnectControl ==
    ASSUME ControlInv, undo \in [Hashes -> BlockUndo \cup {NoUndo}],
           RemoveOutputs \/ RestoreInput \/ NextRemoved \/ FinishDisconnect
    PROVE  ControlInv'
<1>1. CASE RemoveOutputs
  <2>1. /\ pc = "remove" /\ pc' = "restore" /\ j' = Len(Vin[tx]) /\ clean' \in BOOLEAN
        /\ open' = open /\ UNCHANGED <<active, undo, op, cur, i, failed>>
    BY <1>1 DEF RemoveOutputs, Modify
  <2>2. Len(Vin[tx]) \in Nat /\ tx' = tx
    BY <2>1, TxFacts DEF tx
  <2>3. Len(Vin[tx]) \in 0..Len(Vin[tx])
    BY <2>2
  <2> QED
    BY <2>1, <2>2, <2>3 DEF ControlInv, Connecting, Working, Applying
<1>2. CASE RestoreInput
  <2>1. /\ pc = "restore" /\ j > 0 /\ j' = j - 1 /\ clean' \in BOOLEAN
        /\ open' = open /\ UNCHANGED <<active, undo, op, pc, cur, i, failed>>
    BY <1>2 DEF RestoreInput, Modify
  <2>2. Len(Vin[tx]) \in Nat /\ tx' = tx
    BY <2>1, TxFacts DEF tx
  <2>3. j' \in 0..Len(Vin[tx])
    BY <2>1, <2>2 DEF ControlInv
  <2> QED
    BY <2>1, <2>2, <2>3 DEF ControlInv, Connecting, Working, Applying
<1>3. CASE NextRemoved
  <2>1. /\ pc = "restore" /\ i > 1 /\ i' = i - 1 /\ pc' = "remove"
        /\ open' = open /\ UNCHANGED <<active, undo, op, cur, j, clean, failed>>
    BY <1>3 DEF NextRemoved, cacheVars
  <2>2. i \in 1..Len(Vtx[cur]) /\ Len(Vtx[cur]) \in Nat
    BY <2>1, TxFacts
  <2>3. i' \in 1..Len(Vtx[cur])
    BY <2>1, <2>2
  <2> QED
    BY <2>1, <2>2, <2>3 DEF ControlInv, Connecting, Working, Applying
<1>4. CASE FinishDisconnect
  <2>1. /\ pc = "restore" /\ viewBest' = Parent[cur]
        /\ op = "verify" => pc' = "moved"
        /\ op # "verify" => pc' \in {"flushview", "abandon"}
        /\ open' = open /\ UNCHANGED <<active, undo, op, cur, i, j, clean, failed>>
    BY <1>4 DEF FinishDisconnect, SetBestBlock, jobVars
  <2>2. op \in {"disconnect", "verify"}
    BY <2>1 DEF ControlInv
  <2> QED
    BY <2>1, <2>2 DEF ControlInv, Connecting, Working, Applying, Target
<1> QED
  BY <1>1, <1>2, <1>3, <1>4

\* The end of ConnectBlock, VerifyDB's next block, and FlushStateToDisk.
LEMMA FinishControl ==
    ASSUME ControlInv, undo \in [Hashes -> BlockUndo \cup {NoUndo}], blockundo \in BlockUndo,
           FinishConnect \/ VerifyNext \/ FlushView \/ WriteIndex \/ WriteCoins
    PROVE  ControlInv'
<1>1. CASE FinishConnect
  <2>1. /\ pc = "finish" /\ pc' = "flushview" /\ op = "connect" /\ viewBest' = cur
        /\ undo' = [undo EXCEPT ![cur] = IF @ = NoUndo THEN blockundo ELSE @]
        /\ open' = open /\ UNCHANGED <<active, op, cur, i, j, clean, failed>>
    BY <1>1 DEF FinishConnect, SetBestBlock, jobVars
  <2>2. undo'[cur] # NoUndo
    BY <2>1, NoUndoAssumption DEF ControlInv
  <2> QED
    BY <2>1, <2>2 DEF ControlInv, Connecting, Working, Applying, Target
<1>2. CASE VerifyNext
  <2>1. /\ pc = "moved" /\ op = "verify" /\ Parent[cur] # Genesis
        /\ cur' = Parent[cur] /\ pc' = "best" /\ clean' = TRUE
        /\ open' = open /\ UNCHANGED <<active, undo, op, i, j, failed>>
    BY <1>2 DEF VerifyNext, cacheVars
  <2>2. Parent[cur] \in Hashes
    BY <2>1, ParentHash DEF ControlInv
  <2> QED
    BY <2>1, <2>2 DEF ControlInv, Connecting, Working, Applying
<1>3. CASE FlushView
  <2>1. /\ pc = "flushview" /\ pc' = "committed" /\ open' = FALSE
        /\ UNCHANGED <<active, undo, op, cur, i, j, clean, failed>>
    BY <1>3 DEF FlushView, Commit, jobVars
  <2> QED
    BY <2>1 DEF ControlInv, Connecting, Working, Applying
<1>4. CASE WriteIndex
  <2>1. /\ \/ pc = "committed" /\ op' = op
           \/ pc = "idle" /\ op' = "flush"
        /\ pc' = "indexed" /\ open' = open /\ UNCHANGED <<active, undo, cur, i, j, clean, failed>>
    BY <1>4 DEF WriteIndex, cacheVars
  <2> QED
    BY <2>1 DEF ControlInv, Connecting, Working, Applying
<1>5. CASE WriteCoins
  <2>1. /\ pc = "indexed" /\ pc' = "flushed" /\ open' = open
        /\ UNCHANGED <<active, undo, op, cur, i, j, clean, failed>>
    BY <1>5 DEF WriteCoins, FlushTip, viewVars, jobVars
  <2> QED
    BY <2>1 DEF ControlInv, Connecting, Working, Applying
<1> QED
  BY <1>1, <1>2, <1>3, <1>4, <1>5

LEMMA ReadControl ==
    ASSUME ControlInv, NEW t \in TxIds, ReadTip(t)
    PROVE  ControlInv'
<1>1. pc = "idle" /\ UNCHANGED <<active, undo, op, pc, cur, i, j, clean, failed, open, viewBest>>
  BY DEF ReadTip, TipAccess, viewVars, jobVars
<1> QED
  BY <1>1 DEF ControlInv, Connecting, Working, Applying
-----------------------------------------------------------------------------
(* Every step is a step of the stack of views, so CacheInv is preserved. *)

\* DisconnectBlock finds an undo record for every input.
LEMMA UndoRecordIs ==
    ASSUME ControlInv, UndoInv(undo), pc \in {"remove", "restore"}, NEW k \in DOMAIN Vin[tx]
    PROVE  undo[cur][i][k] \in UndoRecord
<1>1. UndoFits(cur, undo[cur]) /\ i \in DOMAIN Vtx[cur] /\ tx = Vtx[cur][i]
  BY TxFacts DEF ControlInv, UndoInv
<1>2. undo[cur] \in Seq(Seq(UndoRecord)) /\ Len(undo[cur]) = Len(Vtx[cur])
      /\ Len(undo[cur][i]) = Len(Vin[tx])
  BY <1>1 DEF UndoFits, BlockUndo
<1>3. i \in DOMAIN undo[cur]
  BY <1>2, TxFacts
<1>4. undo[cur][i] \in Seq(UndoRecord)
  BY <1>2, <1>3
<1>5. k \in DOMAIN undo[cur][i]
  BY <1>2, <1>4, TxFacts
<1> QED
  BY <1>4, <1>5

\* The call on the views that each step makes, with coins that are coins.
LEMMA SpendModifies ==
    ASSUME CacheInv, ControlInv, SpendInput
    PROVE  /\ prevout = Vin[Vtx[cur][i]][j] /\ prevout[1] \in TxIds
           /\ ViewCoins(prevout[1]) \in Coins /\ prevout[2] \in ViewCoins(prevout[1]).outs
           /\ Spend(ViewCoins(prevout[1]), prevout[2]) \in Coins
           /\ Modify(prevout[1], Spend(ViewCoins(prevout[1]), prevout[2]))
           /\ SpendUndo(ViewCoins(prevout[1]), prevout[2]) \in UndoRecord
           /\ j \in DOMAIN Vin[Vtx[cur][i]]
<1>1. pc = "spend" /\ j <= Len(Vin[tx]) /\ prevout[2] \in ViewCoins(prevout[1]).outs
      /\ Modify(prevout[1], Spend(ViewCoins(prevout[1]), prevout[2]))
  BY DEF SpendInput
<1>2. tx = Vtx[cur][i] /\ j \in 1..Len(Vin[tx]) /\ j \in DOMAIN Vin[tx]
  BY <1>1, TxFacts DEF ControlInv
<1>3. prevout = Vin[tx][j]
  BY DEF prevout
<1>4. prevout[1] \in TxIds
  BY <1>1, <1>2, <1>3, TxFacts
<1>5. ViewCoins(prevout[1]) \in Coins
  BY <1>4, Shapes
<1> QED
  BY <1>1, <1>2, <1>3, <1>4, <1>5, SpendFacts

LEMMA AddModifies ==
    ASSUME ControlInv, AddOutputs
    PROVE  /\ tx = Vtx[cur][i] /\ tx \in TxIds
           /\ FromTx(tx, Height[cur]) \in Coins /\ Modify(tx, FromTx(tx, Height[cur]))
<1>1. pc = "spend" /\ Modify(tx, FromTx(tx, Height[cur]))
  BY DEF AddOutputs
<1> QED
  BY <1>1, TxFacts, FromTxCoins

LEMMA RemoveModifies ==
    ASSUME ControlInv, RemoveOutputs
    PROVE  tx = Vtx[cur][i] /\ tx \in TxIds /\ Pruned \in Coins /\ Modify(tx, Pruned)
<1>1. pc = "remove" /\ Modify(tx, Pruned)
  BY DEF RemoveOutputs
<1> QED
  BY <1>1, TxFacts, PrunedCoins

LEMMA RestoreModifies ==
    ASSUME CacheInv, ControlInv, UndoInv(undo), RestoreInput
    PROVE  /\ prevout = Vin[Vtx[cur][i]][j] /\ prevout[1] \in TxIds /\ prevout[2] \in Outputs
           /\ ViewCoins(prevout[1]) \in Coins /\ undo[cur][i][j] \in UndoRecord
           /\ Restore(ViewCoins(prevout[1]), undo[cur][i][j], prevout[2]) \in Coins
           /\ Modify(prevout[1], Restore(ViewCoins(prevout[1]), undo[cur][i][j], prevout[2]))
           /\ j \in DOMAIN Vin[Vtx[cur][i]]
<1>1. pc = "restore" /\ j > 0
      /\ Modify(prevout[1], Restore(ViewCoins(prevout[1]), undo[cur][i][j], prevout[2]))
  BY DEF RestoreInput
<1>2. tx = Vtx[cur][i] /\ Len(Vin[tx]) \in Nat /\ DOMAIN Vin[tx] = 1..Len(Vin[tx])
  BY <1>1, TxFacts
<1>3. j \in 1..Len(Vin[tx]) /\ j \in DOMAIN Vin[tx]
  BY <1>1, <1>2 DEF ControlInv
<1>4. prevout = Vin[tx][j]
  BY DEF prevout
<1>5. prevout[1] \in TxIds /\ prevout[2] \in Outputs
  BY <1>1, <1>3, <1>4, TxFacts
<1>6. ViewCoins(prevout[1]) \in Coins
  BY <1>5, Shapes
<1>7. undo[cur][i][j] \in UndoRecord
  BY <1>1, <1>3, UndoRecordIs
<1> QED
  BY <1>1, <1>2, <1>3, <1>4, <1>5, <1>6, <1>7, RestoreCoins

LEMMA TxIsId ==
    ASSUME ControlInv, CheckOverwrite
    PROVE  tx \in TxIds
<1>1. pc = "overwrite"
  BY DEF CheckOverwrite
<1> QED
  BY <1>1, TxFacts

LEMMA InputIsId ==
    ASSUME ControlInv, pc = "inputs", j <= Len(Vin[tx])
    PROVE  /\ prevout = Vin[Vtx[cur][i]][j] /\ prevout[1] \in TxIds /\ prevout[2] \in Outputs
           /\ j \in DOMAIN Vin[Vtx[cur][i]]
<1>1. j \in 1..Len(Vin[tx]) /\ prevout = Vin[tx][j] /\ tx = Vtx[cur][i]
  BY TxFacts DEF ControlInv, prevout
<1> QED
  BY <1>1, TxFacts

\* Every step is a step of the stack of views, or leaves it alone.
LEMMA CacheStep ==
    ASSUME CacheInv, ControlInv, UndoInv(undo), Next
    PROVE  [CacheNext]_cacheVars
<1>1. CASE \E b \in Hashes : ConnectTip(b) \/ TestBlockValidity(b)
  BY <1>1 DEF ConnectTip, TestBlockValidity, Begin, CacheNext
<1>2. CASE DisconnectTip \/ VerifyDB
  BY <1>2 DEF DisconnectTip, VerifyDB, Begin, CacheNext
<1>3. CASE AssertBestBlock
  BY <1>3 DEF AssertBestBlock, CacheNext
<1>4. CASE CheckOverwrite
  <2>1. tx \in TxIds /\ Access(tx)
    BY <1>4, TxIsId DEF CheckOverwrite
  <2> QED
    BY <2>1 DEF CacheNext
<1>5. CASE CheckInputs
  <2>1. CASE UNCHANGED cacheVars
    BY <2>1
  <2>2. CASE ~UNCHANGED cacheVars
    <3>1. pc = "inputs" /\ j <= Len(Vin[tx]) /\ Access(prevout[1])
      BY <1>5, <2>2 DEF CheckInputs
    <3>2. prevout[1] \in TxIds
      BY <3>1, InputIsId
    <3> QED
      BY <3>1, <3>2 DEF CacheNext
  <2> QED
    BY <2>1, <2>2
<1>6. CASE SpendInput
  <2>1. PICK c : c = Spend(ViewCoins(prevout[1]), prevout[2])
    OBVIOUS
  <2>2. prevout[1] \in TxIds /\ c \in Coins /\ Modify(prevout[1], c)
    BY <1>6, <2>1, SpendModifies
  <2> QED
    BY <2>2 DEF CacheNext
<1>7. CASE AddOutputs
  <2>1. PICK c : c = FromTx(tx, Height[cur])
    OBVIOUS
  <2>2. tx \in TxIds /\ c \in Coins /\ Modify(tx, c)
    BY <1>7, <2>1, AddModifies
  <2> QED
    BY <2>2 DEF CacheNext
<1>8. CASE FinishConnect
  BY <1>8 DEF FinishConnect, ControlInv, CacheNext
<1>9. CASE Abandon
  BY <1>9 DEF Abandon, CacheNext
<1>10. CASE RemoveOutputs
  <2>1. tx \in TxIds /\ Pruned \in Coins /\ Modify(tx, Pruned)
    BY <1>10, RemoveModifies
  <2> QED
    BY <2>1 DEF CacheNext
<1>11. CASE RestoreInput
  <2>1. PICK c : c = Restore(ViewCoins(prevout[1]), undo[cur][i][j], prevout[2])
    OBVIOUS
  <2>2. prevout[1] \in TxIds /\ c \in Coins /\ Modify(prevout[1], c)
    BY <1>11, <2>1, RestoreModifies
  <2> QED
    BY <2>2 DEF CacheNext
<1>12. CASE NextRemoved \/ VerifyNext \/ WriteIndex \/ UpdateTip
  BY <1>12 DEF NextRemoved, VerifyNext, WriteIndex, UpdateTip
<1>13. CASE FinishDisconnect
  <2>1. pc = "restore" /\ SetBestBlock(Parent[cur])
    BY <1>13 DEF FinishDisconnect
  <2>2. Parent[cur] \in Hashes
    BY <2>1, TxFacts
  <2> QED
    BY <2>1, <2>2 DEF CacheNext
<1>14. CASE FlushView
  BY <1>14 DEF FlushView, CacheNext
<1>15. CASE WriteCoins \/ WriteCoinsFails \/ Restart
  BY <1>15 DEF WriteCoins, WriteCoinsFails, Restart, CacheNext
<1>16. CASE \E t \in TxIds : ReadTip(t)
  BY <1>16 DEF ReadTip, CacheNext
<1> QED
  BY <1>1, <1>2, <1>3, <1>4, <1>5, <1>6, <1>7, <1>8, <1>9, <1>10, <1>11, <1>12, <1>13, <1>14,
     <1>15, <1>16 DEF Next
\* UpdateTip sets the tip to the block the coins stand for, with no view open.
LEMMA NewTip ==
    ASSUME ControlInv, UpdateTip
    PROVE  /\ pc \in {"committed", "flushed"} /\ active' \in Hashes /\ active' = Target
           /\ open = FALSE /\ open' = FALSE
<1>1. /\ \/ pc = "flushed"
         \/ pc = "committed" /\ op = "connect"
      /\ UNCHANGED cacheVars
      /\ active' = CASE op = "connect" -> cur
                     [] op = "disconnect" -> Parent[cur]
                     [] OTHER -> active
  BY DEF UpdateTip
<1>2. active' = Target
  BY <1>1 DEF Target
<1>3. Target \in Hashes
  BY ParentHash DEF ControlInv, Target
<1>4. open = FALSE
  BY <1>1 DEF ControlInv, Working
<1> QED
  BY <1>1, <1>2, <1>3, <1>4 DEF cacheVars

LEMMA ControlStep ==
    ASSUME CacheInv, ControlInv, UndoInv(undo), blockundo \in BlockUndo, Next
    PROVE  ControlInv'
<1>1. CASE \E b \in Hashes : ConnectTip(b) \/ TestBlockValidity(b)
  BY <1>1, BeginControl DEF ConnectTip, TestBlockValidity
<1>2. CASE DisconnectTip \/ VerifyDB
  <2>1. active \in Hashes
    BY DEF ControlInv
  <2> QED
    BY <1>2, <2>1, BeginControl DEF DisconnectTip, VerifyDB
<1>3. CASE AssertBestBlock \/ CheckOverwrite \/ CheckInputs \/ SpendInput \/ AddOutputs
  BY <1>3, ConnectControl
<1>4. CASE RemoveOutputs \/ RestoreInput \/ NextRemoved \/ FinishDisconnect
  BY <1>4, DisconnectControl DEF UndoInv
<1>5. CASE FinishConnect \/ VerifyNext \/ FlushView \/ WriteIndex \/ WriteCoins
  BY <1>5, FinishControl DEF UndoInv
<1>6. CASE Abandon
  <2>1. Idle /\ open' = FALSE /\ UNCHANGED <<active, failed>>
    BY <1>6 DEF Abandon, Discard
  <2> QED
    BY <2>1, IdleControl DEF ControlInv
<1>7. CASE WriteCoinsFails
  <2>1. Idle /\ pc = "indexed" /\ open' = open /\ active' = active /\ failed' = TRUE
    BY <1>7 DEF WriteCoinsFails, FlushTipFails, viewVars
  <2>2. open = FALSE
    BY <2>1 DEF ControlInv, Working
  <2> QED
    BY <2>1, <2>2, IdleControl DEF ControlInv
<1>8. CASE UpdateTip
  <2>1. Idle /\ failed' = failed
    BY <1>8 DEF UpdateTip
  <2> QED
    BY <1>8, <2>1, NewTip, IdleControl DEF ControlInv
<1>9. CASE \E t \in TxIds : ReadTip(t)
  BY <1>9, ReadControl
<1>10. CASE Restart
  <2>1. Idle /\ open' = FALSE /\ active' = dbBest /\ failed' = failed
    BY <1>10 DEF Restart, Crash
  <2>2. dbBest \in Hashes
    BY DEF CacheInv, CacheTypeOK
  <2> QED
    BY <2>1, <2>2, IdleControl DEF ControlInv
<1> QED
  BY <1>1, <1>2, <1>3, <1>4, <1>5, <1>6, <1>7, <1>8, <1>9, <1>10 DEF Next
-----------------------------------------------------------------------------
(* The undo data of the block being connected *)

\* RecordsInv where there is no undo data yet, or no more.
LEMMA RecordsEmpty ==
    ASSUME blockundo' = << >>, pc' \notin {"spend", "finish"}, pc' = "inputs" => i' = 1
    PROVE  RecordsInv'
<1>1. blockundo' \in BlockUndo /\ Len(blockundo') = 0 /\ DOMAIN blockundo' = {}
  BY DEF BlockUndo
<1> QED
  BY <1>1 DEF RecordsInv, Connecting

\* Outside of ConnectBlock's loops the undo data only stays as it is.
LEMMA RecordsKept ==
    ASSUME RecordsInv, blockundo' = blockundo, pc' \notin Applying,
           ~Connecting' \/ pc' = "best" => ~Connecting \/ pc \in {"best", "overwrite"}
    PROVE  RecordsInv'
  BY DEF RecordsInv, Applying

LEMMA RecordsIdle ==
    ASSUME Idle
    PROVE  RecordsInv'
  BY RecordsEmpty DEF Idle

\* CheckInputs opens a record for the transaction when all its inputs were found.
LEMMA RecordsInputs ==
    ASSUME ControlInv, RecordsInv, CheckInputs
    PROVE  RecordsInv'
<1>1. /\ pc = "inputs" /\ UNCHANGED <<op, cur, i, failed>> /\ pc' \in {"inputs", "spend", "abandon"}
      /\ pc' # "spend" => blockundo' = blockundo
      /\ pc' = "spend" => j' = 1 /\ blockundo' = Append(blockundo, << >>)
  BY DEF CheckInputs
<1>2. Connecting /\ Connecting' /\ i \in Nat /\ 1 <= i
  BY <1>1, TxFacts DEF ControlInv, Connecting, Applying
<1>3. blockundo \in Seq(Seq(UndoRecord)) /\ Len(blockundo) = i - 1
      /\ \A k \in DOMAIN blockundo :
            /\ Len(blockundo[k]) = Len(Vin[Vtx[cur][k]])
            /\ ~failed => \A l \in DOMAIN blockundo[k] :
                    blockundo[k][l].height = UndoHeight(cur, k, l)
  BY <1>1 DEF RecordsInv, BlockUndo, Applying
<1>4. CASE pc' = "inputs"
  <2>1. UNCHANGED <<op, cur, i, failed, pc, blockundo>>
    BY <1>1, <1>4
  <2> QED
    BY <1>2, <1>3, <2>1, <1>4 DEF RecordsInv, BlockUndo, UndoHeight
<1>5. CASE pc' = "abandon"
  BY <1>1, <1>2, <1>5, RecordsKept DEF Applying
<1>6. CASE pc' = "spend"
  <2>1. blockundo' = Append(blockundo, << >>) /\ j' = 1
    BY <1>1, <1>6
  <2>2. << >> \in Seq(UndoRecord) /\ Len(<< >>) = 0 /\ DOMAIN << >> = {}
    OBVIOUS
  <2>3. blockundo' \in Seq(Seq(UndoRecord)) /\ Len(blockundo') = i /\ blockundo'[i] = << >>
    BY <1>2, <1>3, <2>1, <2>2
  <2>4. \A k \in DOMAIN blockundo' : k # i => k \in DOMAIN blockundo /\ blockundo'[k] = blockundo[k]
    BY <1>2, <1>3, <2>1, <2>3
  <2>5. ASSUME NEW k \in DOMAIN blockundo'
        PROVE  /\ k # i => Len(blockundo'[k]) = Len(Vin[Vtx[cur][k]])
               /\ ~failed => \A l \in DOMAIN blockundo'[k] :
                       blockundo'[k][l].height = UndoHeight(cur, k, l)
    <3>1. CASE k = i
      <4>1. blockundo'[k] = << >>
        BY <2>3, <3>1
      <4> QED
        BY <2>2, <3>1, <4>1
    <3>2. CASE k # i
      BY <1>3, <2>4, <3>2
    <3> QED
      BY <3>1, <3>2
  <2>6. UNCHANGED <<cur, i, failed>>
    BY <1>1
  <2>7. Len(blockundo'[i']) = j' - 1
    BY <2>1, <2>2, <2>3, <2>6
  <2>8. \A k \in DOMAIN blockundo' :
            /\ (pc' = "spend" => k # i') => Len(blockundo'[k]) = Len(Vin[Vtx[cur'][k]])
            /\ ~failed' => \A l \in DOMAIN blockundo'[k] :
                    blockundo'[k][l].height = UndoHeight(cur', k, l)
    BY <1>6, <2>5, <2>6
  <2>9. blockundo' \in BlockUndo /\ Len(blockundo') = i' /\ Connecting'
    BY <1>2, <2>3, <2>6 DEF BlockUndo
  <2> QED
    BY <1>6, <2>7, <2>8, <2>9 DEF RecordsInv, UndoHeight
<1> QED
  BY <1>1, <1>4, <1>5, <1>6

\* The record of a spent input has the height that the reference gives it.
LEMMA RecordsSpend ==
    ASSUME CacheInv, ControlInv, RecordsInv, SpendInput,
           ~failed => Shows(CoinsAt(cur, i, j - 1))
    PROVE  RecordsInv'
<1> DEFINE n == prevout[2]
           c == ViewCoins(prevout[1])
           d == CoinsAt(cur, i, j - 1)[prevout[1]]
<1>1. /\ pc = "spend" /\ pc' = "spend" /\ j' = j + 1
      /\ blockundo' = [blockundo EXCEPT ![i] = Append(@, SpendUndo(c, n))]
      /\ UNCHANGED <<op, cur, i, failed>>
  BY DEF SpendInput
<1>2. Connecting' /\ i \in Nat /\ 1 <= i /\ j \in Nat /\ 1 <= j /\ cur \in Hashes \ {Genesis}
  BY <1>1, TxFacts DEF ControlInv, Connecting, Applying
<1>3. blockundo \in Seq(Seq(UndoRecord)) /\ Len(blockundo) = i /\ Len(blockundo[i]) = j - 1
      /\ \A k \in DOMAIN blockundo :
            /\ k # i => Len(blockundo[k]) = Len(Vin[Vtx[cur][k]])
            /\ ~failed => \A l \in DOMAIN blockundo[k] :
                    blockundo[k][l].height = UndoHeight(cur, k, l)
  BY <1>1 DEF RecordsInv, BlockUndo, Applying
<1>4. prevout = Vin[Vtx[cur][i]][j] /\ prevout[1] \in TxIds /\ c \in Coins /\ n \in c.outs
      /\ SpendUndo(c, n) \in UndoRecord
  BY SpendModifies
<1>5. ~failed => SpendUndo(c, n).height = UndoHeight(cur, i, j)
  <2> SUFFICES ASSUME ~failed PROVE SpendUndo(c, n).height = UndoHeight(cur, i, j)
    OBVIOUS
  <2>1. d \in Coins
    BY <1>2, <1>4, SourceCoins
  <2>2. Like(c, d)
    BY <1>4 DEF Shows
  <2>3. n \in d.outs
    BY <1>4, <2>2 DEF Like
  <2>4. SpendUndo(c, n).height = SpendUndo(d, n).height
    BY <1>4, <2>1, <2>2, <2>3, LikeSpend
  <2> QED
    BY <1>4, <2>4 DEF UndoHeight
<1>6. PICK r \in UndoRecord : r = SpendUndo(c, n)
  BY <1>4
<1>7. PICK s : s = blockundo[i]
  OBVIOUS
<1>8. i \in DOMAIN blockundo /\ s \in Seq(UndoRecord) /\ Len(s) = j - 1
  BY <1>2, <1>3, <1>7
<1>9. Append(s, r) \in Seq(UndoRecord) /\ Len(Append(s, r)) = j /\ Append(s, r)[j] = r
      /\ \A l \in DOMAIN Append(s, r) : l # j => l \in DOMAIN s /\ Append(s, r)[l] = s[l]
  BY <1>2, <1>8
<1>10. blockundo' = [blockundo EXCEPT ![i] = Append(s, r)]
  BY <1>1, <1>6, <1>7
<1>11. blockundo' \in Seq(Seq(UndoRecord)) /\ Len(blockundo') = i /\ blockundo'[i] = Append(s, r)
       /\ DOMAIN blockundo' = DOMAIN blockundo
       /\ \A k \in DOMAIN blockundo : k # i => blockundo'[k] = blockundo[k]
  BY <1>3, <1>8, <1>9, <1>10
<1>12. ASSUME NEW k \in DOMAIN blockundo'
       PROVE  /\ k # i => Len(blockundo'[k]) = Len(Vin[Vtx[cur][k]])
              /\ ~failed => \A l \in DOMAIN blockundo'[k] :
                      blockundo'[k][l].height = UndoHeight(cur, k, l)
  <2>1. CASE k # i
    BY <1>3, <1>11, <2>1
  <2>2. CASE k = i
    <3> SUFFICES ASSUME ~failed, NEW l \in DOMAIN Append(s, r)
                 PROVE  Append(s, r)[l].height = UndoHeight(cur, i, l)
      BY <1>11, <2>2
    <3>1. CASE l = j
      BY <1>5, <1>6, <1>9, <3>1
    <3>2. CASE l # j
      BY <1>3, <1>7, <1>8, <1>9, <3>2
    <3> QED
      BY <3>1, <3>2
  <2> QED
    BY <2>1, <2>2
<1>13. UNCHANGED <<cur, i, failed>>
  BY <1>1
<1>14. Len(blockundo'[i']) = j' - 1
  BY <1>1, <1>2, <1>9, <1>11
<1>15. \A k \in DOMAIN blockundo' :
            /\ (pc' = "spend" => k # i') => Len(blockundo'[k]) = Len(Vin[Vtx[cur'][k]])
            /\ ~failed' => \A l \in DOMAIN blockundo'[k] :
                    blockundo'[k][l].height = UndoHeight(cur', k, l)
  BY <1>1, <1>12, <1>13
<1>16. blockundo' \in BlockUndo /\ Len(blockundo') = i' /\ Connecting' /\ pc' = "spend"
  BY <1>1, <1>2, <1>11, <1>13 DEF BlockUndo
<1> QED
  BY <1>14, <1>15, <1>16 DEF RecordsInv, UndoHeight

\* When all inputs are spent the transaction's record is complete.
LEMMA RecordsAdd ==
    ASSUME ControlInv, RecordsInv, AddOutputs
    PROVE  RecordsInv'
<1>1. /\ pc = "spend" /\ j > Len(Vin[tx]) /\ UNCHANGED <<op, cur, failed, blockundo>>
      /\ \/ pc' = "inputs" /\ i' = i + 1
         \/ pc' = "finish" /\ i' = i /\ i >= Len(Vtx[cur])
  <2>1. pc = "spend" => i \in Nat /\ Len(Vtx[cur]) \in Nat
    BY TxFacts
  <2> QED
    BY <2>1 DEF AddOutputs
<1>2. /\ Connecting /\ Connecting' /\ i \in Nat /\ 1 <= i /\ i <= Len(Vtx[cur])
      /\ Len(Vtx[cur]) \in Nat
      /\ j = Len(Vin[tx]) + 1 /\ Len(Vin[tx]) \in Nat /\ tx = Vtx[cur][i]
  BY <1>1, TxFacts DEF ControlInv, Connecting, Applying
<1>3. /\ blockundo \in BlockUndo /\ Len(blockundo) = i /\ Len(blockundo[i]) = j - 1
      /\ \A k \in DOMAIN blockundo :
            /\ k # i => Len(blockundo[k]) = Len(Vin[Vtx[cur][k]])
            /\ ~failed => \A l \in DOMAIN blockundo[k] :
                    blockundo[k][l].height = UndoHeight(cur, k, l)
  BY <1>1 DEF RecordsInv, Applying
<1>4. \A k \in DOMAIN blockundo : Len(blockundo[k]) = Len(Vin[Vtx[cur][k]])
  BY <1>2, <1>3
<1>5. pc' = "inputs" => Len(blockundo) = i' - 1
  BY <1>1, <1>2, <1>3
<1>6. pc' = "finish" => Len(blockundo) = Len(Vtx[cur])
  BY <1>1, <1>2, <1>3
<1>7. blockundo' = blockundo /\ cur' = cur /\ failed' = failed /\ pc' \in {"inputs", "finish"}
  BY <1>1
<1> QED
  BY <1>2, <1>3, <1>4, <1>5, <1>6, <1>7 DEF RecordsInv, UndoHeight

LEMMA RecordsStep ==
    ASSUME CacheInv, ControlInv, RecordsInv, Next,
           ~failed /\ pc = "spend" => Shows(CoinsAt(cur, i, j - 1))
    PROVE  RecordsInv'
<1>1. CASE pc = "idle" /\ \E o, b : Begin(o, b)
  BY <1>1, RecordsKept DEF Begin, RecordsInv, ControlInv, Connecting, Applying
<1>2. CASE AssertBestBlock \/ CheckOverwrite
  <2>1. blockundo' = blockundo /\ pc \in {"best", "overwrite"}
        /\ pc' \in {"overwrite", "inputs", "abandon", "remove"} /\ (pc' = "inputs" => i' = 1)
    BY <1>2 DEF AssertBestBlock, CheckOverwrite
  <2> QED
    BY <2>1, RecordsEmpty DEF RecordsInv
<1>3. CASE CheckInputs
  BY <1>3, RecordsInputs
<1>4. CASE SpendInput
  <2>1. pc = "spend"
    BY <1>4 DEF SpendInput
  <2> QED
    BY <1>4, <2>1, RecordsSpend
<1>5. CASE AddOutputs
  BY <1>5, RecordsAdd
<1>6. CASE RemoveOutputs \/ RestoreInput \/ NextRemoved \/ FinishDisconnect \/ VerifyNext
  <2>1. blockundo' = blockundo /\ op' = op /\ op \in {"disconnect", "verify"}
        /\ pc' \in {"remove", "restore", "moved", "flushview", "abandon", "best"}
    BY <1>6 DEF RemoveOutputs, RestoreInput, NextRemoved, FinishDisconnect, VerifyNext, ControlInv,
                jobVars
  <2> QED
    BY <2>1, RecordsKept DEF Connecting, Applying
<1>7. CASE FinishConnect \/ FlushView \/ WriteIndex \/ WriteCoins \/ \E t \in TxIds : ReadTip(t)
  <2>1. blockundo' = blockundo /\ pc' \in {"flushview", "committed", "indexed", "flushed", "idle"}
        /\ (op' = op \/ (op' = "flush" /\ op = "none"))
    BY <1>7 DEF FinishConnect, FlushView, WriteIndex, WriteCoins, ReadTip, jobVars, ControlInv
  <2>2. ~Connecting' => ~Connecting
    BY <2>1 DEF Connecting
  <2>3. pc' \notin Applying /\ pc' # "best"
    BY <2>1 DEF Applying
  <2> QED
    BY <2>1, <2>2, <2>3, RecordsKept
<1>8. CASE Abandon \/ WriteCoinsFails \/ UpdateTip \/ Restart
  BY <1>8, RecordsIdle DEF Abandon, WriteCoinsFails, UpdateTip, Restart
<1>9. \A b : ConnectTip(b) \/ TestBlockValidity(b) => pc = "idle" /\ \E o, d : Begin(o, d)
  BY DEF ConnectTip, TestBlockValidity, Begin
<1>10. DisconnectTip \/ VerifyDB => pc = "idle" /\ \E o, d : Begin(o, d)
  BY DEF DisconnectTip, VerifyDB, Begin
<1> QED
  BY <1>1, <1>2, <1>3, <1>4, <1>5, <1>6, <1>7, <1>8, <1>9, <1>10 DEF Next
-----------------------------------------------------------------------------
(* The undo data of the block index *)

\* The coins after a block with undo data have heights.
LEMMA HeightsOf ==
    ASSUME NEW u, UndoInv(u), ~failed, NEW b \in Hashes, Has(u, b)
    PROVE  HeightsKnown(Utxo[b])
<1>1. CASE b = Genesis
  BY <1>1, UtxoAssumption DEF HeightsKnown
<1>2. CASE b # Genesis
  BY <1>2 DEF Has, UndoInv, UndoTrue
<1> QED
  BY <1>1, <1>2

\* Undo data that is not written stays true.
LEMMA UndoKept ==
    ASSUME NEW u, UndoInv(u), failed => failed'
    PROVE  /\ u \in [Hashes -> BlockUndo \cup {NoUndo}]
           /\ \A b \in Hashes \ {Genesis} : u[b] # NoUndo =>
                UndoFits(b, u[b]) /\ (~failed' => UndoTrue(b, u))
  BY DEF UndoInv

\* ConnectBlock writes undo data that is true of the block.
LEMMA UndoFinish ==
    ASSUME CacheInv, ControlInv, RecordsInv, UndoInv(undo), FinishConnect,
           ~failed => ViewInv /\ CoinsInv
    PROVE  UndoInv(undo)'
<1>1. /\ pc = "finish" /\ op = "connect" /\ cur \notin Invalid /\ failed' = failed
      /\ undo' = [undo EXCEPT ![cur] = IF @ = NoUndo THEN blockundo ELSE @]
  BY DEF FinishConnect
<1>2. /\ cur \in Hashes \ {Genesis} /\ Parent[cur] = active /\ active \in Hashes
  BY <1>1 DEF ControlInv, Connecting
<1>3. /\ blockundo \in BlockUndo /\ Len(blockundo) = Len(Vtx[cur])
      /\ \A k \in DOMAIN blockundo :
            /\ Len(blockundo[k]) = Len(Vin[Vtx[cur][k]])
            /\ ~failed => \A l \in DOMAIN blockundo[k] :
                    blockundo[k][l].height = UndoHeight(cur, k, l)
  BY <1>1 DEF RecordsInv, Applying
<1>4. undo \in [Hashes -> BlockUndo \cup {NoUndo}]
  BY DEF UndoInv
<1>5. CASE undo[cur] # NoUndo
  <2>1. undo' = undo
    BY <1>1, <1>2, <1>4, <1>5
  <2>2. failed => failed'
    BY <1>1
  <2> QED
    BY <2>1, <2>2, UndoKept DEF UndoInv, UndoTrue
<1>6. CASE undo[cur] = NoUndo
  <2>1. /\ undo' \in [Hashes -> BlockUndo \cup {NoUndo}] /\ undo'[cur] = blockundo
        /\ \A b \in Hashes : b # cur => undo'[b] = undo[b]
        /\ \A b : b \in Hashes /\ Has(undo, b) => Has(undo', b)
    BY <1>1, <1>2, <1>3, <1>4, <1>6, NoUndoAssumption DEF Has
  <2>2. DOMAIN blockundo = DOMAIN Vtx[cur]
    BY <1>2, <1>3, Lengths DEF BlockUndo
  <2>3. UndoFits(cur, blockundo)
    BY <1>3, <2>2 DEF UndoFits
  <2>4. ASSUME ~failed PROVE UndoTrue(cur, undo')
    <3>1. Connectable(cur)
      BY <1>1, <2>4 DEF ViewInv
    <3>2. Has(undo, Parent[cur])
      BY <1>1, <1>2, <2>4 DEF CoinsInv
    <3>3. Has(undo', Parent[cur])
      BY <1>2, <2>1, <3>2
    <3>4. HeightsKnown(Utxo[cur])
      <4>1. Utxo[cur] = After(cur)
        BY <1>1, <1>2, <3>1, UtxoAssumption
      <4>2. HeightsKnown(Utxo[Parent[cur]])
        BY <1>2, <2>4, <3>2, HeightsOf
      <4> QED
        BY <1>2, <4>1, <4>2, HeightsFollow DEF HeightsKnown, After
    <3>5. \A k \in DOMAIN Vtx[cur] : \A l \in DOMAIN Vin[Vtx[cur][k]] :
            undo'[cur][k][l].height = UndoHeight(cur, k, l)
      <4> SUFFICES ASSUME NEW k \in DOMAIN Vtx[cur], NEW l \in DOMAIN Vin[Vtx[cur][k]]
                   PROVE  blockundo[k][l].height = UndoHeight(cur, k, l)
        BY <2>1
      <4>1. k \in DOMAIN blockundo /\ blockundo[k] \in Seq(UndoRecord)
            /\ Len(blockundo[k]) = Len(Vin[Vtx[cur][k]])
        BY <1>3, <2>2 DEF BlockUndo
      <4>2. l \in DOMAIN blockundo[k]
        BY <1>2, <4>1, Lengths
      <4> QED
        BY <1>3, <2>4, <4>1, <4>2
    <3> QED
      BY <1>1, <3>1, <3>3, <3>4, <3>5 DEF UndoTrue
  <2>5. ASSUME NEW b \in Hashes \ {Genesis}, undo'[b] # NoUndo
        PROVE  UndoFits(b, undo'[b]) /\ (~failed => UndoTrue(b, undo'))
    <3>1. CASE b = cur
      BY <2>1, <2>3, <2>4, <3>1
    <3>2. CASE b # cur
      <4>1. undo'[b] = undo[b] /\ undo[b] # NoUndo /\ Parent[b] \in Hashes
        BY <2>1, <2>5, <3>2, ParentHash
      <4>2. UndoFits(b, undo[b]) /\ (~failed => UndoTrue(b, undo))
        BY <4>1 DEF UndoInv
      <4> QED
        BY <2>1, <4>1, <4>2 DEF UndoTrue
    <3> QED
      BY <3>1, <3>2
  <2> QED
    BY <1>1, <2>1, <2>5 DEF UndoInv, UndoTrue, UndoFits, Has
<1> QED
  BY <1>5, <1>6

\* So it stays true in the index and on disk, through every flush and restart.
LEMMA UndoStep ==
    ASSUME CacheInv, ControlInv, RecordsInv, UndoInv(undo), UndoInv(undoDisk),
           ~failed => ViewInv /\ CoinsInv, Next
    PROVE  UndoInv(undo)' /\ UndoInv(undoDisk)'
<1>1. failed => failed'
  BY DEF Next, ConnectTip, TestBlockValidity, DisconnectTip, VerifyDB, Begin, AssertBestBlock,
     CheckOverwrite, CheckInputs, SpendInput, AddOutputs, FinishConnect, Abandon, RemoveOutputs,
     RestoreInput, NextRemoved, FinishDisconnect, VerifyNext, FlushView, WriteIndex, WriteCoins,
     WriteCoinsFails, UpdateTip, ReadTip, Restart
<1>2. CASE FinishConnect
  <2>1. undoDisk' = undoDisk
    BY <1>2 DEF FinishConnect
  <2>2. UndoInv(undoDisk)'
    BY <1>1, <2>1, UndoKept DEF UndoInv, UndoTrue
  <2> QED
    BY <1>2, <2>2, UndoFinish
<1>3. CASE ~FinishConnect
  <2>1. undo' \in {undo, undoDisk} /\ undoDisk' \in {undo, undoDisk}
    BY <1>3 DEF Next, ConnectTip, TestBlockValidity, DisconnectTip, VerifyDB, Begin,
       AssertBestBlock,
       CheckOverwrite, CheckInputs, SpendInput, AddOutputs, Abandon, RemoveOutputs,
       RestoreInput, NextRemoved, FinishDisconnect, VerifyNext, FlushView, WriteIndex, WriteCoins,
       WriteCoinsFails, UpdateTip, ReadTip, Restart
  <2> QED
    BY <1>1, <2>1, UndoKept DEF UndoInv, UndoTrue
<1> QED
  BY <1>2, <1>3
-----------------------------------------------------------------------------
(* What the views show, before a flush has failed *)

Sound ==
    /\ CacheInv /\ UndoInv(undo) /\ UndoInv(undoDisk) /\ ControlInv /\ RecordsInv
    /\ ~failed /\ ViewInv /\ CoinsInv

\* Outside of a view's steps ViewInv says nothing.
LEMMA NoView ==
    ASSUME pc' \in {"idle", "abandon", "committed", "indexed", "flushed"}
    PROVE  ViewInv'
  BY DEF ViewInv

\* A step inside an operation leaves the tip and the database alone.
LEMMA CoinsWorking ==
    ASSUME CoinsInv, pc \in Working, pc' \in Working,
           UNCHANGED <<db, dbBest, undo, undoDisk, active, op, cur>>,
           \A t \in TxIds : TipCoins(t)' = TipCoins(t), TipBestBlock' = TipBestBlock,
           StakesKept => clean',
           StakesKept /\ pc' = "abandon" => Connecting /\ (cur \in Invalid \/ ~Connectable(cur))
    PROVE  CoinsInv'
<1>1. /\ pc \notin {"committed", "indexed", "flushed"} /\ pc' \notin {"committed", "indexed", "flushed"}
      /\ pc' # "indexed"
  BY DEF Working
<1> QED
  BY <1>1 DEF CoinsInv, Connecting, Has

\* A block with undo data was connected: it stands by the reference, and so does
\* all below it.
LEMMA HasFacts ==
    ASSUME Sound, NEW b \in Hashes \ {Genesis}, Has(undo, b)
    PROVE  /\ undo[b] # NoUndo /\ UndoFits(b, undo[b]) /\ UndoTrue(b, undo)
           /\ Utxo[b] = After(b) /\ Fresh(b, Len(Vtx[b]))
           /\ \A k \in DOMAIN Vtx[b] : Found(b, k)
           /\ Parent[b] \in Hashes /\ Has(undo, Parent[b]) /\ HeightsKnown(Utxo[Parent[b]])
<1>1. undo[b] # NoUndo
  BY DEF Has
<1>2. UndoFits(b, undo[b]) /\ UndoTrue(b, undo)
  BY <1>1 DEF Sound, UndoInv
<1>3. b \notin Invalid /\ Connectable(b) /\ Has(undo, Parent[b])
  BY <1>2 DEF UndoTrue
<1>4. Utxo[b] = After(b)
  BY <1>3, UtxoAssumption
<1>5. Len(Vtx[b]) \in Nat /\ DOMAIN Vtx[b] = 1..Len(Vtx[b])
  BY Lengths
<1>6. Fresh(b, Len(Vtx[b])) /\ \A k \in DOMAIN Vtx[b] : Found(b, k)
  BY <1>3, <1>5 DEF Connectable, Fresh, Found
<1>7. Parent[b] \in Hashes /\ HeightsKnown(Utxo[Parent[b]])
  BY <1>3, ParentHash, HeightsOf DEF Sound
<1> QED
  BY <1>1, <1>2, <1>3, <1>4, <1>6, <1>7

LEMMA ViewIsCoins == Sound => \A t \in TxIds : ViewCoins(t) \in Coins /\ TipCoins(t) \in Coins
  BY Shapes DEF Sound

\* One lemma a step: a view is opened on the tip, whose block is the active one.
LEMMA BeginSound ==
    ASSUME Sound, NEW o \in {"connect", "check", "disconnect", "verify"},
           NEW b \in Hashes \ {Genesis}, Begin(o, b),
           IF o \in {"connect", "check"} THEN Parent[b] = active ELSE b = active
    PROVE  ViewInv' /\ CoinsInv'
<1>1. /\ pc = "idle" /\ pc' = "best" /\ op' = o /\ cur' = b /\ OpenView
      /\ UNCHANGED <<active, undo, undoDisk, i, j, clean, failed>>
  BY DEF Begin
<1>2. SameReads /\ ~open
  BY <1>1, OpenReads
<1>3. (\A t \in TxIds : ViewCoins(t) = TipCoins(t)) /\ ViewBestBlock = TipBestBlock
  BY <1>2, ClosedReads DEF Sound
<1>4. TipBestBlock = active /\ \A t \in TxIds : Like(TipCoins(t), Utxo[active][t])
  BY <1>1 DEF Sound, CoinsInv
<1>5. Expected' = active
  BY <1>1 DEF Expected, Connecting
<1>6. ViewInv'
  BY <1>1, <1>2, <1>3, <1>4, <1>5 DEF ViewInv, Shows, SameReads
<1>7. op' \in {"disconnect", "verify"} => Has(undo, cur')
  BY <1>1, <1>4 DEF Sound, CoinsInv
<1>8. pc' \notin {"committed", "indexed", "flushed", "abandon"} /\ clean' = clean
  BY <1>1
<1>9. CoinsInv'
  BY <1>1, <1>2, <1>4, <1>7, <1>8 DEF Sound, CoinsInv, SameReads, Has
<1> QED
  BY <1>6, <1>9

\* The view stands for the expected block: disconnecting starts from its end.
LEMMA AssertSound ==
    ASSUME Sound, AssertBestBlock
    PROVE  ViewInv' /\ CoinsInv'
<1>1. /\ pc = "best" /\ UNCHANGED <<active, undo, undoDisk, op, cur, j, clean, failed>>
      /\ Connecting => pc' = "overwrite" /\ i' = 1
      /\ ~Connecting /\ undo[cur] = NoUndo => pc' = "abandon"
      /\ ~Connecting /\ undo[cur] # NoUndo => pc' = "remove" /\ i' = Len(Vtx[cur])
  BY DEF AssertBestBlock
<1>2. SameReads
  BY GetBestBlockReads DEF AssertBestBlock, Sound
<1>3. cur \in Hashes \ {Genesis} /\ op \in {"connect", "check", "disconnect", "verify"}
  BY <1>1 DEF Sound, ControlInv, Connecting
<1>4. \A t \in TxIds : Like(ViewCoins(t), Utxo[Expected][t])
  BY <1>1 DEF Sound, ViewInv, Shows
<1>5. ~Connecting => undo[cur] # NoUndo /\ Utxo[cur] = After(cur)
  <2> SUFFICES ASSUME ~Connecting PROVE undo[cur] # NoUndo /\ Utxo[cur] = After(cur)
    OBVIOUS
  <2>1. Has(undo, cur)
    BY <1>3 DEF Sound, CoinsInv, Connecting
  <2> QED
    BY <1>3, <2>1, HasFacts
<1>6. ASSUME Connecting PROVE ViewInv'
  <2>1. pc' = "overwrite" /\ cur' = cur /\ Fresh(cur, i' - 1)
    BY <1>1, <1>6 DEF Fresh
  <2>2. \A t \in TxIds : Like(ViewCoins(t)', Utxo[Parent[cur]][t])
    BY <1>2, <1>4, <1>6 DEF Expected, SameReads
  <2> QED
    BY <2>1, <2>2 DEF ViewInv, Shows
<1>7. ASSUME ~Connecting PROVE ViewInv'
  <2>1. \A t \in TxIds : Like(ViewCoins(t)', After(cur)[t])
    BY <1>2, <1>4, <1>5, <1>7 DEF Expected, SameReads
  <2>2. pc' = "remove" /\ i' = Len(Vtx[cur]) /\ cur' = cur
    BY <1>1, <1>5, <1>7
  <2>3. \A t \in TxIds : Like(ViewCoins(t)', CoinsAt(cur, i' + 1, 0)[t])
    BY <2>1, <2>2 DEF After
  <2> QED
    BY <2>2, <2>3 DEF ViewInv, Shows
<1>8. ViewInv'
  BY <1>6, <1>7
<1>9. pc' \in Working /\ pc' # "abandon" /\ pc \in Working
  BY <1>1, <1>5 DEF Working
<1>10. CoinsInv'
  BY <1>1, <1>2, <1>9, CoinsWorking DEF Sound, CoinsInv, SameReads
<1> QED
  BY <1>8, <1>10

\* A block is turned away only if the reference has unspent coins there too.
LEMMA OverwriteSound ==
    ASSUME Sound, CheckOverwrite
    PROVE  ViewInv' /\ CoinsInv'
<1>1. /\ pc = "overwrite" /\ UNCHANGED <<active, undo, undoDisk, op, cur, clean, failed>>
      /\ ViewCoins(tx) # Pruned => pc' = "abandon"
      /\ ViewCoins(tx) = Pruned /\ i < Len(Vtx[cur]) => i' = i + 1 /\ pc' = pc
      /\ ViewCoins(tx) = Pruned /\ ~(i < Len(Vtx[cur])) => pc' = "inputs" /\ i' = 1 /\ j' = 1
  BY DEF CheckOverwrite
<1>2. tx \in TxIds /\ SameReads
  BY TxIsId, AccessReads DEF CheckOverwrite, Sound
<1>3. /\ cur \in Hashes \ {Genesis} /\ Parent[cur] \in Hashes /\ tx = Vtx[cur][i]
      /\ i \in DOMAIN Vtx[cur] /\ i \in Nat /\ 1 <= i /\ i <= Len(Vtx[cur]) /\ Len(Vtx[cur]) \in Nat
  BY <1>1, TxFacts DEF Sound
<1>4. Connecting
  BY <1>1 DEF Sound, ControlInv, Applying
<1>5. /\ \A t \in TxIds : Like(ViewCoins(t)', Utxo[Parent[cur]][t]) /\ ViewCoins(t)' = ViewCoins(t)
      /\ Fresh(cur, i - 1)
  BY <1>1, <1>2 DEF Sound, ViewInv, Shows, SameReads
<1>6. ViewCoins(tx) \in Coins /\ Utxo[Parent[cur]][tx] \in Coins
  BY <1>2, <1>3, ViewIsCoins, UtxoAssumption
<1>7. ViewCoins(tx) = Pruned <=> Utxo[Parent[cur]][tx] = Pruned
  BY <1>2, <1>5, <1>6, LikeFacts
<1>8. CASE ViewCoins(tx) # Pruned
  <2>1. ~Connectable(cur) /\ pc' = "abandon"
    BY <1>1, <1>3, <1>7, <1>8 DEF Connectable
  <2>2. pc \in Working /\ pc' \in Working
    BY <1>1, <2>1 DEF Working
  <2> QED
    BY <1>1, <1>2, <1>4, <2>1, <2>2, CoinsWorking, NoView DEF Sound, CoinsInv, SameReads
<1>9. CASE ViewCoins(tx) = Pruned
  <2>1. Fresh(cur, i)
    <3>1. \A k \in 1..i : k = i \/ k \in 1..(i - 1)
      BY <1>3
    <3> QED
      BY <1>3, <1>5, <1>7, <1>9, <3>1 DEF Fresh
  <2>2. pc \in Working /\ pc' \in Working /\ pc' # "abandon"
    BY <1>1, <1>9 DEF Working
  <2>3. CoinsInv'
    BY <1>1, <1>2, <2>2, CoinsWorking DEF Sound, CoinsInv, SameReads
  <2>4. CASE i < Len(Vtx[cur])
    <3>1. i' = i + 1 /\ pc' = "overwrite" /\ Fresh(cur, i' - 1)
      BY <1>1, <1>3, <1>9, <2>1, <2>4
    <3>2. ViewInv'
      BY <1>1, <1>5, <3>1 DEF ViewInv, Shows
    <3> QED
      BY <2>3, <3>2
  <2>5. CASE ~(i < Len(Vtx[cur]))
    <3>1. i' = 1 /\ j' = 1 /\ pc' = "inputs" /\ Fresh(cur, Len(Vtx[cur]))
      <4>1. i = Len(Vtx[cur])
        BY <1>3, <2>5
      <4> QED
        BY <1>1, <1>9, <2>1, <2>5, <4>1
    <3>2. \A t \in TxIds : Like(ViewCoins(t)', CoinsAt(cur, 1, 0)[t])
      BY <1>3, <1>5, CoinsStart
    <3>3. Found(cur, 0) /\ 1 - 1 = 0 /\ 1..0 = {}
      BY DEF Found
    <3>4. ViewInv'
      BY <1>1, <3>1, <3>2, <3>3 DEF ViewInv, Shows
    <3> QED
      BY <2>3, <3>4
  <2> QED
    BY <2>4, <2>5
<1> QED
  BY <1>8, <1>9

\* An input is found in the view exactly if it is in the reference.
LEMMA InputsSound ==
    ASSUME Sound, CheckInputs
    PROVE  ViewInv' /\ CoinsInv'
<1>1. pc = "inputs" /\ UNCHANGED <<active, undo, undoDisk, op, cur, i, clean, failed>>
  BY DEF CheckInputs
<1>2. /\ cur \in Hashes \ {Genesis} /\ tx = Vtx[cur][i] /\ tx' = tx
      /\ i \in DOMAIN Vtx[cur] /\ i \in Nat /\ 1 <= i
      /\ Len(Vin[tx]) \in Nat /\ j \in 1..(Len(Vin[tx]) + 1)
      /\ Range(Vin[tx]) = {Vin[tx][l] : l \in 1..Len(Vin[tx])}
  BY <1>1, TxFacts DEF Sound, ControlInv, tx
<1>3. Connecting /\ pc \in Working
  BY <1>1 DEF Sound, ControlInv, Applying, Working
<1>4. SameReads
  <2>1. CASE UNCHANGED cacheVars
    BY <2>1, StutterReads
  <2>2. CASE ~UNCHANGED cacheVars
    <3>1. j <= Len(Vin[tx]) /\ Access(prevout[1])
      BY <2>2 DEF CheckInputs
    <3>2. prevout[1] \in TxIds
      BY <1>1, <3>1, InputIsId DEF Sound
    <3> QED
      BY <3>1, <3>2, AccessReads DEF Sound
  <2> QED
    BY <2>1, <2>2
<1>5. /\ \A t \in TxIds : Like(ViewCoins(t), CoinsAt(cur, i, 0)[t])
      /\ Fresh(cur, Len(Vtx[cur])) /\ Found(cur, i - 1)
      /\ \A l \in 1..(j - 1) : Vin[tx][l][2] \in CoinsAt(cur, i, 0)[Vin[tx][l][1]].outs
  BY <1>1 DEF Sound, ViewInv, Shows
<1>6. \A t \in TxIds : Like(ViewCoins(t)', CoinsAt(cur, i, 0)[t])
  BY <1>4, <1>5 DEF SameReads
<1>7. ASSUME j <= Len(Vin[tx])
      PROVE  /\ prevout = Vin[tx][j] /\ prevout \in Range(Vin[tx])
             /\ prevout[2] \in ViewCoins(prevout[1]).outs
                    <=> prevout[2] \in CoinsAt(cur, i, 0)[prevout[1]].outs
  <2>1. prevout[1] \in TxIds
    BY <1>1, <1>7, InputIsId DEF Sound
  <2>2. prevout = Vin[tx][j] /\ prevout \in Range(Vin[tx])
    BY <1>2, <1>7 DEF prevout
  <2> QED
    BY <1>5, <2>1, <2>2 DEF Like
<1>8. \/ pc' = "inputs" /\ j <= Len(Vin[tx]) /\ j' = j + 1
            /\ prevout[2] \in ViewCoins(prevout[1]).outs
      \/ pc' = "abandon" /\ j <= Len(Vin[tx])
            /\ prevout[2] \notin ViewCoins(prevout[1]).outs
      \/ pc' = "spend" /\ j > Len(Vin[tx]) /\ j' = 1
      \/ pc' = "abandon" /\ cur \in Invalid
  BY <1>1 DEF CheckInputs
<1>9. CASE pc' = "abandon"
  <2>1. cur \in Invalid \/ ~Connectable(cur)
    <3>1. CASE cur \notin Invalid
      <4>1. prevout \in Range(Vin[tx]) /\ prevout[2] \notin CoinsAt(cur, i, 0)[prevout[1]].outs
        BY <1>7, <1>8, <1>9, <3>1
      <4> QED
        BY <1>2, <4>1 DEF Connectable
    <3> QED
      BY <3>1
  <2>2. pc' \in Working
    BY <1>9 DEF Working
  <2> QED
    BY <1>1, <1>3, <1>4, <1>9, <2>1, <2>2, CoinsWorking, NoView DEF Sound, CoinsInv, SameReads
<1>10. CASE pc' = "inputs"
  <2>1. j <= Len(Vin[tx]) /\ j' = j + 1
        /\ Vin[tx][j][2] \in CoinsAt(cur, i, 0)[Vin[tx][j][1]].outs
    BY <1>7, <1>8, <1>10
  <2>2. \A l \in 1..(j' - 1) : Vin[tx][l][2] \in CoinsAt(cur, i, 0)[Vin[tx][l][1]].outs
    <3>1. \A l \in 1..(j' - 1) : l = j \/ l \in 1..(j - 1)
      BY <1>2, <2>1
    <3> QED
      BY <1>5, <2>1, <3>1
  <2>3. UNCHANGED <<cur, i, tx>>
    BY <1>1, <1>2
  <2>4. ViewInv'
    BY <1>5, <1>6, <1>10, <2>2, <2>3 DEF ViewInv, Shows
  <2>5. pc' \in Working /\ pc' # "abandon"
    BY <1>10 DEF Working
  <2> QED
    BY <1>1, <1>3, <1>4, <2>4, <2>5, CoinsWorking DEF Sound, CoinsInv, SameReads
<1>11. CASE pc' = "spend"
  <2>1. j > Len(Vin[tx]) /\ j' = 1
    BY <1>8, <1>11
  <2>2. Found(cur, i)
    <3>1. \A o \in Range(Vin[Vtx[cur][i]]) : o[2] \in CoinsAt(cur, i, 0)[o[1]].outs
      <4>1. \A l \in 1..Len(Vin[tx]) : l \in 1..(j - 1)
        BY <1>2, <2>1
      <4> QED
        BY <1>2, <1>5, <4>1
    <3>2. \A k \in 1..i : k = i \/ k \in 1..(i - 1)
      BY <1>2
    <3> QED
      BY <1>5, <3>1, <3>2 DEF Found
  <2>3. UNCHANGED <<cur, i>> /\ j' - 1 = 0
    BY <1>1, <2>1
  <2>4. ViewInv'
    BY <1>5, <1>6, <1>11, <2>2, <2>3 DEF ViewInv, Shows
  <2>5. pc' \in Working /\ pc' # "abandon"
    BY <1>11 DEF Working
  <2> QED
    BY <1>1, <1>3, <1>4, <2>4, <2>5, CoinsWorking DEF Sound, CoinsInv, SameReads
<1> QED
  BY <1>8, <1>9, <1>10, <1>11

LEMMA SpendSound ==
    ASSUME Sound, SpendInput
    PROVE  ViewInv' /\ CoinsInv'
<1> DEFINE n == prevout[2]
           u == prevout[1]
           c == ViewCoins(u)
           d == CoinsAt(cur, i, j - 1)[u]
<1>1. /\ pc = "spend" /\ pc' = "spend" /\ j' = j + 1
      /\ UNCHANGED <<active, undo, undoDisk, op, cur, i, clean, failed>>
  BY DEF SpendInput
<1>2. /\ cur \in Hashes \ {Genesis} /\ i \in DOMAIN Vtx[cur] /\ j \in Nat
  BY <1>1, TxFacts DEF Sound, ControlInv
<1>3. /\ prevout = Vin[Vtx[cur][i]][j] /\ u \in TxIds /\ c \in Coins /\ n \in c.outs
      /\ Spend(c, n) \in Coins /\ Modify(u, Spend(c, n)) /\ j \in DOMAIN Vin[Vtx[cur][i]]
  BY SpendModifies DEF Sound
<1>4. Vin[Vtx[cur][i]][j] = <<u, n>>
  BY <1>2, <1>3, InputIs
<1>5. /\ \A t \in TxIds : Like(ViewCoins(t), CoinsAt(cur, i, j - 1)[t])
      /\ Fresh(cur, Len(Vtx[cur])) /\ Found(cur, i)
  BY <1>1 DEF Sound, ViewInv, Shows
<1>6. PICK s : s = Spend(c, n)
  OBVIOUS
<1>7. /\ \A t \in TxIds : /\ ViewCoins(t)' = IF t = u THEN s ELSE ViewCoins(t)
                          /\ TipCoins(t)' = TipCoins(t)
      /\ TipBestBlock' = TipBestBlock /\ UNCHANGED <<db, dbBest>>
  BY <1>3, <1>6, ModifyReads DEF Sound
<1>8. d \in Coins /\ Like(c, d) /\ n \in d.outs
  BY <1>2, <1>3, <1>5, SourceCoins DEF Like
<1>9. Like(s, Less(d, {n}))
  BY <1>3, <1>6, <1>8, LikeSpend
<1>10. \A t \in TxIds : CoinsAt(cur, i, j)[t] = IF t = u THEN Less(d, {n})
                                                ELSE CoinsAt(cur, i, j - 1)[t]
  <2>1. \A t \in TxIds : CoinsAt(cur, i, j)[t] =
              IF t = Vin[Vtx[cur][i]][j][1]
              THEN Less(CoinsAt(cur, i, j - 1)[t], {Vin[Vtx[cur][i]][j][2]})
              ELSE CoinsAt(cur, i, j - 1)[t]
    BY <1>2, <1>3, CoinsSpend
  <2> QED
    BY <1>3, <2>1
<1>11. \A t \in TxIds : Like(ViewCoins(t)', CoinsAt(cur, i, j)[t])
  BY <1>3, <1>5, <1>7, <1>9, <1>10
<1>12. j' - 1 = j /\ UNCHANGED <<cur, i>>
  BY <1>1, <1>2
<1>13. ViewInv'
  BY <1>1, <1>5, <1>11, <1>12 DEF ViewInv, Shows
<1>14. pc \in Working /\ pc' \in Working /\ pc' # "abandon"
  BY <1>1 DEF Working
<1> QED
  BY <1>1, <1>7, <1>13, <1>14, CoinsWorking DEF Sound, CoinsInv

LEMMA AddSound ==
    ASSUME Sound, AddOutputs
    PROVE  ViewInv' /\ CoinsInv'
<1>1. /\ pc = "spend" /\ j > Len(Vin[tx])
      /\ UNCHANGED <<active, undo, undoDisk, op, cur, clean, failed>>
      /\ i < Len(Vtx[cur]) => pc' = "inputs" /\ i' = i + 1 /\ j' = 1
      /\ ~(i < Len(Vtx[cur])) => pc' = "finish"
  BY DEF AddOutputs
<1>2. /\ cur \in Hashes \ {Genesis} /\ i \in DOMAIN Vtx[cur] /\ i \in Nat /\ 1 <= i
      /\ i <= Len(Vtx[cur]) /\ Len(Vtx[cur]) \in Nat /\ tx = Vtx[cur][i]
      /\ j - 1 = Len(Vin[tx])
  BY <1>1, TxFacts DEF Sound, ControlInv
<1>3. tx \in TxIds /\ FromTx(tx, Height[cur]) \in Coins /\ Modify(tx, FromTx(tx, Height[cur]))
  BY AddModifies DEF Sound
<1>4. PICK s : s = FromTx(tx, Height[cur])
  OBVIOUS
<1>5. /\ \A t \in TxIds : /\ ViewCoins(t)' = IF t = tx THEN s ELSE ViewCoins(t)
                          /\ TipCoins(t)' = TipCoins(t)
      /\ TipBestBlock' = TipBestBlock /\ UNCHANGED <<db, dbBest>>
  BY <1>3, <1>4, ModifyReads DEF Sound
<1>6. /\ \A t \in TxIds : Like(ViewCoins(t), CoinsAt(cur, i, Len(Vin[tx]))[t])
      /\ Fresh(cur, Len(Vtx[cur])) /\ Found(cur, i)
  BY <1>1, <1>2 DEF Sound, ViewInv, Shows
<1>7. \A t \in TxIds : CoinsAt(cur, i + 1, 0)[t] =
            IF t = tx THEN s ELSE CoinsAt(cur, i, Len(Vin[tx]))[t]
  <2>1. \A t \in TxIds : CoinsAt(cur, i + 1, 0)[t] =
            IF t = Vtx[cur][i] THEN FromTx(t, Height[cur])
            ELSE CoinsAt(cur, i, Len(Vin[Vtx[cur][i]]))[t]
    BY <1>2, <1>6, CoinsAdd
  <2> QED
    BY <1>2, <1>4, <2>1
<1>8. \A t \in TxIds : Like(ViewCoins(t)', CoinsAt(cur, i + 1, 0)[t])
  BY <1>3, <1>4, <1>5, <1>6, <1>7, LikeFacts
<1>9. pc \in Working /\ pc' \in Working /\ pc' # "abandon"
  BY <1>1 DEF Working
<1>10. CoinsInv'
  BY <1>1, <1>5, <1>9, CoinsWorking DEF Sound, CoinsInv
<1>11. ASSUME i < Len(Vtx[cur]) PROVE ViewInv'
  <2>1. pc' = "inputs" /\ i' = i + 1 /\ j' = 1 /\ cur' = cur /\ i' - 1 = i
        /\ \A l \in 1..(j' - 1) : FALSE
    BY <1>1, <1>2, <1>11
  <2>2. Found(cur, i' - 1) /\ \A t \in TxIds : Like(ViewCoins(t)', CoinsAt(cur, i', 0)[t])
    BY <1>6, <1>8, <2>1
  <2> QED
    BY <1>6, <2>1, <2>2 DEF ViewInv, Shows
<1>12. ASSUME ~(i < Len(Vtx[cur])) PROVE ViewInv'
  <2>1. pc' = "finish" /\ i = Len(Vtx[cur]) /\ cur' = cur
    BY <1>1, <1>2, <1>12
  <2>2. \A t \in TxIds : Like(ViewCoins(t)', After(cur)[t])
    BY <1>8, <2>1 DEF After
  <2>3. Connectable(cur)
    <3>1. DOMAIN Vtx[cur] = 1..Len(Vtx[cur])
      BY <1>2, Lengths
    <3> QED
      BY <1>6, <2>1, <3>1 DEF Connectable, Fresh, Found
  <2> QED
    BY <2>1, <2>2, <2>3 DEF ViewInv, Shows
<1> QED
  BY <1>10, <1>11, <1>12

\* After the last transaction the view shows the coins after the block.
LEMMA FinishSound ==
    ASSUME Sound, FinishConnect
    PROVE  ViewInv' /\ CoinsInv'
<1>1. /\ pc = "finish" /\ pc' = "flushview" /\ op = "connect" /\ cur \notin Invalid
      /\ undo' = [undo EXCEPT ![cur] = IF @ = NoUndo THEN blockundo ELSE @]
      /\ UNCHANGED <<active, undoDisk, op, cur, clean, failed>>
      /\ SetBestBlock(cur)
  BY DEF FinishConnect, jobVars
<1>2. cur \in Hashes \ {Genesis}
  BY <1>1 DEF Sound, ControlInv, Connecting
<1>3. /\ \A t \in TxIds : ViewCoins(t)' = ViewCoins(t) /\ TipCoins(t)' = TipCoins(t)
      /\ TipBestBlock' = TipBestBlock /\ UNCHANGED <<db, dbBest>>
  BY <1>1, <1>2, SetBestBlockReads
<1>4. Shows(After(cur)) /\ Connectable(cur)
  BY <1>1 DEF Sound, ViewInv
<1>5. Utxo[cur] = After(cur)
  BY <1>1, <1>2, <1>4, UtxoAssumption
<1>6. Target' = cur
  BY <1>1 DEF Target
<1>7. ViewInv'
  BY <1>1, <1>3, <1>4, <1>5, <1>6 DEF ViewInv, Shows
<1>8. \A b : b \in Hashes /\ Has(undo, b) => Has(undo', b)
  <2>1. undo \in [Hashes -> BlockUndo \cup {NoUndo}] /\ blockundo \in BlockUndo
    BY DEF Sound, UndoInv, RecordsInv
  <2> QED
    BY <1>1, <1>2, <2>1, NoUndoAssumption DEF Has
<1>9. TipBestBlock \in Hashes /\ dbBest \in Hashes
  BY DEF Sound, CacheInv, CacheTypeOK, TipBestBlock
<1>10. CoinsInv'
  <2>1. /\ \A t \in TxIds : Like(db[t], Utxo[dbBest][t])
        /\ \A t \in TxIds : Like(TipCoins(t), Utxo[TipBestBlock][t])
        /\ TipBestBlock = active /\ Has(undo, TipBestBlock) /\ Has(undo, dbBest)
        /\ Has(undoDisk, dbBest) /\ (StakesKept => clean)
    BY <1>1 DEF Sound, CoinsInv
  <2>2. Has(undo', TipBestBlock) /\ Has(undo', dbBest)
    BY <1>8, <1>9, <2>1
  <2> QED
    BY <1>1, <1>3, <2>1, <2>2 DEF CoinsInv
<1> QED
  BY <1>7, <1>10

\* Nothing of an abandoned view remains.
LEMMA AbandonSound ==
    ASSUME Sound, Abandon
    PROVE  ViewInv' /\ CoinsInv'
<1>1. /\ pc \in Working /\ pc' = "idle" /\ op' = "none" /\ clean' = TRUE
      /\ UNCHANGED <<active, undo, undoDisk, failed>> /\ Discard
  BY DEF Abandon, Idle, Working
<1>2. /\ \A t \in TxIds : TipCoins(t)' = TipCoins(t)
      /\ TipBestBlock' = TipBestBlock /\ UNCHANGED <<db, dbBest>>
  BY <1>1, DiscardReads DEF Sound
<1>3. pc \notin {"committed", "indexed", "flushed"}
  BY <1>1 DEF Working
<1>4. CoinsInv'
  BY <1>1, <1>2, <1>3 DEF Sound, CoinsInv, Has
<1> QED
  BY <1>1, <1>4, NoView

\* The outputs that DisconnectBlock removes are as the block added them.
LEMMA RemoveSound ==
    ASSUME Sound, RemoveOutputs
    PROVE  ViewInv' /\ CoinsInv'
<1>1. /\ pc = "remove" /\ pc' = "restore" /\ j' = Len(Vin[tx])
      /\ clean' = (clean /\ ViewCoins(tx) = FromTx(tx, Height[cur]))
      /\ UNCHANGED <<active, undo, undoDisk, op, cur, i, failed>>
  BY DEF RemoveOutputs
<1>2. cur \in Hashes \ {Genesis} /\ i \in DOMAIN Vtx[cur] /\ tx = Vtx[cur][i]
  BY <1>1, TxFacts DEF Sound
<1>3. tx \in TxIds /\ Pruned \in Coins /\ Modify(tx, Pruned)
  BY RemoveModifies DEF Sound
<1>4. /\ \A t \in TxIds : /\ ViewCoins(t)' = IF t = tx THEN Pruned ELSE ViewCoins(t)
                          /\ TipCoins(t)' = TipCoins(t)
      /\ TipBestBlock' = TipBestBlock /\ UNCHANGED <<db, dbBest>>
  BY <1>3, ModifyReads DEF Sound
<1>5. undo[cur] # NoUndo /\ Has(undo, cur)
  BY <1>1 DEF Sound, ControlInv, Has
<1>6. Fresh(cur, Len(Vtx[cur])) /\ Found(cur, i)
  BY <1>2, <1>5, HasFacts
<1>7. \A t \in TxIds : /\ CoinsAt(cur, i + 1, 0)[t] =
                            IF t = tx THEN FromTx(t, Height[cur])
                            ELSE CoinsAt(cur, i, Len(Vin[tx]))[t]
                       /\ t = tx => CoinsAt(cur, i, Len(Vin[tx]))[t] = Pruned
  <2>1. \A t \in TxIds : /\ CoinsAt(cur, i + 1, 0)[t] =
                              IF t = Vtx[cur][i] THEN FromTx(t, Height[cur])
                              ELSE CoinsAt(cur, i, Len(Vin[Vtx[cur][i]]))[t]
                         /\ t = Vtx[cur][i] =>
                              CoinsAt(cur, i, Len(Vin[Vtx[cur][i]]))[t] = Pruned
    BY <1>2, <1>6, CoinsAdd
  <2> QED
    BY <1>2, <2>1
<1>8. \A t \in TxIds : Like(ViewCoins(t), CoinsAt(cur, i + 1, 0)[t])
  BY <1>1 DEF Sound, ViewInv, Shows
<1>9. \A t \in TxIds : Like(ViewCoins(t)', CoinsAt(cur, i, Len(Vin[tx]))[t])
  BY <1>3, <1>4, <1>7, <1>8, LikeFacts
<1>10. ViewInv'
  BY <1>1, <1>9 DEF ViewInv, Shows
<1>11. StakesKept => clean'
  <2>1. StakesKept => clean /\ ViewCoins(tx) = FromTx(tx, Height[cur])
    BY <1>3, <1>7, <1>8 DEF Sound, CoinsInv, Like
  <2> QED
    BY <1>1, <2>1
<1>12. pc \in Working /\ pc' \in Working /\ pc' # "abandon"
  BY <1>1 DEF Working
<1> QED
  BY <1>1, <1>4, <1>10, <1>11, <1>12, CoinsWorking DEF Sound

\* An input comes back as it was before it was spent.
LEMMA RestoreSound ==
    ASSUME Sound, RestoreInput
    PROVE  ViewInv' /\ CoinsInv'
<1>1. PICK v, n, c, u, r :
        /\ v = prevout[1] /\ n = prevout[2] /\ c = ViewCoins(v)
        /\ u = undo[cur][i][j] /\ r = Restore(c, u, n)
  OBVIOUS
<1>2. PICK d : d = CoinsAt(cur, i, j - 1)[v]
  OBVIOUS
<1>3. /\ pc = "restore" /\ pc' = "restore" /\ j' = j - 1
      /\ clean' = (clean /\ RestoreClean(c, u, n))
      /\ UNCHANGED <<active, undo, undoDisk, op, cur, i, failed>>
  BY <1>1 DEF RestoreInput
<1>4. cur \in Hashes \ {Genesis} /\ i \in DOMAIN Vtx[cur] /\ Parent[cur] \in Hashes
  BY <1>3, TxFacts DEF Sound
<1>5. /\ v = Vin[Vtx[cur][i]][j][1] /\ n = Vin[Vtx[cur][i]][j][2]
      /\ v \in TxIds /\ n \in Outputs /\ c \in Coins /\ u \in UndoRecord
      /\ r \in Coins /\ Modify(v, r) /\ j \in DOMAIN Vin[Vtx[cur][i]]
  BY <1>1, RestoreModifies DEF Sound
<1>6. /\ \A t \in TxIds : /\ ViewCoins(t)' = IF t = v THEN r ELSE ViewCoins(t)
                          /\ TipCoins(t)' = TipCoins(t)
      /\ TipBestBlock' = TipBestBlock /\ UNCHANGED <<db, dbBest>>
  BY <1>5, ModifyReads DEF Sound
<1>7. undo[cur] # NoUndo /\ Has(undo, cur)
  BY <1>3 DEF Sound, ControlInv, Has
<1>8. Found(cur, i) /\ HeightsKnown(Utxo[Parent[cur]]) /\ UndoTrue(cur, undo)
  BY <1>4, <1>7, HasFacts
<1>9. d \in Coins
  BY <1>2, <1>4, <1>5, SourceCoins
<1>10. n \in d.outs
  BY <1>2, <1>4, <1>5, <1>8, StillThere
<1>11. u.height = SpendUndo(d, n).height
  <2>1. u.height = UndoHeight(cur, i, j)
    BY <1>1, <1>4, <1>5, <1>8 DEF UndoTrue
  <2> QED
    BY <1>2, <1>5, <2>1 DEF UndoHeight
<1>12. d.height # 0
  <2>1. d # Pruned
    BY <1>10, PrunedCoins
  <2> QED
    BY <1>2, <1>4, <1>5, <1>8, <2>1, HeightsFollow
<1>13. StakesKept /\ d.outs = {n} => ~d.stake
  <2>1. Connectable(cur)
    BY <1>8 DEF UndoTrue
  <2> QED
    BY <1>2, <1>4, <1>5, <2>1 DEF StakesKept
<1>14. \A t \in TxIds : CoinsAt(cur, i, j)[t] = IF t = v THEN Less(d, {n})
                                                ELSE CoinsAt(cur, i, j - 1)[t]
  <2>1. \A t \in TxIds : CoinsAt(cur, i, j)[t] =
              IF t = Vin[Vtx[cur][i]][j][1]
              THEN Less(CoinsAt(cur, i, j - 1)[t], {Vin[Vtx[cur][i]][j][2]})
              ELSE CoinsAt(cur, i, j - 1)[t]
    BY <1>4, <1>5, CoinsSpend
  <2> QED
    BY <1>2, <1>5, <2>1
<1>15. \A t \in TxIds : Like(ViewCoins(t), CoinsAt(cur, i, j)[t])
  BY <1>3 DEF Sound, ViewInv, Shows
<1>16. Like(c, Less(d, {n}))
  BY <1>1, <1>5, <1>14, <1>15
<1>17. Like(r, d) /\ RestoreClean(c, u, n)
  BY <1>1, <1>5, <1>9, <1>10, <1>11, <1>12, <1>13, <1>16, LikeRestore
<1>18. \A t \in TxIds : Like(ViewCoins(t)', CoinsAt(cur, i, j - 1)[t])
  BY <1>2, <1>5, <1>6, <1>14, <1>15, <1>17
<1>19. ViewInv'
  BY <1>3, <1>18 DEF ViewInv, Shows
<1>20. StakesKept => clean'
  BY <1>3, <1>17 DEF Sound, CoinsInv
<1>21. pc \in Working /\ pc' \in Working /\ pc' # "abandon"
  BY <1>3 DEF Working
<1> QED
  BY <1>3, <1>6, <1>19, <1>20, <1>21, CoinsWorking DEF Sound

LEMMA NextRemovedSound ==
    ASSUME Sound, NextRemoved
    PROVE  ViewInv' /\ CoinsInv'
<1>1. /\ pc = "restore" /\ j = 0 /\ i > 1 /\ i' = i - 1 /\ pc' = "remove"
      /\ UNCHANGED cacheVars
      /\ UNCHANGED <<active, undo, undoDisk, op, cur, clean, failed>>
  BY DEF NextRemoved
<1>2. SameReads
  BY <1>1, StutterReads
<1>3. i' + 1 = i
  BY <1>1 DEF Sound, ControlInv
<1>4. \A t \in TxIds : Like(ViewCoins(t), CoinsAt(cur, i, 0)[t])
  BY <1>1 DEF Sound, ViewInv, Shows
<1>5. ViewInv'
  BY <1>1, <1>2, <1>3, <1>4 DEF ViewInv, Shows, SameReads
<1>6. pc \in Working /\ pc' \in Working /\ pc' # "abandon"
  BY <1>1 DEF Working
<1> QED
  BY <1>1, <1>2, <1>5, <1>6, CoinsWorking DEF Sound, CoinsInv, SameReads

\* After the first transaction the view shows the coins of the parent.
LEMMA DisconnectedSound ==
    ASSUME Sound, FinishDisconnect
    PROVE  ViewInv' /\ CoinsInv'
<1>1. /\ pc = "restore" /\ j = 0 /\ i = 1 /\ SetBestBlock(Parent[cur])
      /\ pc' = IF op = "verify" THEN "moved" ELSE IF clean THEN "flushview" ELSE "abandon"
      /\ UNCHANGED <<active, undo, undoDisk, op, cur, clean, failed>>
  BY DEF FinishDisconnect, jobVars
<1>2. cur \in Hashes \ {Genesis} /\ Parent[cur] \in Hashes
  BY <1>1, TxFacts DEF Sound
<1>3. /\ \A t \in TxIds : ViewCoins(t)' = ViewCoins(t) /\ TipCoins(t)' = TipCoins(t)
      /\ ViewBestBlock' = Parent[cur] /\ TipBestBlock' = TipBestBlock
      /\ UNCHANGED <<db, dbBest>>
  BY <1>1, <1>2, SetBestBlockReads
<1>4. \A t \in TxIds : Like(ViewCoins(t)', Utxo[Parent[cur]][t])
  BY <1>1, <1>2, <1>3, CoinsStart DEF Sound, ViewInv, Shows
<1>5. op \in {"disconnect", "verify"}
  BY <1>1 DEF Sound, ControlInv
<1>6. pc' = "flushview" => Target' = Parent[cur]
  BY <1>1, <1>5 DEF Target
<1>7. pc' \in {"moved", "flushview", "abandon"}
  BY <1>1
<1>8. ViewInv'
  BY <1>1, <1>3, <1>4, <1>6, <1>7 DEF ViewInv, Shows
<1>9. pc \in Working /\ pc' \in Working
  BY <1>1, <1>7 DEF Working
<1>10. StakesKept => clean /\ pc' # "abandon"
  BY <1>1 DEF Sound, CoinsInv
<1> QED
  BY <1>1, <1>3, <1>8, <1>9, <1>10, CoinsWorking DEF Sound

\* VerifyDB goes on with a block that has undo data.
LEMMA VerifyNextSound ==
    ASSUME Sound, VerifyNext
    PROVE  ViewInv' /\ CoinsInv'
<1>1. /\ pc = "moved" /\ op = "verify" /\ Parent[cur] # Genesis
      /\ cur' = Parent[cur] /\ pc' = "best" /\ clean' = TRUE /\ UNCHANGED cacheVars
      /\ UNCHANGED <<active, undo, undoDisk, op, failed>>
  BY DEF VerifyNext
<1>2. SameReads
  BY <1>1, StutterReads
<1>3. cur \in Hashes \ {Genesis} /\ Has(undo, cur)
  BY <1>1 DEF Sound, ControlInv, CoinsInv
<1>4. Has(undo, Parent[cur])
  BY <1>3, HasFacts
<1>5. Expected' = Parent[cur]
  BY <1>1 DEF Expected, Connecting
<1>6. /\ \A t \in TxIds : Like(ViewCoins(t), Utxo[Parent[cur]][t])
      /\ ViewBestBlock = Parent[cur]
  BY <1>1 DEF Sound, ViewInv, Shows
<1>7. ViewInv'
  BY <1>1, <1>2, <1>5, <1>6 DEF ViewInv, Shows, SameReads
<1>8. CoinsInv'
  BY <1>1, <1>2, <1>4 DEF Sound, CoinsInv, SameReads
<1> QED
  BY <1>7, <1>8

\* The tip takes what the view shows, and its best block.
LEMMA FlushViewSound ==
    ASSUME Sound, FlushView
    PROVE  ViewInv' /\ CoinsInv'
<1>1. /\ pc = "flushview" /\ pc' = "committed" /\ Commit
      /\ UNCHANGED <<active, undo, undoDisk, op, cur, clean, failed>>
  BY DEF FlushView, jobVars
<1>2. /\ viewBest = Target /\ (op = "connect" => undo[cur] # NoUndo)
      /\ op \in {"connect", "disconnect"} /\ cur \in Hashes /\ Target' = Target
  BY <1>1 DEF Sound, ControlInv, Target
<1>3. ViewBestBlock = Target
  BY <1>1, <1>2 DEF Commit, ViewBestBlock
<1>4. /\ \A t \in TxIds : TipCoins(t)' = ViewCoins(t)
      /\ TipBestBlock' = Target /\ UNCHANGED <<db, dbBest>>
  BY <1>1, <1>3, CommitReads DEF Sound
<1>5. \A t \in TxIds : Like(ViewCoins(t), Utxo[Target][t])
  BY <1>1 DEF Sound, ViewInv, Shows
<1>6. Has(undo, Target)
  <2>1. CASE op = "connect"
    BY <1>2, <2>1 DEF Target, Has
  <2>2. CASE op = "disconnect"
    <3>1. cur \in Hashes \ {Genesis} /\ Has(undo, cur)
      BY <2>2 DEF Sound, ControlInv, CoinsInv
    <3> QED
      BY <2>2, <3>1, HasFacts DEF Target
  <2> QED
    BY <1>2, <2>1, <2>2
<1>7. CoinsInv'
  BY <1>1, <1>2, <1>4, <1>5, <1>6 DEF Sound, CoinsInv
<1> QED
  BY <1>1, <1>7, NoView

\* From here the undo data of the tip's block is on disk.
LEMMA WriteIndexSound ==
    ASSUME Sound, WriteIndex
    PROVE  ViewInv' /\ CoinsInv'
<1>1. /\ \/ pc = "committed" /\ op' = op
         \/ pc = "idle" /\ op' = "flush"
      /\ undoDisk' = undo /\ pc' = "indexed" /\ UNCHANGED cacheVars
      /\ UNCHANGED <<active, undo, cur, clean, failed>>
  BY DEF WriteIndex
<1>2. SameReads
  BY <1>1, StutterReads
<1>3. TipBestBlock = Target'
  BY <1>1 DEF Sound, CoinsInv, Target
<1>4. op' \in {"disconnect", "verify"} => Has(undo, cur)
  BY <1>1 DEF Sound, CoinsInv
<1>5. CoinsInv'
  BY <1>1, <1>2, <1>3, <1>4 DEF Sound, CoinsInv, SameReads
<1> QED
  BY <1>1, <1>5, NoView

\* The database takes what the tip shows, with undo data on disk for it.
LEMMA WriteCoinsSound ==
    ASSUME Sound, WriteCoins
    PROVE  ViewInv' /\ CoinsInv'
<1>1. /\ pc = "indexed" /\ pc' = "flushed" /\ FlushTip
      /\ UNCHANGED <<active, undo, undoDisk, op, cur, clean, failed>>
  BY DEF WriteCoins, jobVars
<1>2. /\ \A t \in TxIds : TipCoins(t)' = TipCoins(t) /\ db'[t] = TipCoins(t)
      /\ dbBest' = TipBestBlock /\ TipBestBlock' = TipBestBlock
  BY <1>1, FlushTipReads DEF Sound
<1>3. Target' = Target
  BY <1>1 DEF Target
<1>4. CoinsInv'
  BY <1>1, <1>2, <1>3 DEF Sound, CoinsInv
<1> QED
  BY <1>1, <1>4, NoView

LEMMA UpdateSound ==
    ASSUME Sound, UpdateTip
    PROVE  ViewInv' /\ CoinsInv'
<1>1. /\ pc' = "idle" /\ op' = "none" /\ clean' = TRUE /\ UNCHANGED cacheVars
      /\ UNCHANGED <<undo, undoDisk, failed>>
  BY DEF UpdateTip, Idle
<1>2. SameReads
  BY <1>1, StutterReads
<1>3. pc \in {"committed", "flushed"} /\ active' = Target
  BY NewTip DEF Sound
<1>4. CoinsInv'
  BY <1>1, <1>2, <1>3 DEF Sound, CoinsInv, SameReads
<1> QED
  BY <1>1, <1>4, NoView

LEMMA ReadSound ==
    ASSUME Sound, NEW t \in TxIds, ReadTip(t)
    PROVE  ViewInv' /\ CoinsInv'
<1>1. pc = "idle" /\ UNCHANGED <<active, undo, undoDisk, pc, op, cur, clean, failed>>
  BY DEF ReadTip, jobVars
<1>2. SameReads
  BY TipAccessReads DEF ReadTip, Sound
<1>3. CoinsInv'
  BY <1>1, <1>2 DEF Sound, CoinsInv, SameReads
<1> QED
  BY <1>1, <1>3, NoView

\* What a restart finds is a block with its coins and undo data.
LEMMA RestartSound ==
    ASSUME Sound, Restart
    PROVE  ViewInv' /\ CoinsInv'
<1>1. /\ pc' = "idle" /\ op' = "none" /\ clean' = TRUE /\ Crash
      /\ active' = dbBest /\ undo' = undoDisk /\ UNCHANGED <<undoDisk, failed>>
  BY DEF Restart, Idle
<1>2. /\ \A t \in TxIds : TipCoins(t)' = db[t]
      /\ TipBestBlock' = dbBest /\ UNCHANGED <<db, dbBest>>
  BY <1>1, CrashReads
<1>3. CoinsInv'
  BY <1>1, <1>2 DEF Sound, CoinsInv
<1> QED
  BY <1>1, <1>3, NoView

LEMMA SoundStep ==
    ASSUME Sound, Next, ~failed'
    PROVE  ViewInv' /\ CoinsInv'
<1>1. CASE \E b \in Hashes : ConnectTip(b) \/ TestBlockValidity(b)
  BY <1>1, BeginSound DEF ConnectTip, TestBlockValidity
<1>2. CASE DisconnectTip \/ VerifyDB
  <2>1. active \in Hashes
    BY DEF Sound, ControlInv
  <2> QED
    BY <1>2, <2>1, BeginSound DEF DisconnectTip, VerifyDB
<1>3. CASE AssertBestBlock
  BY <1>3, AssertSound
<1>4. CASE CheckOverwrite
  BY <1>4, OverwriteSound
<1>5. CASE CheckInputs
  BY <1>5, InputsSound
<1>6. CASE SpendInput
  BY <1>6, SpendSound
<1>7. CASE AddOutputs
  BY <1>7, AddSound
<1>8. CASE FinishConnect
  BY <1>8, FinishSound
<1>9. CASE Abandon
  BY <1>9, AbandonSound
<1>10. CASE RemoveOutputs
  BY <1>10, RemoveSound
<1>11. CASE RestoreInput
  BY <1>11, RestoreSound
<1>12. CASE NextRemoved
  BY <1>12, NextRemovedSound
<1>13. CASE FinishDisconnect
  BY <1>13, DisconnectedSound
<1>14. CASE VerifyNext
  BY <1>14, VerifyNextSound
<1>15. CASE FlushView
  BY <1>15, FlushViewSound
<1>16. CASE WriteIndex
  BY <1>16, WriteIndexSound
<1>17. CASE WriteCoins
  BY <1>17, WriteCoinsSound
<1>18. CASE WriteCoinsFails
  BY <1>18 DEF WriteCoinsFails
<1>19. CASE UpdateTip
  BY <1>19, UpdateSound
<1>20. CASE \E t \in TxIds : ReadTip(t)
  BY <1>20, ReadSound
<1>21. CASE Restart
  BY <1>21, RestartSound
<1> QED
  BY <1>1, <1>2, <1>3, <1>4, <1>5, <1>6, <1>7, <1>8, <1>9, <1>10, <1>11, <1>12, <1>13, <1>14,
     <1>15, <1>16, <1>17, <1>18, <1>19, <1>20, <1>21 DEF Next

-----------------------------------------------------------------------------
(* The theorems *)

LEMMA InvInit == Init => IInv
<1> SUFFICES ASSUME Init PROVE IInv
  OBVIOUS
<1>1. /\ db = [t \in TxIds |-> Pruned] /\ dbBest = Genesis /\ CacheInit
      /\ active = Genesis /\ undo = [b \in Hashes |-> NoUndo] /\ undoDisk = undo
      /\ op = "none" /\ pc = "idle" /\ cur = Genesis /\ i = 0 /\ j = 0
      /\ blockundo = << >> /\ clean = TRUE /\ failed = FALSE
  BY DEF Init
<1>2. CacheInv
  BY <1>1, CacheInvInit
<1>3. UndoInv(undo) /\ UndoInv(undoDisk)
  <2>1. undo \in [Hashes -> BlockUndo \cup {NoUndo}] /\ \A b \in Hashes : undo[b] = NoUndo
    BY <1>1
  <2> QED
    BY <1>1, <2>1 DEF UndoInv
<1>4. open = FALSE /\ tip = EmptyCache /\ tipBest = NoHash
  BY <1>1 DEF CacheInit
<1>5. ControlInv
  BY <1>1, <1>4, TreeAssumption DEF ControlInv, Connecting, Working, Applying
<1>6. RecordsInv
  BY <1>1 DEF RecordsInv, BlockUndo, Connecting, Applying
<1>7. ViewInv
  BY <1>1 DEF ViewInv
<1>8. CoinsInv
  <2>1. TipBestBlock = Genesis /\ \A t \in TxIds : TipCoins(t) = Pruned /\ db[t] = Pruned
    BY <1>1, <1>4 DEF TipBestBlock, TipCoins, EmptyCache
  <2>2. \A t \in TxIds : Utxo[Genesis][t] = Pruned
    BY UtxoAssumption
  <2> QED
    BY <1>1, <2>1, <2>2, PrunedCoins, LikeFacts DEF CoinsInv, Has
<1> QED
  BY <1>2, <1>3, <1>5, <1>6, <1>7, <1>8 DEF IInv

LEMMA InvStep == IInv /\ [Next]_vars => IInv'
<1>1. CASE Next
  <2> SUFFICES ASSUME IInv, Next PROVE IInv'
    BY <1>1
  <2>1. /\ CacheInv /\ UndoInv(undo) /\ UndoInv(undoDisk) /\ ControlInv /\ RecordsInv
        /\ blockundo \in BlockUndo /\ (~failed => Sound)
    BY DEF IInv, Sound, RecordsInv
  <2>2. CacheInv'
    BY <2>1, CacheStep, CacheInvStep
  <2>3. ControlInv'
    BY <2>1, ControlStep
  <2>4. RecordsInv'
    <3>1. ~failed /\ pc = "spend" => Shows(CoinsAt(cur, i, j - 1))
      BY <2>1 DEF Sound, ViewInv
    <3> QED
      BY <2>1, <3>1, RecordsStep
  <2>5. UndoInv(undo)' /\ UndoInv(undoDisk)'
    BY <2>1, UndoStep DEF Sound
  <2>6. failed => failed'
    BY DEF Next, ConnectTip, TestBlockValidity, DisconnectTip, VerifyDB, Begin, AssertBestBlock,
       CheckOverwrite, CheckInputs, SpendInput, AddOutputs, FinishConnect, Abandon, RemoveOutputs,
       RestoreInput, NextRemoved, FinishDisconnect, VerifyNext, FlushView, WriteIndex, WriteCoins,
       WriteCoinsFails, UpdateTip, ReadTip, Restart
  <2>7. ~failed' => ViewInv' /\ CoinsInv'
    BY <2>1, <2>6, SoundStep
  <2> QED
    BY <2>2, <2>3, <2>4, <2>5, <2>7 DEF IInv
<1>2. CASE UNCHANGED vars
  BY <1>2 DEF vars, cacheVars, IInv, CacheInv, CacheTypeOK, FlagsSound, BatchWriteAssertion,
     CacheClosed, TipCoins, ViewCoins, UndoInv, UndoTrue, ControlInv, RecordsInv, ViewInv,
     CoinsInv, Shows, Target, Connecting, TipBestBlock, ViewBestBlock, Expected, tx, Has
<1> QED
  BY <1>1, <1>2

\* The inductive invariant holds throughout.
THEOREM Invariant == Spec => []IInv
  BY InvInit, InvStep, PTL DEF Spec

LEMMA TypesFollow == IInv => TypeOK
  BY DEF IInv, CacheInv, UndoInv, ControlInv, RecordsInv, TypeOK, Working

\* The input to be spent is there: the inputs of a transaction differ.
LEMMA SpendFollows == IInv => SpendAssertion
<1> SUFFICES ASSUME IInv, ~failed, pc = "spend", j <= Len(Vin[tx])
             PROVE  prevout[2] \in ViewCoins(prevout[1]).outs
  BY DEF SpendAssertion
<1>1. ControlInv /\ Shows(CoinsAt(cur, i, j - 1)) /\ Found(cur, i)
  BY DEF IInv, ViewInv
<1>2. /\ cur \in Hashes \ {Genesis} /\ i \in DOMAIN Vtx[cur] /\ tx = Vtx[cur][i]
      /\ j \in DOMAIN Vin[tx] /\ prevout = Vin[tx][j] /\ prevout[1] \in TxIds
  <2>1. /\ cur \in Hashes \ {Genesis} /\ i \in DOMAIN Vtx[cur] /\ tx = Vtx[cur][i]
        /\ DOMAIN Vin[tx] = 1..Len(Vin[tx])
        /\ \A l \in 1..Len(Vin[tx]) : Vin[tx][l][1] \in TxIds
    BY <1>1, TxFacts
  <2>2. j \in 1..Len(Vin[tx])
    BY <1>1 DEF ControlInv
  <2> QED
    BY <2>1, <2>2 DEF prevout
<1>3. Vin[Vtx[cur][i]][j][2] \in CoinsAt(cur, i, j - 1)[Vin[Vtx[cur][i]][j][1]].outs
  BY <1>1, <1>2, StillThere
<1>4. Like(ViewCoins(prevout[1]), CoinsAt(cur, i, j - 1)[prevout[1]])
  BY <1>1, <1>2 DEF Shows
<1> QED
  BY <1>2, <1>3, <1>4 DEF Like

LEMMA BestBlockFollows == IInv => BestBlockAssertion
  BY DEF IInv, ViewInv, CoinsInv, BestBlockAssertion

\* UpdateCoins finds every input that CheckInputs found, ConnectBlock and
\* DisconnectBlock find the view on the block they start from, and every variable
\* keeps its type: undo data is one record per transaction and input.
THEOREM AssertionsTheorem == Spec => []AssertionsHold
<1>1. IInv => AssertionsHold
  BY TypesFollow, SpendFollows, BestBlockFollows DEF AssertionsHold
<1> QED
  BY <1>1, Invariant, PTL

\* coins.h, GetBestBlock: the tip always holds the unspent outputs of its best block,
\* with the height of the block that added them, and so does the database, which is
\* what a restart finds. Only fCoinStake is left out, which undo data does not keep.
THEOREM OutputsTheorem ==
    Spec => [](~failed => \A t \in TxIds :
                  /\ TipCoins(t).outs = Utxo[TipBestBlock][t].outs
                  /\ TipCoins(t).height = Utxo[TipBestBlock][t].height
                  /\ db[t].outs = Utxo[dbBest][t].outs
                  /\ db[t].height = Utxo[dbBest][t].height)
<1>1. IInv => (~failed => \A t \in TxIds :
                  /\ TipCoins(t).outs = Utxo[TipBestBlock][t].outs
                  /\ TipCoins(t).height = Utxo[TipBestBlock][t].height
                  /\ db[t].outs = Utxo[dbBest][t].outs
                  /\ db[t].height = Utxo[dbBest][t].height)
  BY DEF IInv, CoinsInv, Like
<1> QED
  BY <1>1, Invariant, PTL

\* The same with the flag, where no block spends the last output of a coinstake:
\* the tip is its best block's coins exactly.
THEOREM TipTheorem == StakesKept => (Spec => []TipRepresentsBest)
<1> SUFFICES ASSUME StakesKept PROVE Spec => []TipRepresentsBest
  OBVIOUS
<1>1. IInv => TipRepresentsBest
  <2> SUFFICES ASSUME IInv, ~failed PROVE [t \in TxIds |-> TipCoins(t)] = Utxo[TipBestBlock]
    BY DEF TipRepresentsBest
  <2>1. \A t \in TxIds : TipCoins(t) = Utxo[TipBestBlock][t]
    BY DEF IInv, CoinsInv, Like
  <2>2. TipBestBlock \in Hashes
    BY DEF IInv, CacheInv, CacheTypeOK, TipBestBlock
  <2> QED
    BY <2>1, <2>2, UtxoAssumption
<1> QED
  BY <1>1, Invariant, PTL

\* And so is the database, at every moment at which the process may end.
THEOREM DiskTheorem == StakesKept => (Spec => []DiskRepresentsBest)
<1> SUFFICES ASSUME StakesKept PROVE Spec => []DiskRepresentsBest
  OBVIOUS
<1>1. IInv => DiskRepresentsBest
  <2> SUFFICES ASSUME IInv, ~failed PROVE db = Utxo[dbBest]
    BY DEF DiskRepresentsBest
  <2>1. \A t \in TxIds : db[t] = Utxo[dbBest][t]
    BY DEF IInv, CoinsInv, Like
  <2>2. dbBest \in Hashes /\ db \in [TxIds -> Coins]
    BY DEF IInv, CacheInv, CacheTypeOK
  <2> QED
    BY <2>1, <2>2, UtxoAssumption
<1> QED
  BY <1>1, Invariant, PTL

\* DisconnectBlock is always clean there: the outputs it takes out are as the block
\* added them, the undo data is there and restores over nothing; and ConnectBlock
\* refuses only blocks that the reference refuses.
THEOREM CleanTheorem == StakesKept => (Spec => []DisconnectClean)
<1> SUFFICES ASSUME StakesKept PROVE Spec => []DisconnectClean
  OBVIOUS
<1>1. IInv => DisconnectClean
  BY DEF IInv, CoinsInv, DisconnectClean
<1> QED
  BY <1>1, Invariant, PTL

\* Connecting and disconnecting use the views only through their operations, with
\* coins that are coins: the stack is a behaviour of CoinsCache.
THEOREM ViewsTheorem == Spec => CacheSpec
<1>1. Init => CacheInit
  BY DEF Init
<1>2. IInv /\ [Next]_vars => [CacheNext]_cacheVars
  <2>1. IInv /\ Next => [CacheNext]_cacheVars
    BY CacheStep DEF IInv
  <2>2. UNCHANGED vars => UNCHANGED cacheVars
    BY DEF vars
  <2> QED
    BY <2>1, <2>2
<1> QED
  BY <1>1, <1>2, Invariant, PTL DEF Spec, CacheSpec

\* So its flags are sound, and the assertion of BatchWrite holds, under every
\* connect, disconnect, flush and crash,
THEOREM ChainFlagsTheorem == Spec => [](FlagsSound /\ BatchWriteAssertion)
  BY ViewsTheorem, FlagsTheorem, BatchWriteTheorem, PTL

\* and reading through it is reading the one table of Coins.
THEOREM ChainViewsTheorem == Spec => ImplementsCoins
  BY ViewsTheorem, Refinement, PTL
=============================================================================
