---------------------------- MODULE SwiftTXProofs ----------------------------
(***************************************************************************)
(* What CTxMemPool::check asserts, the orphan index, the reasons for which *)
(* a transaction leaves the pool and the votes of a lock, for any          *)
(* transactions, blocks, peers and masternodes.                            *)
(***************************************************************************)
EXTENDS SwiftTX, FiniteSetTheorems, SequenceTheorems, TLAPS

(* The pool's two maps agree. *)
PoolExact ==
  /\ mapTx \subseteq Txs \ Generated
  /\ mapNextTx \in [Outpoints -> Txs \cup {NoTx}]
  /\ NextTxExact

-----------------------------------------------------------------------------
(* Outpoints, inputs and outputs *)

LEMMA InputsAreOutpoints ==
  ASSUME NEW t \in Txs
  PROVE  Inputs(t) \subseteq Outpoints
<1>1. Vin[t] \in Seq(Outpoints)
  BY TransactionAssumption
<1>2. QED
  BY <1>1 DEF Inputs, Range

LEMMA OutputsOf ==
  ASSUME NEW t \in Txs, NEW o \in Outputs(t)
  PROVE  o \in Outpoints /\ o[1] = t
BY DEF Outputs, Outpoints

LEMMA OutpointOf ==
  ASSUME NEW o \in Outpoints
  PROVE  o[1] \in Txs /\ o \in Outputs(o[1])
<1>1. PICK t \in Txs : o \in Outputs(t)
  BY DEF Outpoints
<1>2. QED
  BY <1>1, OutputsOf

LEMMA InputOf ==
  ASSUME NEW t \in Txs, NEW o \in Inputs(t)
  PROVE  o \in Outpoints /\ o[1] \in Txs /\ o \in Outputs(o[1]) /\ o[1] # t
BY InputsAreOutpoints, OutpointOf, TransactionAssumption

-----------------------------------------------------------------------------
(* Spenders and descendants *)

LEMMA SpenderInPool ==
  ASSUME PoolExact, NEW o \in Outpoints, mapNextTx[o] # NoTx
  PROVE  mapNextTx[o] \in mapTx /\ o \in Inputs(mapNextTx[o])
BY DEF PoolExact, NextTxExact

LEMMA SpendersInPool ==
  ASSUME PoolExact, NEW u \in Txs
  PROVE  \A t \in Spenders(u) : t \in mapTx /\ \E o \in Inputs(t) : o[1] = u
<1> SUFFICES ASSUME NEW t \in Spenders(u)
             PROVE  t \in mapTx /\ \E o \in Inputs(t) : o[1] = u
  OBVIOUS
<1>1. PICK o \in Outputs(u) : t = mapNextTx[o] /\ t # NoTx
  BY DEF Spenders
<1>2. o \in Outpoints /\ o[1] = u
  BY OutputsOf
<1>3. QED
  BY <1>1, <1>2, SpenderInPool

LEMMA SpenderOf ==
  ASSUME PoolExact, NEW t \in mapTx, NEW o \in Inputs(t)
  PROVE  mapNextTx[o] = t /\ t \in Spenders(o[1])
<1>1. t \in Txs /\ t # NoTx
  BY TransactionAssumption DEF PoolExact
<1>2. o \in Outpoints /\ o \in Outputs(o[1])
  BY <1>1, InputOf
<1>3. mapNextTx[o] = t
  BY <1>1, <1>2 DEF PoolExact, NextTxExact
<1>4. QED
  BY <1>1, <1>2, <1>3 DEF Spenders

(* The descendants of S are the least set of pool transactions that holds S and *)
(* the spenders of each of its members.                                         *)
LEMMA DescendantsOf ==
  ASSUME PoolExact, NEW S \in SUBSET mapTx
  PROVE  /\ Descendants(S) \subseteq mapTx
         /\ S \subseteq Descendants(S)
         /\ \A u \in Descendants(S) : Spenders(u) \subseteq Descendants(S)
         /\ \A X \in SUBSET mapTx :
              S \subseteq X /\ (\A u \in X : Spenders(u) \subseteq X) => Descendants(S) \subseteq X
         /\ \A t \in Descendants(S) \ S : \E u \in Descendants(S) : t \in Spenders(u)
<1>1. Descendants(S) \subseteq mapTx /\ S \subseteq Descendants(S)
  BY DEF Descendants
<1>2. \A X \in SUBSET mapTx :
        S \subseteq X /\ (\A u \in X : Spenders(u) \subseteq X) => Descendants(S) \subseteq X
  BY DEF Descendants
<1>3. ASSUME NEW u \in Descendants(S), NEW t \in Spenders(u)
      PROVE  t \in Descendants(S)
  <2>1. u \in Txs /\ t \in mapTx
    BY <1>1, SpendersInPool DEF PoolExact
  <2>2. QED
    BY <2>1 DEF Descendants
<1>4. ASSUME NEW t \in Descendants(S) \ S, \A u \in Descendants(S) : t \notin Spenders(u)
      PROVE  FALSE
  <2> DEFINE X == Descendants(S) \ {t}
  <2>1. X \in SUBSET mapTx /\ S \subseteq X
    BY <1>1
  <2>2. \A u \in X : Spenders(u) \subseteq X
    BY <1>3, <1>4
  <2>3. Descendants(S) \subseteq X
    BY <1>2, <2>1, <2>2
  <2>4. QED
    BY <2>3
<1>5. QED
  BY <1>1, <1>2, <1>3, <1>4

-----------------------------------------------------------------------------
(* Adding and erasing keep the pool's two maps in agreement. *)

LEMMA AddKeepsExact ==
  ASSUME PoolExact, NEW t \in Txs \ Generated, ~PoolConflict(t), addUnchecked(t)
  PROVE  PoolExact'
<1>1. t # NoTx /\ Inputs(t) \subseteq Outpoints
  BY TransactionAssumption, InputsAreOutpoints
<1>2. mapTx' = mapTx \cup {t} /\ mapTx' \subseteq Txs \ Generated
  BY DEF addUnchecked, PoolExact
<1>3. mapNextTx' \in [Outpoints -> Txs \cup {NoTx}]
  BY DEF addUnchecked, PoolExact
<1>4. ASSUME NEW o \in Outpoints, NEW u \in Txs
      PROVE  mapNextTx'[o] = u <=> u \in mapTx' /\ o \in Inputs(u)
  <2>1. mapNextTx'[o] = IF o \in Inputs(t) THEN t ELSE mapNextTx[o]
    BY DEF addUnchecked
  <2>2. mapNextTx[o] = u <=> u \in mapTx /\ o \in Inputs(u)
    BY DEF PoolExact, NextTxExact
  <2>3. o \in Inputs(t) => mapNextTx[o] = NoTx
    BY DEF PoolConflict
  <2>4. u # NoTx
    BY TransactionAssumption
  <2>5. QED
    BY <1>2, <2>1, <2>2, <2>3, <2>4
<1>5. QED
  BY <1>2, <1>3, <1>4 DEF PoolExact, NextTxExact

LEMMA EraseKeepsExact ==
  ASSUME PoolExact, NEW R \in SUBSET mapTx, Erase(R)
  PROVE  PoolExact'
<1>1. mapTx' = mapTx \ R /\ mapTx' \subseteq Txs \ Generated
  BY DEF Erase, PoolExact
<1>2. mapNextTx' \in [Outpoints -> Txs \cup {NoTx}]
  BY DEF Erase, PoolExact
<1>3. ASSUME NEW o \in Outpoints, NEW u \in Txs
      PROVE  mapNextTx'[o] = u <=> u \in mapTx' /\ o \in Inputs(u)
  <2>1. mapNextTx'[o] = IF \E t \in R : o \in Inputs(t) THEN NoTx ELSE mapNextTx[o]
    BY DEF Erase
  <2>2. \A v \in Txs : mapNextTx[o] = v <=> v \in mapTx /\ o \in Inputs(v)
    BY DEF PoolExact, NextTxExact
  <2>3. u # NoTx /\ R \subseteq Txs
    BY TransactionAssumption DEF PoolExact
  <2>4. QED
    BY <1>1, <2>1, <2>2, <2>3
<1>4. QED
  BY <1>1, <1>2, <1>3 DEF PoolExact, NextTxExact

-----------------------------------------------------------------------------
(* The active chain *)

LEMMA ConfirmedFacts ==
  ASSUME IsValidChain(chain)
  PROVE  /\ chain \in Seq(Seq(Txs))
         /\ Confirmed \subseteq Txs
         /\ \A t : t \in Confirmed <=> \E h \in 1..Len(chain) : t \in Range(chain[h])
         /\ \A t \in Confirmed : \A o \in Inputs(t) : o[1] \in Confirmed
         /\ \A t, u \in Confirmed : t # u => Inputs(t) \cap Inputs(u) = {}
<1>1. chain \in Seq(Seq(Txs)) /\ DOMAIN chain = 1..Len(chain) /\ Len(chain) \in Nat
  BY DEF IsValidChain
<1>2. \A t : t \in Confirmed <=> \E h \in 1..Len(chain) : t \in Range(chain[h])
  BY <1>1 DEF Confirmed, TxsOf
<1>3. \A h \in 1..Len(chain) : chain[h] \in Seq(Txs) /\ Range(chain[h]) \subseteq Txs
  BY <1>1 DEF Range
<1>4. \A t, u \in Confirmed : t # u => Inputs(t) \cap Inputs(u) = {}
  BY DEF IsValidChain, Confirmed
<1>5. ASSUME NEW t \in Confirmed, NEW o \in Inputs(t)
      PROVE  o[1] \in Confirmed
  <2>1. PICK h \in 1..Len(chain) : t \in Range(chain[h])
    BY <1>2
  <2>2. PICK g \in 1..h : o[1] \in Range(chain[g])
    BY <1>1, <2>1 DEF IsValidChain
  <2>3. g \in 1..Len(chain)
    BY <1>1, <2>1, <2>2
  <2>4. QED
    BY <1>2, <2>2, <2>3
<1>6. QED
  BY <1>1, <1>2, <1>3, <1>4, <1>5

LEMMA HeightOf ==
  ASSUME IsValidChain(chain), NEW h \in 1..Len(chain), NEW t \in Range(chain[h])
  PROVE  Height(t) = h - 1
<1>1. h \in DOMAIN chain /\ DOMAIN chain \subseteq Int
  BY DEF IsValidChain
<1>2. \A g \in DOMAIN chain : t \in Range(chain[g]) => g = h
  BY <1>1 DEF IsValidChain
<1>3. (CHOOSE g \in DOMAIN chain : t \in Range(chain[g])) = h
  BY <1>1, <1>2
<1>4. QED
  BY <1>3 DEF Height

LEMMA HeightNat ==
  ASSUME IsValidChain(chain), NEW t \in Confirmed
  PROVE  Height(t) \in Nat
<1>1. PICK h \in 1..Len(chain) : t \in Range(chain[h])
  BY ConfirmedFacts
<1>2. Height(t) = h - 1
  BY <1>1, HeightOf
<1>3. Len(chain) \in Nat
  BY DEF IsValidChain
<1>4. QED
  BY <1>2, <1>3

(* What Connectable says of the block. *)
LEMMA ConnectableFacts ==
  ASSUME NEW b \in Seq(Txs), Connectable(b)
  PROVE  /\ IsInjective(b)
         /\ Range(b) \cap Confirmed = {}
         /\ \A k \in 1..Len(b) : \A o \in Inputs(b[k]) :
              IsAvailable(o) \/ \E l \in 1..(k - 1) : o[1] = b[l]
         /\ \A k \in 1..Len(b) : \A o \in Inputs(b[k]) : \A l \in 1..(k - 1) : o \notin Inputs(b[l])
<1> DEFINE before(k) == {b[l] : l \in 1..(k - 1)}
<1>1. Len(b) \in Nat /\ DOMAIN b = 1..Len(b)
  OBVIOUS
<1>2. \A k \in 1..Len(b) :
        /\ b[k] \notin Confirmed /\ b[k] \notin before(k)
        /\ \A o \in Inputs(b[k]) : (IsAvailable(o) \/ o[1] \in before(k)) /\ \A u \in before(k) : o \notin Inputs(u)
  BY <1>1 DEF Connectable
<1>3. ASSUME NEW k \in 1..Len(b), NEW l \in 1..Len(b), b[k] = b[l], k < l
      PROVE  FALSE
  <2>1. k \in 1..(l - 1)
    BY <1>1, <1>3
  <2>2. b[k] \in before(l)
    BY <2>1
  <2>3. QED
    BY <1>2, <1>3, <2>2
<1>4. IsInjective(b)
  <2> SUFFICES ASSUME NEW k \in 1..Len(b), NEW l \in 1..Len(b), b[k] = b[l]
               PROVE  k = l
    BY <1>1 DEF IsInjective
  <2>1. k < l \/ l < k \/ k = l
    BY <1>1
  <2>2. QED
    BY <1>3, <2>1
<1>5. Range(b) \cap Confirmed = {}
  BY <1>1, <1>2 DEF Range
<1>6. ASSUME NEW k \in 1..Len(b), NEW o \in Inputs(b[k])
      PROVE  /\ IsAvailable(o) \/ \E l \in 1..(k - 1) : o[1] = b[l]
             /\ \A l \in 1..(k - 1) : o \notin Inputs(b[l])
  <2>1. IsAvailable(o) \/ o[1] \in before(k)
    BY <1>2
  <2>2. \A u \in before(k) : o \notin Inputs(u)
    BY <1>2
  <2>3. \A l \in 1..(k - 1) : b[l] \in before(k)
    OBVIOUS
  <2>4. QED
    BY <2>1, <2>2, <2>3
<1>7. QED
  BY <1>4, <1>5, <1>6

LEMMA ConnectChain ==
  ASSUME IsValidChain(chain), NEW b \in Seq(Txs), Connectable(b), chain' = Append(chain, b)
  PROVE  /\ IsValidChain(chain)'
         /\ Confirmed' = Confirmed \cup Range(b)
         /\ TipHeight' = TipHeight + 1
         /\ \A t \in Confirmed : Height(t)' = Height(t)
<1> DEFINE n == Len(chain)
<1>1. /\ chain \in Seq(Seq(Txs)) /\ n \in Nat /\ DOMAIN chain = 1..n
      /\ chain' \in Seq(Seq(Txs)) /\ Len(chain') = n + 1 /\ DOMAIN chain' = 1..(n + 1)
      /\ \A h \in 1..n : chain'[h] = chain[h]
      /\ chain'[n + 1] = b
  BY DEF IsValidChain
<1>2. Confirmed' = Confirmed \cup Range(b)
  <2>1. \A h \in 1..(n + 1) : h \in 1..n \/ h = n + 1
    BY <1>1
  <2>2. 1..n \subseteq 1..(n + 1) /\ n + 1 \in 1..(n + 1)
    BY <1>1
  <2>3. QED
    BY <1>1, <2>1, <2>2 DEF Confirmed, TxsOf
<1>3. \A t : t \in Confirmed <=> \E h \in 1..n : t \in Range(chain[h])
  BY ConfirmedFacts
<1>4. \A h \in 1..(n + 1) : h \in 1..n \/ h = n + 1
  BY <1>1
<1>5. \A h \in 1..(n + 1) : IsInjective(chain'[h])
  <2>1. \A h \in 1..n : IsInjective(chain[h])
    BY <1>1 DEF IsValidChain
  <2>2. QED
    BY <1>1, <1>4, <2>1, ConnectableFacts
<1>6. \A g, h \in 1..(n + 1) : g # h => Range(chain'[g]) \cap Range(chain'[h]) = {}
  <2>1. \A g, h \in 1..n : g # h => Range(chain[g]) \cap Range(chain[h]) = {}
    BY <1>1 DEF IsValidChain
  <2>2. \A h \in 1..n : Range(chain[h]) \cap Range(b) = {}
    BY <1>3, ConnectableFacts
  <2>3. QED
    BY <1>1, <1>4, <2>1, <2>2
<1>7. ASSUME NEW h \in 1..(n + 1), NEW t \in Range(chain'[h]), NEW o \in Inputs(t)
      PROVE  \E g \in 1..h : o[1] \in Range(chain'[g])
  <2>1. CASE h \in 1..n
    <3>1. PICK g \in 1..h : o[1] \in Range(chain[g])
      BY <1>1, <2>1 DEF IsValidChain
    <3>2. g \in 1..n
      BY <1>1, <2>1
    <3>3. QED
      BY <1>1, <3>1, <3>2
  <2>2. CASE h = n + 1
    <3>1. PICK k \in 1..Len(b) : t = b[k]
      BY <1>1, <2>2 DEF Range
    <3>2. CASE IsAvailable(o)
      <4>1. PICK g \in 1..n : o[1] \in Range(chain[g])
        BY <1>3, <3>2 DEF IsAvailable
      <4>2. g \in 1..h
        BY <1>1, <2>2
      <4>3. QED
        BY <1>1, <4>1, <4>2
    <3>3. CASE \E l \in 1..(k - 1) : o[1] = b[l]
      <4>1. PICK l \in 1..(k - 1) : o[1] = b[l]
        BY <3>3
      <4>2. l \in DOMAIN b /\ n + 1 \in 1..h
        BY <1>1, <2>2
      <4>3. QED
        BY <1>1, <4>1, <4>2 DEF Range
    <3>4. QED
      BY <3>1, <3>2, <3>3, ConnectableFacts
  <2>3. QED
    BY <1>4, <2>1, <2>2
<1>8. ASSUME NEW t \in Confirmed', NEW u \in Confirmed', t # u, NEW o \in Inputs(t), o \in Inputs(u)
      PROVE  FALSE
  <2>1. ASSUME NEW v \in Confirmed, o \in Inputs(v), NEW k \in 1..Len(b), o \in Inputs(b[k])
        PROVE  FALSE
    <3>1. o[1] \in Confirmed
      BY <2>1, ConfirmedFacts
    <3>2. ~IsAvailable(o)
      BY <2>1 DEF IsAvailable
    <3>3. PICK l \in 1..(k - 1) : o[1] = b[l]
      BY <2>1, <3>2, ConnectableFacts
    <3>4. l \in DOMAIN b
      OBVIOUS
    <3>5. QED
      BY <3>1, <3>3, <3>4, ConnectableFacts DEF Range
  <2>2. ASSUME NEW k \in 1..Len(b), o \in Inputs(b[k]), NEW l \in 1..Len(b), o \in Inputs(b[l]), k < l
        PROVE  FALSE
    <3>1. k \in 1..(l - 1)
      BY <2>2
    <3>2. QED
      BY <2>2, <3>1, ConnectableFacts
  <2>3. \A v \in Range(b) : \E k \in 1..Len(b) : v = b[k]
    BY DEF Range
  <2>4. CASE t \in Confirmed /\ u \in Confirmed
    BY <1>8, <2>4, ConfirmedFacts
  <2>5. CASE t \in Confirmed /\ u \in Range(b)
    BY <1>8, <2>1, <2>3, <2>5
  <2>6. CASE t \in Range(b) /\ u \in Confirmed
    BY <1>8, <2>1, <2>3, <2>6
  <2>7. CASE t \in Range(b) /\ u \in Range(b)
    <3>1. PICK k \in 1..Len(b), l \in 1..Len(b) : t = b[k] /\ u = b[l]
      BY <2>3, <2>7
    <3>2. k < l \/ l < k
      BY <1>8, <3>1
    <3>3. QED
      BY <1>8, <2>2, <3>1, <3>2
  <2>8. QED
    BY <1>2, <2>4, <2>5, <2>6, <2>7
<1>9. IsValidChain(chain)'
  <2>1. \A t, u \in TxsOf(chain)' : t # u => Inputs(t) \cap Inputs(u) = {}
    BY <1>8 DEF Confirmed
  <2>2. QED
    BY <1>1, <1>5, <1>6, <1>7, <2>1 DEF IsValidChain
<1>10. ASSUME NEW t \in Confirmed
       PROVE  Height(t)' = Height(t)
  <2>1. PICK h \in 1..n : t \in Range(chain[h])
    BY <1>3
  <2>2. Height(t) = h - 1
    BY <2>1, HeightOf
  <2>3. h \in DOMAIN chain' /\ t \in Range(chain'[h])
    BY <1>1, <2>1
  <2>4. \A g \in DOMAIN chain' : t \in Range(chain'[g]) => g = h
    BY <1>1, <1>6, <2>3
  <2>5. (CHOOSE g \in DOMAIN chain' : t \in Range(chain'[g])) = h
    BY <2>3, <2>4
  <2>6. QED
    BY <2>2, <2>5 DEF Height
<1>11. TipHeight' = TipHeight + 1
  BY <1>1 DEF TipHeight
<1>12. QED
  BY <1>2, <1>9, <1>10, <1>11

LEMMA DisconnectChain ==
  ASSUME IsValidChain(chain), Len(chain) > 0, chain' = SubSeq(chain, 1, Len(chain) - 1)
  PROVE  /\ IsValidChain(chain)'
         /\ chain[Len(chain)] \in Seq(Txs) /\ IsInjective(chain[Len(chain)])
         /\ Confirmed = Confirmed' \cup Range(chain[Len(chain)])
         /\ Confirmed' \cap Range(chain[Len(chain)]) = {}
<1> DEFINE n == Len(chain)
<1>1. /\ chain \in Seq(Seq(Txs)) /\ n \in Nat \ {0} /\ DOMAIN chain = 1..n /\ n - 1 \in Nat
      /\ chain' \in Seq(Seq(Txs)) /\ Len(chain') = n - 1 /\ DOMAIN chain' = 1..(n - 1)
      /\ \A h \in 1..(n - 1) : chain'[h] = chain[h]
  <2>1. chain \in Seq(Seq(Txs)) /\ n \in Nat /\ DOMAIN chain = 1..n
    BY DEF IsValidChain
  <2>2. n # 0 /\ n - 1 \in Nat /\ n - 1 <= n
    BY <2>1
  <2>3. QED
    BY <2>1, <2>2, SubSeqProperties
<1>2. \A h : h \in 1..n <=> h \in 1..(n - 1) \/ h = n
  BY <1>1
<1>3. Confirmed = Confirmed' \cup Range(chain[n])
  BY <1>1, <1>2 DEF Confirmed, TxsOf
<1>4. Confirmed' \cap Range(chain[n]) = {}
  <2>1. ASSUME NEW h \in 1..(n - 1) PROVE h # n
    <3>1. n \in Nat /\ h \in Int /\ h <= n - 1
      BY <1>1
    <3>2. QED
      BY <3>1
  <2>2. \A h \in 1..(n - 1) : Range(chain[h]) \cap Range(chain[n]) = {}
    BY <1>1, <1>2, <2>1 DEF IsValidChain
  <2>3. QED
    BY <1>1, <2>2 DEF Confirmed, TxsOf
<1>5. chain[n] \in Seq(Txs) /\ IsInjective(chain[n])
  BY <1>1, <1>2 DEF IsValidChain
<1>6. \A h \in 1..(n - 1) : IsInjective(chain'[h])
  BY <1>1, <1>2 DEF IsValidChain
<1>7. \A g, h \in 1..(n - 1) : g # h => Range(chain'[g]) \cap Range(chain'[h]) = {}
  BY <1>1, <1>2 DEF IsValidChain
<1>8. ASSUME NEW h \in 1..(n - 1), NEW t \in Range(chain'[h]), NEW o \in Inputs(t)
      PROVE  \E g \in 1..h : o[1] \in Range(chain'[g])
  <2>1. PICK g \in 1..h : o[1] \in Range(chain[g])
    BY <1>1, <1>2 DEF IsValidChain
  <2>2. g \in 1..(n - 1)
    BY <1>1
  <2>3. QED
    BY <1>1, <2>1, <2>2
<1>9. \A t, u \in TxsOf(chain)' : t # u => Inputs(t) \cap Inputs(u) = {}
  <2>1. TxsOf(chain)' \subseteq TxsOf(chain)
    BY <1>3 DEF Confirmed
  <2>2. QED
    BY <2>1 DEF IsValidChain
<1>10. IsValidChain(chain)'
  BY <1>1, <1>6, <1>7, <1>8, <1>9 DEF IsValidChain
<1>11. QED
  BY <1>3, <1>4, <1>5, <1>10

-----------------------------------------------------------------------------
(* The inductive invariant of the pool. While a block is connected or       *)
(* disconnected the pool does not agree with the coins: the transactions of  *)
(* the block that the handler has not reached yet say where it does not.     *)

Rest == Range(job.rest)

Connecting ==
  /\ job.rest # << >> /\ IsInjective(job.rest) /\ Rest \subseteq Confirmed
  /\ mapTx \cap Confirmed \subseteq Rest
  /\ \A t \in Confirmed \ Rest : \A o \in Inputs(t) : o[1] \in Confirmed \ Rest
  /\ \A k \in 1..Len(job.rest) : \A o \in Inputs(job.rest[k]) :
       o[1] \in Confirmed \ Rest \/ \E l \in 1..(k - 1) : o[1] = job.rest[l]

Apart ==
  /\ job.op = "connect" => Connecting
  /\ job.op # "connect" => mapTx \cap Confirmed = {}
  /\ job.op = "disconnect" => IsInjective(job.rest) /\ Rest \cap (mapTx \cup Confirmed) = {}

InputsFed ==
  \A t \in mapTx : \A o \in Inputs(t) :
    \/ HaveInput(o)
    \/ job.op = "connect" /\ \E u \in Rest : o \in Inputs(u)
    \/ job.op = "disconnect" /\ o[1] \in Rest

AllMature == job.op # "disconnect" => \A t \in mapTx : SpendsMature(t)

JobInv ==
  /\ job \in Job
  /\ job.op = "orphans" => job.rest # << >> /\ \A t \in job.todo : mapOrphans[t] # NoPeer

Core == IsValidChain(chain) /\ PoolExact /\ Apart /\ InputsFed /\ AllMature

LEMMA ChainSame ==
  ASSUME chain' = chain
  PROVE  /\ Confirmed' = Confirmed
         /\ \A o : IsAvailable(o)' <=> IsAvailable(o)
         /\ \A t : SpendsMature(t)' <=> SpendsMature(t)
         /\ IsValidChain(chain)' <=> IsValidChain(chain)
<1>1. Confirmed' = Confirmed
  BY DEF Confirmed
<1>2. \A o : IsAvailable(o)' <=> IsAvailable(o)
  BY <1>1 DEF IsAvailable
<1>3. \A t : Height(t)' = Height(t)
  BY DEF Height
<1>4. TipHeight' = TipHeight
  BY DEF TipHeight
<1>5. \A t : SpendsMature(t)' <=> SpendsMature(t)
  BY <1>1, <1>3, <1>4 DEF SpendsMature
<1>6. QED
  BY <1>1, <1>2, <1>5

(* A transaction that AcceptToMemoryPool takes is new to the pool and to the *)
(* chain, although it only looks for an unspent output of it there.          *)
LEMMA Accepted ==
  ASSUME Core, NEW t \in Txs, Verdict(t) = "accepted", job.op # "connect"
  PROVE  /\ t \notin Generated /\ t \notin mapTx /\ ~PoolConflict(t)
         /\ t \notin Confirmed
         /\ \A o \in Inputs(t) : HaveInput(o)
         /\ SpendsMature(t)
<1>1. /\ t \notin Generated /\ t \notin mapTx /\ ~PoolConflict(t)
      /\ \A o \in Inputs(t) : HaveInput(o)
      /\ Mature(t, TipHeight + 1)
  BY DEF Verdict, Refused
<1>2. IsValidChain(chain) /\ mapTx \cap Confirmed = {}
  BY DEF Core, Apart
<1>3. ASSUME t \in Confirmed
      PROVE  FALSE
  <2>1. PICK o \in Inputs(t) : TRUE
    BY <1>1, TransactionAssumption
  <2>2. o[1] \in Confirmed
    BY <1>2, <1>3, ConfirmedFacts
  <2>3. ~IsAvailable(o)
    BY <1>3 DEF IsAvailable
  <2>4. QED
    BY <1>1, <1>2, <2>2, <2>3 DEF HaveInput
<1>4. ASSUME NEW o \in Inputs(t), o[1] \in Generated \cap Confirmed
      PROVE  Height(o[1]) + COINBASE_MATURITY <= TipHeight + 1
  <2>1. Height(o[1]) \in Nat
    BY <1>2, <1>4, HeightNat
  <2>2. TipHeight \in Int
    BY <1>2, ConfirmedFacts DEF TipHeight
  <2>3. COINBASE_MATURITY \in Nat
    BY TransactionAssumption
  <2>4. TipHeight + 1 - Height(o[1]) >= COINBASE_MATURITY
    BY <1>1, <1>4, <2>1, <2>2, <2>3 DEF Mature
  <2>5. QED
    BY <2>1, <2>2, <2>3, <2>4
<1>5. QED
  BY <1>1, <1>3, <1>4 DEF SpendsMature

Quiet(op) == op \in {"idle", "orphans"}

LEMMA AddStep ==
  ASSUME Core, NEW t \in Txs, Verdict(t) = "accepted", addUnchecked(t), chain' = chain,
         Quiet(job.op), Quiet(job.op)'
  PROVE  Core'
<1>1. /\ job.op # "connect" /\ job.op # "disconnect"
      /\ job'.op # "connect" /\ job'.op # "disconnect"
  BY DEF Quiet
<1>2. /\ t \in Txs \ Generated /\ ~PoolConflict(t) /\ t \notin Confirmed
      /\ \A o \in Inputs(t) : HaveInput(o)
      /\ SpendsMature(t)
  BY <1>1, Accepted
<1>3. mapTx' = mapTx \cup {t}
  BY DEF addUnchecked
<1>4. PoolExact'
  BY <1>2, AddKeepsExact DEF Core
<1>5. IsValidChain(chain)' /\ Confirmed' = Confirmed
  BY ChainSame DEF Core
<1>6. Apart'
  BY <1>1, <1>2, <1>3, <1>5 DEF Core, Apart
<1>7. ASSUME NEW u \in mapTx', NEW o \in Inputs(u)
      PROVE  HaveInput(o)'
  <2>1. HaveInput(o)
    BY <1>1, <1>2, <1>3 DEF Core, InputsFed
  <2>2. QED
    BY <1>3, <2>1, ChainSame DEF HaveInput
<1>8. InputsFed'
  BY <1>7 DEF InputsFed
<1>9. AllMature'
  BY <1>1, <1>2, <1>3, ChainSame DEF Core, AllMature
<1>10. QED
  BY <1>4, <1>5, <1>6, <1>8, <1>9 DEF Core

LEMMA SameStep ==
  ASSUME Core, UNCHANGED <<chain, mapTx, mapNextTx>>, Quiet(job.op), Quiet(job.op)'
  PROVE  Core'
<1>1. /\ job.op # "connect" /\ job.op # "disconnect"
      /\ job'.op # "connect" /\ job'.op # "disconnect"
  BY DEF Quiet
<1>2. PoolExact'
  BY DEF Core, PoolExact, NextTxExact
<1>3. Apart'
  BY <1>1, ChainSame DEF Core, Apart
<1>4. InputsFed'
  BY <1>1, ChainSame DEF Core, InputsFed, HaveInput
<1>5. AllMature'
  BY <1>1, ChainSame DEF Core, AllMature
<1>6. QED
  BY <1>2, <1>3, <1>4, <1>5, ChainSame DEF Core

-----------------------------------------------------------------------------
(* Connecting a block *)

LEMMA HeadAndTail ==
  ASSUME NEW s \in Seq(Txs), s # << >>, IsInjective(s)
  PROVE  /\ Head(s) = s[1] /\ Head(s) \in Txs /\ Tail(s) \in Seq(Txs)
         /\ Len(s) \in Nat \ {0} /\ Len(Tail(s)) = Len(s) - 1
         /\ \A k \in 1..Len(Tail(s)) : k + 1 \in 1..Len(s) /\ Tail(s)[k] = s[k + 1]
         /\ Range(s) = {Head(s)} \cup Range(Tail(s)) /\ Head(s) \notin Range(Tail(s))
         /\ IsInjective(Tail(s))
         /\ Len(s) = 1 => Range(Tail(s)) = {}
         /\ Len(s) # 1 => Tail(s) # << >>
<1>1. /\ Head(s) = s[1] /\ Head(s) \in Txs /\ Tail(s) \in Seq(Txs)
      /\ Len(s) \in Nat \ {0} /\ Len(Tail(s)) = Len(s) - 1
      /\ \A k \in 1..Len(Tail(s)) : k + 1 \in 1..Len(s) /\ Tail(s)[k] = s[k + 1]
  BY HeadTailProperties
<1>2. PICK r \in Seq(Txs) : r = Tail(s)
  BY <1>1
<1>3. /\ Len(r) = Len(s) - 1 /\ DOMAIN r = 1..Len(r)
      /\ \A k \in 1..Len(r) : k + 1 \in 1..Len(s) /\ r[k] = s[k + 1]
  BY <1>1, <1>2
<1>4. \A k \in 1..Len(s) : k = 1 \/ \E l \in 1..Len(r) : k = l + 1
  <2> SUFFICES ASSUME NEW k \in 1..Len(s), k # 1
               PROVE  \E l \in 1..Len(r) : k = l + 1
    OBVIOUS
  <2>1. k - 1 \in 1..Len(r) /\ k = (k - 1) + 1
    BY <1>1, <1>3
  <2>2. QED
    BY <2>1
<1>5. Range(s) = {s[1]} \cup Range(r)
  <2>1. \A x : x \in Range(s) <=> \E k \in 1..Len(s) : x = s[k]
    BY DEF Range
  <2>2. \A x : x \in Range(r) <=> \E k \in 1..Len(r) : x = r[k]
    BY <1>3 DEF Range
  <2>3. 1 \in 1..Len(s)
    BY <1>1
  <2>4. ASSUME NEW x \in Range(s)
        PROVE  x \in {s[1]} \cup Range(r)
    <3>1. PICK k \in 1..Len(s) : x = s[k]
      BY <2>1
    <3>2. QED
      BY <1>3, <1>4, <2>2, <3>1
  <2>5. ASSUME NEW x \in {s[1]} \cup Range(r)
        PROVE  x \in Range(s)
    BY <1>3, <2>1, <2>2, <2>3
  <2>6. QED
    BY <2>4, <2>5
<1>6. ASSUME NEW k \in 1..Len(r), r[k] = s[1]
      PROVE  FALSE
  <2>1. s[k + 1] = s[1] /\ k + 1 \in 1..Len(s) /\ 1 \in 1..Len(s) /\ k + 1 # 1
    BY <1>1, <1>3, <1>6
  <2>2. QED
    BY <2>1 DEF IsInjective
<1>7. IsInjective(r)
  <2> SUFFICES ASSUME NEW k \in 1..Len(r), NEW l \in 1..Len(r), r[k] = r[l]
               PROVE  k = l
    BY <1>3 DEF IsInjective
  <2>1. s[k + 1] = s[l + 1] /\ k + 1 \in 1..Len(s) /\ l + 1 \in 1..Len(s)
    BY <1>3
  <2>2. k + 1 = l + 1
    BY <2>1 DEF IsInjective
  <2>3. QED
    BY <1>3, <2>2
<1>8. s[1] \notin Range(r)
  BY <1>3, <1>6 DEF Range
<1>9. Len(s) = 1 => Range(r) = {}
  BY <1>3 DEF Range
<1>10. Len(s) # 1 => r # << >>
  BY <1>1, <1>3
<1>11. QED
  BY <1>1, <1>2, <1>5, <1>7, <1>8, <1>9, <1>10

LEMMA ConnectTipStep ==
  ASSUME Core, JobInv, NEW b \in Blocks, ConnectTip(b)
  PROVE  Core' /\ JobInv'
<1>1. b \in Seq(Txs) /\ b # << >>
  BY TransactionAssumption
<1>2. /\ job.op = "idle" /\ Connectable(b) /\ chain' = Append(chain, b)
      /\ UNCHANGED <<mapTx, mapNextTx, mapOrphans>>
  BY DEF ConnectTip, Free, poolVars, orphanVars
<1>3. job'.op = "connect" /\ job'.rest = b /\ job' \in Job
  BY <1>1 DEF ConnectTip, Idle, Job
<1>4. IsValidChain(chain) /\ mapTx \cap Confirmed = {}
  BY <1>2 DEF Core, Apart
<1>5. /\ IsValidChain(chain)' /\ Confirmed' = Confirmed \cup Range(b)
      /\ TipHeight' = TipHeight + 1
      /\ \A t \in Confirmed : Height(t)' = Height(t)
  BY <1>1, <1>2, <1>4, ConnectChain
<1>6. PoolExact'
  BY <1>2 DEF Core, PoolExact, NextTxExact
<1>7. Rest' = Range(b)
  BY <1>3 DEF Rest
<1>8. \A t \in mapTx : \A o \in Inputs(t) : HaveInput(o)
  BY <1>2 DEF Core, InputsFed
<1>9. IsInjective(b) /\ Range(b) \cap Confirmed = {}
  BY <1>1, <1>2, ConnectableFacts
<1>10. Connecting'
  <2>1. b # << >> /\ IsInjective(b) /\ Range(b) \subseteq Confirmed'
    BY <1>1, <1>5, <1>9
  <2>2. mapTx' \cap Confirmed' \subseteq Range(b)
    BY <1>2, <1>4, <1>5
  <2>3. Confirmed' \ Range(b) = Confirmed
    BY <1>5, <1>9
  <2>4. \A t \in Confirmed : \A o \in Inputs(t) : o[1] \in Confirmed
    BY <1>4, ConfirmedFacts
  <2>5. \A k \in 1..Len(b) : \A o \in Inputs(b[k]) : o[1] \in Confirmed \/ \E l \in 1..(k - 1) : o[1] = b[l]
    BY <1>1, <1>2, ConnectableFacts DEF IsAvailable
  <2>6. QED
    BY <1>3, <1>7, <2>1, <2>2, <2>3, <2>4, <2>5 DEF Connecting
<1>11. Apart'
  BY <1>3, <1>10 DEF Apart
<1>12. InputsFed'
  <2> SUFFICES ASSUME NEW t \in mapTx', NEW o \in Inputs(t), ~HaveInput(o)'
               PROVE  \E u \in Rest' : o \in Inputs(u)
    BY <1>3 DEF InputsFed
  <2>1. o[1] \notin mapTx /\ o[1] \in Confirmed /\ \A u \in Confirmed : o \notin Inputs(u)
    BY <1>2, <1>8 DEF HaveInput, IsAvailable
  <2>2. \E u \in Confirmed' : o \in Inputs(u)
    BY <1>2, <1>5, <2>1 DEF HaveInput, IsAvailable
  <2>3. QED
    BY <1>5, <1>7, <2>1, <2>2
<1>13. AllMature'
  <2> SUFFICES ASSUME NEW t \in mapTx, NEW o \in Inputs(t), o[1] \in Generated \cap Confirmed'
               PROVE  Height(o[1])' + COINBASE_MATURITY <= TipHeight' + 1
    BY <1>2 DEF AllMature, SpendsMature
  <2>1. o[1] \notin mapTx
    BY DEF Core, PoolExact
  <2>2. o[1] \in Confirmed
    BY <1>8, <2>1 DEF HaveInput, IsAvailable
  <2>3. Height(o[1]) \in Nat /\ TipHeight \in Int /\ COINBASE_MATURITY \in Nat
    BY <1>4, <2>2, HeightNat, ConfirmedFacts, TransactionAssumption DEF TipHeight
  <2>4. SpendsMature(t)
    BY <1>2 DEF Core, AllMature
  <2>5. Height(o[1]) + COINBASE_MATURITY <= TipHeight + 1
    BY <2>2, <2>4 DEF SpendsMature
  <2>6. QED
    BY <1>5, <2>2, <2>3, <2>5
<1>14. JobInv'
  BY <1>3 DEF JobInv
<1>15. QED
  BY <1>5, <1>6, <1>11, <1>12, <1>13, <1>14 DEF Core

(* Why a transaction may leave the pool. *)
Justified(t) ==
  t \in Confirmed \/ ~SpendsMature(t) \/ \E o \in Inputs(t) : ~HaveInput(o)

(* A parent that leaves the pool unconfirmed takes the transaction with it. *)
LEMMA ParentGone ==
  ASSUME PoolExact, NEW u \in Txs, NEW t \in Spenders(u), u \notin mapTx', u \notin Confirmed'
  PROVE  Justified(t)'
<1>1. PICK o \in Inputs(t) : o[1] = u
  BY SpendersInPool
<1>2. ~HaveInput(o)'
  BY <1>1 DEF HaveInput, IsAvailable
<1>3. QED
  BY <1>2 DEF Justified

LEMMA ConnectTxStep ==
  ASSUME Core, JobInv, ConnectTx
  PROVE  Core' /\ JobInv' /\ \A t \in mapTx \ mapTx' : Justified(t)'
<1> DEFINE h == Head(job.rest)
           left == Range(Tail(job.rest))
           conflicts == {mapNextTx[o] : o \in Inputs(h)} \ {NoTx, h}
           D == Descendants(conflicts)
           R == ({h} \cap mapTx) \cup D
<1>1. job.op = "connect" /\ Erase(R) /\ chain' = chain /\ mapOrphans' = mapOrphans
  BY DEF ConnectTx, removeForBlock, orphanVars
<1>2. Connecting /\ IsValidChain(chain) /\ PoolExact
  BY <1>1 DEF Core, Apart
<1>3. job.rest \in Seq(Txs) /\ job.rest # << >> /\ IsInjective(job.rest)
  BY <1>2 DEF JobInv, Job, Connecting
<1>4. /\ h = job.rest[1] /\ h \in Txs /\ Tail(job.rest) \in Seq(Txs)
      /\ Rest = {h} \cup left /\ h \notin left
  BY <1>3, HeadAndTail DEF Rest
<1>5. h \in Confirmed /\ left \subseteq Confirmed
  BY <1>2, <1>4 DEF Connecting
<1>6. \A o \in Inputs(h) : o[1] \in Confirmed \ Rest
  <2>1. 1 \in 1..Len(job.rest)
    BY <1>3, HeadAndTail
  <2>2. \A l \in 1..(1 - 1) : FALSE
    OBVIOUS
  <2>3. QED
    BY <1>2, <1>4, <2>1, <2>2 DEF Connecting
<1>7. \A t \in conflicts : t \in mapTx /\ t # h /\ \E o \in Inputs(h) : o \in Inputs(t)
  <2> SUFFICES ASSUME NEW o \in Inputs(h), mapNextTx[o] # NoTx
               PROVE  mapNextTx[o] \in mapTx /\ o \in Inputs(mapNextTx[o])
    OBVIOUS
  <2>1. o \in Outpoints
    BY <1>4, InputOf
  <2>2. QED
    BY <1>2, <2>1, SpenderInPool
<1>8. conflicts \in SUBSET mapTx
  BY <1>7
<1> HIDE DEF conflicts, left, h
<1>9. /\ D \subseteq mapTx /\ conflicts \subseteq D
      /\ \A u \in D : Spenders(u) \subseteq D
      /\ \A X \in SUBSET mapTx :
           conflicts \subseteq X /\ (\A u \in X : Spenders(u) \subseteq X) => D \subseteq X
      /\ \A t \in D \ conflicts : \E u \in D : t \in Spenders(u)
  BY <1>2, <1>8, DescendantsOf
<1> HIDE DEF D
<1>10. R \in SUBSET mapTx /\ mapTx' = mapTx \ R
  BY <1>1, <1>9 DEF Erase
<1>11. PoolExact'
  BY <1>1, <1>2, <1>10, EraseKeepsExact
<1>12. Confirmed' = Confirmed /\ IsValidChain(chain)'
  BY <1>1, <1>2, ChainSame
<1>13. mapTx' \cap Confirmed \subseteq left
  BY <1>2, <1>4, <1>10 DEF Connecting
<1>14. ASSUME NEW t \in mapTx', NEW o \in Inputs(t), ~HaveInput(o)'
       PROVE  \E u \in left : o \in Inputs(u)
  <2>1. t \in mapTx /\ t \notin D /\ t # h /\ o[1] \notin mapTx' /\ ~IsAvailable(o)
    BY <1>1, <1>10, <1>14, ChainSame DEF HaveInput
  <2>2. t \in Spenders(o[1]) /\ mapNextTx[o] = t /\ t # NoTx
    BY <1>2, <2>1, SpenderOf, TransactionAssumption DEF PoolExact
  <2>3. o \notin Inputs(h)
    BY <1>9, <2>1, <2>2 DEF conflicts
  <2>4. CASE o[1] \in mapTx
    <3>1. o[1] \notin D
      BY <1>9, <2>1, <2>2
    <3>2. o[1] = h
      BY <1>10, <2>1, <2>4, <3>1
    <3>3. PICK u \in Confirmed : o \in Inputs(u)
      BY <1>5, <2>1, <3>2 DEF IsAvailable
    <3>4. u \in Rest
      BY <1>2, <1>4, <3>2, <3>3 DEF Connecting
    <3>5. QED
      BY <1>4, <2>3, <3>3, <3>4
  <2>5. CASE o[1] \notin mapTx
    <3>1. ~HaveInput(o)
      BY <2>1, <2>5 DEF HaveInput
    <3>2. PICK u \in Rest : o \in Inputs(u)
      BY <1>1, <2>1, <3>1 DEF Core, InputsFed
    <3>3. QED
      BY <1>4, <2>3, <3>2
  <2>6. QED
    BY <2>4, <2>5
<1>15. \A t \in mapTx' : SpendsMature(t)'
  BY <1>1, <1>10, ChainSame DEF Core, AllMature
<1>16. ASSUME NEW t \in mapTx \ mapTx'
       PROVE  Justified(t)'
  <2>1. CASE t = h
    BY <1>5, <1>12, <2>1 DEF Justified
  <2>2. CASE t \in conflicts
    <3>1. PICK o \in Inputs(h) : o \in Inputs(t)
      BY <1>7, <2>2
    <3>2. ~IsAvailable(o) /\ o[1] \notin mapTx
      BY <1>2, <1>5, <1>6 DEF IsAvailable, Connecting
    <3>3. ~HaveInput(o)'
      BY <1>1, <1>10, <3>2, ChainSame DEF HaveInput
    <3>4. QED
      BY <3>1, <3>3 DEF Justified
  <2>3. CASE t \in D \ conflicts
    <3>1. PICK u \in D : t \in Spenders(u)
      BY <1>9, <2>3
    <3> DEFINE X == mapTx \ Confirmed
    <3>2. conflicts \subseteq X
      BY <1>2, <1>5, <1>7, ConfirmedFacts
    <3>3. \A v \in X : Spenders(v) \subseteq X
      <4> SUFFICES ASSUME NEW v \in X, NEW w \in Spenders(v), w \in Confirmed
                   PROVE  v \in Confirmed
        BY <1>2, SpendersInPool DEF PoolExact
      <4>1. PICK o \in Inputs(w) : o[1] = v
        BY <1>2, SpendersInPool DEF PoolExact
      <4>2. QED
        BY <1>2, <4>1, ConfirmedFacts
    <3>4. D \subseteq X
      BY <1>9, <3>2, <3>3
    <3>5. u \in Txs /\ u \notin mapTx' /\ u \notin Confirmed'
      BY <1>2, <1>9, <1>10, <1>12, <3>4 DEF PoolExact
    <3>6. QED
      BY <1>2, <3>1, <3>5, ParentGone
  <2>4. QED
    BY <1>10, <2>1, <2>2, <2>3
<1>17. CASE Len(job.rest) = 1
  <2>1. job' = Idle
    BY <1>17 DEF ConnectTx
  <2>2. job'.op = "idle" /\ job' \in Job
    BY <2>1 DEF Idle, Job
  <2>3. left = {}
    BY <1>3, <1>17, HeadAndTail DEF left
  <2>4. Apart'
    BY <1>12, <1>13, <2>2, <2>3 DEF Apart
  <2>5. InputsFed' /\ AllMature' /\ JobInv'
    BY <1>14, <1>15, <2>2, <2>3 DEF InputsFed, AllMature, JobInv
  <2>6. QED
    BY <1>11, <1>12, <1>16, <2>4, <2>5 DEF Core
<1>18. CASE Len(job.rest) # 1
  <2>1. job' = [job EXCEPT !.rest = Tail(@)]
    BY <1>18 DEF ConnectTx
  <2>2. job'.op = "connect" /\ job'.rest = Tail(job.rest) /\ job' \in Job
    BY <1>1, <1>4, <2>1 DEF JobInv, Job
  <2>3. Rest' = left
    BY <2>2 DEF Rest, left
  <2>4. /\ IsInjective(Tail(job.rest)) /\ Tail(job.rest) # << >>
        /\ \A k \in 1..Len(Tail(job.rest)) : k + 1 \in 1..Len(job.rest) /\ Tail(job.rest)[k] = job.rest[k + 1]
    BY <1>3, <1>18, HeadAndTail
  <2>5. Confirmed \ left = (Confirmed \ Rest) \cup {h}
    BY <1>4, <1>5
  <2>6. \A t \in Confirmed \ left : \A o \in Inputs(t) : o[1] \in Confirmed \ left
    BY <1>2, <1>6, <2>5 DEF Connecting
  <2>7. ASSUME NEW k \in 1..Len(Tail(job.rest)), NEW o \in Inputs(Tail(job.rest)[k])
        PROVE  o[1] \in Confirmed \ left \/ \E l \in 1..(k - 1) : o[1] = Tail(job.rest)[l]
    <3>1. o[1] \in Confirmed \ Rest \/ \E l \in 1..((k + 1) - 1) : o[1] = job.rest[l]
      BY <1>2, <2>4 DEF Connecting
    <3>2. CASE o[1] \in Confirmed \ Rest
      BY <2>5, <3>2
    <3>3. ASSUME NEW l \in 1..((k + 1) - 1), o[1] = job.rest[l]
          PROVE  o[1] \in Confirmed \ left \/ \E m \in 1..(k - 1) : o[1] = Tail(job.rest)[m]
      <4>1. CASE l = 1
        BY <1>4, <2>5, <3>3, <4>1
      <4>2. CASE l # 1
        <5>1. l - 1 \in 1..(k - 1) /\ l - 1 \in 1..Len(Tail(job.rest)) /\ (l - 1) + 1 = l
          BY <1>4, <4>2
        <5>2. QED
          BY <2>4, <3>3, <5>1
      <4>3. QED
        BY <4>1, <4>2
    <3>4. QED
      BY <3>1, <3>2, <3>3
  <2>8. Connecting'
    <3>1. PICK r : r = Tail(job.rest)
      OBVIOUS
    <3>2. job'.rest = r /\ r # << >> /\ IsInjective(r)
      BY <2>2, <2>4, <3>1
    <3>3. \A k \in 1..Len(r) : \A o \in Inputs(r[k]) :
            o[1] \in Confirmed \ left \/ \E l \in 1..(k - 1) : o[1] = r[l]
      BY <2>7, <3>1
    <3>4. QED
      BY <1>5, <1>12, <1>13, <2>3, <2>6, <3>2, <3>3 DEF Connecting
  <2>9. Apart'
    BY <2>2, <2>8 DEF Apart
  <2>10. InputsFed' /\ AllMature' /\ JobInv'
    BY <1>14, <1>15, <2>2, <2>3 DEF InputsFed, AllMature, JobInv
  <2>11. QED
    BY <1>11, <1>12, <1>16, <2>9, <2>10 DEF Core
<1>19. QED
  BY <1>17, <1>18

-----------------------------------------------------------------------------
(* Disconnecting a block *)

LEMMA EraseDescendants ==
  ASSUME Core, job.op = "disconnect", chain' = chain,
         NEW S \in SUBSET mapTx, Erase(Descendants(S))
  PROVE  /\ PoolExact' /\ IsValidChain(chain)' /\ Confirmed' = Confirmed
         /\ mapTx' \subseteq mapTx /\ S \cap mapTx' = {}
         /\ \A t \in mapTx' : \A o \in Inputs(t) : HaveInput(o) => HaveInput(o)'
         /\ \A t \in mapTx \ mapTx' : t \notin S => Justified(t)'
<1> DEFINE D == Descendants(S)
<1>1. IsValidChain(chain) /\ PoolExact /\ mapTx \cap Confirmed = {}
  BY DEF Core, Apart
<1>2. /\ D \subseteq mapTx /\ S \subseteq D
      /\ \A u \in D : Spenders(u) \subseteq D
      /\ \A t \in D \ S : \E u \in D : t \in Spenders(u)
  BY <1>1, DescendantsOf
<1>3. mapTx' = mapTx \ D
  BY DEF Erase
<1>4. Confirmed' = Confirmed /\ IsValidChain(chain)'
  BY <1>1, ChainSame
<1>5. PoolExact'
  BY <1>1, <1>2, EraseKeepsExact
<1> HIDE DEF D
<1>6. ASSUME NEW t \in mapTx', NEW o \in Inputs(t), HaveInput(o)
      PROVE  HaveInput(o)'
  <2>1. t \in mapTx \ D /\ t \in Spenders(o[1])
    BY <1>1, <1>3, SpenderOf
  <2>2. o[1] \notin D
    BY <1>2, <2>1
  <2>3. QED
    BY <1>3, <1>6, <2>2, ChainSame DEF HaveInput
<1>7. ASSUME NEW t \in mapTx \ mapTx', t \notin S
      PROVE  Justified(t)'
  <2>1. PICK u \in D : t \in Spenders(u)
    BY <1>2, <1>3, <1>7
  <2>2. u \in Txs /\ u \notin mapTx' /\ u \notin Confirmed'
    BY <1>1, <1>2, <1>3, <1>4 DEF PoolExact
  <2>3. QED
    BY <1>1, <2>1, <2>2, ParentGone
<1>8. QED
  BY <1>2, <1>3, <1>4, <1>5, <1>6, <1>7

LEMMA DisconnectTipStep ==
  ASSUME Core, JobInv, DisconnectTip
  PROVE  Core' /\ JobInv'
<1> DEFINE last == chain[Len(chain)]
<1>1. /\ job.op = "idle" /\ chain' = SubSeq(chain, 1, Len(chain) - 1)
      /\ UNCHANGED <<mapTx, mapNextTx, mapOrphans>>
  BY DEF DisconnectTip, Free, poolVars, orphanVars
<1>2. IsValidChain(chain) /\ PoolExact /\ mapTx \cap Confirmed = {}
  BY <1>1 DEF Core, Apart
<1>3. Len(chain) > 0
  <2>1. Len(chain) \in Nat /\ Len(BaseChain) \in Nat
    BY <1>2, ChainAssumption DEF IsValidChain
  <2>2. QED
    BY <2>1 DEF DisconnectTip
<1>4. /\ IsValidChain(chain)' /\ last \in Seq(Txs) /\ IsInjective(last)
      /\ Confirmed = Confirmed' \cup Range(last) /\ Confirmed' \cap Range(last) = {}
  BY <1>1, <1>2, <1>3, DisconnectChain
<1>5. job'.op = "disconnect" /\ job'.rest = last /\ job' \in Job
  BY <1>4 DEF DisconnectTip, Idle, Job
<1> HIDE DEF last
<1>6. Rest' = Range(last)
  BY <1>5 DEF Rest
<1>7. PoolExact'
  BY <1>1, <1>2 DEF PoolExact, NextTxExact
<1>8. Apart'
  BY <1>1, <1>2, <1>4, <1>5, <1>6 DEF Apart
<1>9. InputsFed'
  <2> SUFFICES ASSUME NEW t \in mapTx', NEW o \in Inputs(t), ~HaveInput(o)'
               PROVE  o[1] \in Range(last)
    BY <1>5, <1>6 DEF InputsFed
  <2>1. HaveInput(o)
    BY <1>1 DEF Core, InputsFed
  <2>2. IsAvailable(o) /\ ~IsAvailable(o)'
    BY <1>1, <2>1 DEF HaveInput
  <2>3. QED
    BY <1>4, <2>2 DEF IsAvailable
<1>10. AllMature' /\ JobInv'
  BY <1>5 DEF AllMature, JobInv
<1>11. QED
  BY <1>4, <1>7, <1>8, <1>9, <1>10 DEF Core

LEMMA DisconnectTxStep ==
  ASSUME Core, JobInv, DisconnectTx
  PROVE  Core' /\ JobInv' /\ \A t \in mapTx \ mapTx' : Justified(t)'
<1> DEFINE h == Head(job.rest)
           left == Range(Tail(job.rest))
<1>1. /\ job.op = "disconnect" /\ job.rest # << >> /\ chain' = chain
      /\ job' = [job EXCEPT !.rest = Tail(@)]
      /\ \/ Verdict(h) = "accepted" /\ addUnchecked(h)
         \/ removeRecursive(h)
  BY DEF DisconnectTx
<1>2. /\ IsValidChain(chain) /\ PoolExact /\ mapTx \cap Confirmed = {}
      /\ job.rest \in Seq(Txs) /\ IsInjective(job.rest) /\ Rest \cap (mapTx \cup Confirmed) = {}
  BY <1>1 DEF Core, Apart, JobInv, Job
<1>3. /\ h \in Txs /\ Tail(job.rest) \in Seq(Txs) /\ Rest = {h} \cup left /\ h \notin left
      /\ IsInjective(Tail(job.rest))
  BY <1>1, <1>2, HeadAndTail DEF Rest
<1>4. job'.op = "disconnect" /\ job'.rest = Tail(job.rest) /\ job' \in Job
  BY <1>1, <1>3 DEF JobInv, Job
<1>5. Rest' = left /\ IsInjective(job'.rest)
  BY <1>3, <1>4 DEF Rest
<1> HIDE DEF h, left
<1>6. AllMature' /\ JobInv'
  BY <1>4 DEF AllMature, JobInv
<1>7. \A t \in mapTx : \A o \in Inputs(t) : HaveInput(o) \/ o[1] \in Rest
  BY <1>1 DEF Core, InputsFed
<1>8. CASE Verdict(h) = "accepted" /\ addUnchecked(h)
  <2>1. /\ h \in Txs \ Generated /\ ~PoolConflict(h) /\ h \notin Confirmed
        /\ \A o \in Inputs(h) : HaveInput(o)
    BY <1>1, <1>3, <1>8, Accepted
  <2>2. mapTx' = mapTx \cup {h}
    BY <1>8 DEF addUnchecked
  <2>3. PoolExact' /\ IsValidChain(chain)' /\ Confirmed' = Confirmed
    BY <1>1, <1>2, <1>8, <2>1, AddKeepsExact, ChainSame
  <2>4. Apart'
    BY <1>2, <1>3, <1>4, <1>5, <2>1, <2>2, <2>3 DEF Apart
  <2>5. ASSUME NEW t \in mapTx', NEW o \in Inputs(t)
        PROVE  HaveInput(o)' \/ o[1] \in left
    <3>1. HaveInput(o) \/ o[1] \in Rest
      BY <1>7, <2>1, <2>2
    <3>2. QED
      BY <1>1, <1>3, <2>2, <3>1, ChainSame DEF HaveInput
  <2>6. InputsFed'
    BY <1>4, <1>5, <2>5 DEF InputsFed
  <2>7. QED
    BY <1>6, <2>2, <2>3, <2>4, <2>6 DEF Core
<1>9. CASE removeRecursive(h)
  <2>1. h \notin mapTx /\ h \notin Confirmed
    BY <1>2, <1>3
  <2>2. Erase(Descendants(Spenders(h))) /\ Spenders(h) \in SUBSET mapTx
    BY <1>2, <1>3, <1>9, <2>1, SpendersInPool DEF removeRecursive
  <2>3. /\ PoolExact' /\ IsValidChain(chain)' /\ Confirmed' = Confirmed
        /\ mapTx' \subseteq mapTx /\ Spenders(h) \cap mapTx' = {}
        /\ \A t \in mapTx' : \A o \in Inputs(t) : HaveInput(o) => HaveInput(o)'
        /\ \A t \in mapTx \ mapTx' : t \notin Spenders(h) => Justified(t)'
    BY <1>1, <2>2, EraseDescendants
  <2>4. Apart'
    BY <1>2, <1>3, <1>4, <1>5, <2>3 DEF Apart
  <2>5. ASSUME NEW t \in mapTx', NEW o \in Inputs(t)
        PROVE  HaveInput(o)' \/ o[1] \in left
    <3>1. t \in mapTx /\ t \in Spenders(o[1])
      BY <1>2, <2>3, SpenderOf
    <3>2. o[1] # h
      BY <2>3, <3>1
    <3>3. QED
      BY <1>3, <1>7, <2>3, <3>1, <3>2
  <2>6. InputsFed'
    BY <1>4, <1>5, <2>5 DEF InputsFed
  <2>7. \A t \in Spenders(h) : Justified(t)'
    <3>1. h \notin mapTx' /\ h \notin Confirmed'
      BY <2>1, <2>3
    <3>2. QED
      BY <1>2, <1>3, <3>1, ParentGone
  <2>8. QED
    BY <1>6, <2>3, <2>4, <2>6, <2>7 DEF Core
<1>10. QED
  BY <1>1, <1>8, <1>9

LEMMA DisconnectDoneStep ==
  ASSUME Core, JobInv, DisconnectDone
  PROVE  Core' /\ JobInv' /\ \A t \in mapTx \ mapTx' : Justified(t)'
<1> DEFINE S == {t \in mapTx : SpendsImmature(t)}
<1>1. /\ job.op = "disconnect" /\ job.rest = << >> /\ chain' = chain /\ job' = Idle
      /\ Erase(Descendants(S)) /\ S \in SUBSET mapTx
  BY DEF DisconnectDone, removeCoinbaseSpends
<1>2. IsValidChain(chain) /\ PoolExact /\ mapTx \cap Confirmed = {}
  BY <1>1 DEF Core, Apart
<1>3. job'.op = "idle" /\ job' \in Job
  BY <1>1 DEF Idle, Job
<1>4. /\ PoolExact' /\ IsValidChain(chain)' /\ Confirmed' = Confirmed
      /\ mapTx' \subseteq mapTx /\ S \cap mapTx' = {}
      /\ \A t \in mapTx' : \A o \in Inputs(t) : HaveInput(o) => HaveInput(o)'
      /\ \A t \in mapTx \ mapTx' : t \notin S => Justified(t)'
  BY <1>1, EraseDescendants
<1>5. Apart' /\ JobInv'
  BY <1>2, <1>3, <1>4 DEF Apart, JobInv
<1>6. \A t \in mapTx : \A o \in Inputs(t) : HaveInput(o)
  BY <1>1 DEF Core, InputsFed, Rest, Range
<1>7. InputsFed'
  BY <1>4, <1>6 DEF InputsFed
<1>8. \A t \in Confirmed : Height(t) \in Nat
  BY <1>2, HeightNat
<1>9. TipHeight \in Int /\ COINBASE_MATURITY \in Nat
  BY <1>2, ConfirmedFacts, TransactionAssumption DEF TipHeight
<1>10. ASSUME NEW t \in mapTx', NEW o \in Inputs(t), o[1] \in Generated \cap Confirmed
       PROVE  Height(o[1]) + COINBASE_MATURITY <= TipHeight + 1
  <2>1. ~SpendsImmature(t) /\ o[1] \notin mapTx
    BY <1>2, <1>4, <1>10 DEF PoolExact
  <2>2. ~(TipHeight + 1 - Height(o[1]) < COINBASE_MATURITY)
    BY <1>10, <2>1 DEF SpendsImmature
  <2>3. QED
    BY <1>8, <1>9, <1>10, <2>2
<1>11. AllMature'
  <2>1. \A t \in mapTx' : SpendsMature(t)
    BY <1>10 DEF SpendsMature
  <2>2. QED
    BY <1>1, <2>1, ChainSame DEF AllMature
<1>12. ASSUME NEW t \in S, t \notin mapTx'
       PROVE  Justified(t)'
  <2>1. PICK o \in Inputs(t) : o[1] \notin mapTx /\
          \/ ~\E p \in Outputs(o[1]) : IsAvailable(p)
          \/ o[1] \in Generated /\ TipHeight + 1 - Height(o[1]) < COINBASE_MATURITY
    BY DEF SpendsImmature
  <2>2. t \in Txs /\ o \in Outputs(o[1])
    BY <1>2, InputOf DEF PoolExact
  <2>3. CASE ~IsAvailable(o)
    <3>1. ~HaveInput(o)'
      BY <1>1, <1>4, <2>1, <2>3, ChainSame DEF HaveInput
    <3>2. QED
      BY <3>1 DEF Justified
  <2>4. CASE IsAvailable(o)
    <3>1. o[1] \in Generated \cap Confirmed /\ TipHeight + 1 - Height(o[1]) < COINBASE_MATURITY
      BY <2>1, <2>2, <2>4 DEF IsAvailable
    <3>2. ~(Height(o[1]) + COINBASE_MATURITY <= TipHeight + 1)
      BY <1>8, <1>9, <3>1
    <3>3. ~SpendsMature(t)
      BY <3>1, <3>2 DEF SpendsMature
    <3>4. QED
      BY <1>1, <3>3, ChainSame DEF Justified
  <2>5. QED
    BY <2>3, <2>4
<1>13. QED
  BY <1>4, <1>5, <1>7, <1>11, <1>12 DEF Core

-----------------------------------------------------------------------------
(* Orphans *)

OrphanInv ==
  /\ mapOrphans \in [Txs -> Peers \cup {NoPeer}]
  /\ mapOrphansByPrev \in [Txs -> SUBSET Txs]
  /\ OrphanIndexExact
  /\ OrphansBounded

Orphaned == {t \in Txs : mapOrphans[t] # NoPeer}

LEMMA OrphansFinite ==
  ASSUME NEW S \in SUBSET Txs
  PROVE  IsFiniteSet(S) /\ Cardinality(S) \in Nat
BY TransactionAssumption, FS_Subset, FS_CardinalityType

LEMMA EraseOrphansStep ==
  ASSUME OrphanInv, NEW E, EraseOrphans(E)
  PROVE  OrphanInv'
<1>1. /\ mapOrphans' \in [Txs -> Peers \cup {NoPeer}]
      /\ \A t \in Txs : mapOrphans'[t] = IF t \in E THEN NoPeer ELSE mapOrphans[t]
  BY DEF EraseOrphans, OrphanInv
<1>2. /\ mapOrphansByPrev' \in [Txs -> SUBSET Txs]
      /\ \A t \in Txs : mapOrphansByPrev'[t] = mapOrphansByPrev[t] \ E
  BY DEF EraseOrphans, OrphanInv
<1>3. OrphanIndexExact'
  BY <1>1, <1>2 DEF OrphanInv, OrphanIndexExact
<1>4. OrphansBounded'
  <2>1. Orphaned' \in SUBSET Orphaned /\ Orphaned \in SUBSET Txs
    BY <1>1 DEF Orphaned
  <2>2. Cardinality(Orphaned') <= Cardinality(Orphaned)
    BY <2>1, OrphansFinite, FS_Subset
  <2>3. Cardinality(Orphaned') \in Nat /\ Cardinality(Orphaned) \in Nat /\ MaxOrphans \in Nat
    BY <2>1, OrphansFinite, TransactionAssumption
  <2>4. Cardinality(Orphaned) <= MaxOrphans
    BY DEF OrphanInv, OrphansBounded, OrphanCount, Orphaned
  <2>5. Cardinality(Orphaned') <= MaxOrphans
    BY <2>2, <2>3, <2>4
  <2>6. QED
    BY <2>5 DEF OrphansBounded, OrphanCount, Orphaned
<1>5. QED
  BY <1>1, <1>2, <1>3, <1>4 DEF OrphanInv

LEMMA AddOrphanStep ==
  ASSUME OrphanInv, NEW t \in Txs, NEW p \in Peers, AddOrphan(t, p)
  PROVE  OrphanInv'
<1> DEFINE with == [mapOrphans EXCEPT ![t] = p]
<1>1. mapOrphans[t] = NoPeer /\ p # NoPeer
  BY TransactionAssumption DEF AddOrphan
<1>2. PICK E \in SUBSET Txs :
        /\ IF OrphanCount + 1 > MaxOrphans
           THEN \E v \in Txs : with[v] # NoPeer /\ E = {v}
           ELSE E = {}
        /\ mapOrphans' = [u \in Txs |-> IF u \in E THEN NoPeer ELSE with[u]]
        /\ mapOrphansByPrev' =
            [u \in Txs |-> (mapOrphansByPrev[u] \cup {c \in {t} : \E o \in Inputs(c) : o[1] = u}) \ E]
  BY DEF AddOrphan
<1>3. with \in [Txs -> Peers \cup {NoPeer}] /\ \A u \in Txs : with[u] = IF u = t THEN p ELSE mapOrphans[u]
  BY DEF OrphanInv
<1> HIDE DEF with
<1>4. /\ mapOrphans' \in [Txs -> Peers \cup {NoPeer}]
      /\ \A u \in Txs : mapOrphans'[u] = IF u \in E THEN NoPeer ELSE with[u]
  BY <1>2, <1>3
<1>5. mapOrphansByPrev' \in [Txs -> SUBSET Txs]
  BY <1>2 DEF OrphanInv
<1>6. \A u, c \in Txs : c \in mapOrphansByPrev'[u] <=>
        c \notin E /\ (c \in mapOrphansByPrev[u] \/ (c = t /\ \E o \in Inputs(c) : o[1] = u))
  BY <1>2
<1>7. OrphanIndexExact'
  <2> SUFFICES ASSUME NEW u \in Txs, NEW c \in Txs
               PROVE  c \in mapOrphansByPrev'[u] <=> mapOrphans'[c] # NoPeer /\ \E o \in Inputs(c) : o[1] = u
    BY DEF OrphanIndexExact
  <2>1. c \in mapOrphansByPrev[u] <=> mapOrphans[c] # NoPeer /\ \E o \in Inputs(c) : o[1] = u
    BY DEF OrphanInv, OrphanIndexExact
  <2>2. QED
    BY <1>1, <1>3, <1>4, <1>6, <2>1
<1>8. OrphansBounded'
  <2>1. Orphaned \in SUBSET Txs /\ t \notin Orphaned
    BY <1>1 DEF Orphaned
  <2>2. IsFiniteSet(Orphaned) /\ Cardinality(Orphaned) \in Nat
    BY <2>1, OrphansFinite
  <2>3. IsFiniteSet(Orphaned \cup {t}) /\ Cardinality(Orphaned \cup {t}) = Cardinality(Orphaned) + 1
    BY <2>1, <2>2, FS_AddElement
  <2>4. Orphaned' = (Orphaned \cup {t}) \ E
    BY <1>1, <1>3, <1>4 DEF Orphaned
  <2>5. Cardinality(Orphaned) <= MaxOrphans /\ OrphanCount = Cardinality(Orphaned) /\ MaxOrphans \in Nat
    BY TransactionAssumption DEF OrphanInv, OrphansBounded, OrphanCount, Orphaned
  <2>6. CASE OrphanCount + 1 > MaxOrphans
    <3>1. PICK v \in Txs : with[v] # NoPeer /\ E = {v}
      BY <1>2, <2>6
    <3>2. v \in Orphaned \cup {t}
      BY <1>3, <3>1 DEF Orphaned
    <3>3. Cardinality(Orphaned') = Cardinality(Orphaned \cup {t}) - 1
      BY <2>3, <2>4, <3>1, <3>2, FS_RemoveElement
    <3>4. QED
      BY <2>2, <2>3, <2>5, <3>3 DEF OrphansBounded, OrphanCount, Orphaned
  <2>7. CASE ~(OrphanCount + 1 > MaxOrphans)
    <3>1. Orphaned' = Orphaned \cup {t}
      BY <1>2, <2>4, <2>7
    <3>2. QED
      BY <2>2, <2>3, <2>5, <2>7, <3>1 DEF OrphansBounded, OrphanCount, Orphaned
  <2>8. QED
    BY <2>6, <2>7
<1>9. QED
  BY <1>4, <1>5, <1>7, <1>8 DEF OrphanInv

LEMMA OrphansSame ==
  ASSUME OrphanInv, UNCHANGED orphanVars
  PROVE  OrphanInv'
BY DEF OrphanInv, OrphanIndexExact, OrphansBounded, OrphanCount, orphanVars

-----------------------------------------------------------------------------
(* Every step of the pool's handlers *)

PoolInv == Core /\ JobInv /\ OrphanInv

LEMMA OrphansOf ==
  ASSUME OrphanInv, NEW t \in Txs
  PROVE  mapOrphansByPrev[t] \subseteq Txs /\ \A u \in mapOrphansByPrev[t] : mapOrphans[u] # NoPeer
<1>1. mapOrphansByPrev[t] \subseteq Txs
  BY DEF OrphanInv
<1>2. QED
  BY <1>1 DEF OrphanInv, OrphanIndexExact

LEMMA TxMessageStep ==
  ASSUME PoolInv, NEW p \in Peers, NEW t \in Txs, TxMessage(p, t)
  PROVE  PoolInv'
<1>1. job.op = "idle" /\ chain' = chain
  BY DEF TxMessage, Free
<1>2. CASE Verdict(t) = "accepted" /\ addUnchecked(t) /\ UNCHANGED orphanVars
           /\ job' = [Idle EXCEPT !.op = "orphans", !.rest = <<t>>, !.todo = mapOrphansByPrev[t]]
  <2>1. mapOrphansByPrev[t] \subseteq Txs /\ \A u \in mapOrphansByPrev[t] : mapOrphans[u] # NoPeer
    BY OrphansOf DEF PoolInv
  <2>2. /\ job'.op = "orphans" /\ job'.rest = <<t>> /\ job'.todo = mapOrphansByPrev[t]
        /\ job' \in Job
    <3>1. <<t>> \in Seq(Txs)
      OBVIOUS
    <3>2. QED
      BY <1>2, <2>1, <3>1 DEF Idle, Job
  <2>3. JobInv'
    BY <1>2, <2>1, <2>2 DEF JobInv, orphanVars
  <2>4. Core'
    BY <1>1, <1>2, <2>2, AddStep DEF PoolInv, Quiet
  <2>5. QED
    BY <1>2, <2>3, <2>4, OrphansSame DEF PoolInv
<1>3. CASE AddOrphan(t, p) /\ UNCHANGED <<poolVars, job>>
  <2>1. Core'
    BY <1>1, <1>3, SameStep DEF PoolInv, Quiet, poolVars
  <2>2. JobInv'
    BY <1>1, <1>3 DEF PoolInv, JobInv
  <2>3. QED
    BY <1>3, <2>1, <2>2, AddOrphanStep DEF PoolInv
<1>4. QED
  BY <1>2, <1>3 DEF TxMessage

LEMMA ProcessOrphanStep ==
  ASSUME PoolInv, NEW t \in Txs, ProcessOrphan(t)
  PROVE  PoolInv' /\ mapTx \subseteq mapTx'
<1> DEFINE done == [job EXCEPT !.todo = @ \ {t}]
<1>1. job.op = "orphans" /\ t \in job.todo /\ chain' = chain /\ UNCHANGED orphanVars
  BY DEF ProcessOrphan
<1>2. job \in Job /\ job.rest # << >> /\ (\A u \in job.todo : mapOrphans[u] # NoPeer)
  BY <1>1 DEF PoolInv, JobInv
<1>3. mapOrphans[t] \in Peers
  BY <1>1, <1>2 DEF PoolInv, OrphanInv
<1>4. OrphanInv'
  BY <1>1, OrphansSame DEF PoolInv
<1>5. /\ done \in Job /\ done.op = "orphans" /\ done.rest = job.rest /\ done.todo = job.todo \ {t}
      /\ done.erase = job.erase /\ done.bad = job.bad
  BY <1>1, <1>2 DEF Job
<1> HIDE DEF done
<1>6. ASSUME job'.op = "orphans", job' \in Job, job'.rest # << >>, job'.todo = job.todo \ {t}
      PROVE  JobInv' /\ Quiet(job.op) /\ Quiet(job.op)'
  BY <1>1, <1>2, <1>6 DEF JobInv, Quiet, orphanVars
<1>7. CASE job' = done /\ UNCHANGED poolVars
  <2>1. JobInv' /\ Quiet(job.op) /\ Quiet(job.op)'
    BY <1>2, <1>5, <1>6, <1>7
  <2>2. QED
    BY <1>1, <1>4, <1>7, <2>1, SameStep DEF PoolInv, poolVars
<1>8. CASE /\ Verdict(t) = "accepted" /\ addUnchecked(t)
           /\ job' = [done EXCEPT !.rest = Append(@, t), !.erase = @ \cup {t}]
  <2>1. Append(job.rest, t) \in Seq(Txs) /\ Append(job.rest, t) # << >>
    BY <1>2, AppendProperties DEF Job
  <2>2. job'.op = "orphans" /\ job' \in Job /\ job'.rest = Append(job.rest, t) /\ job'.todo = job.todo \ {t}
    BY <1>5, <1>8, <2>1 DEF Job
  <2>3. JobInv' /\ Quiet(job.op) /\ Quiet(job.op)'
    BY <1>6, <2>1, <2>2
  <2>4. mapTx \subseteq mapTx'
    BY <1>8 DEF addUnchecked
  <2>5. QED
    BY <1>1, <1>4, <1>8, <2>3, <2>4, AddStep DEF PoolInv
<1>9. ASSUME UNCHANGED poolVars, NEW punish \in SUBSET {mapOrphans[t]},
             job' = [done EXCEPT !.erase = @ \cup {t}, !.bad = @ \cup punish]
      PROVE  PoolInv' /\ mapTx \subseteq mapTx'
  <2>1. job'.op = "orphans" /\ job' \in Job /\ job'.rest = job.rest /\ job'.todo = job.todo \ {t}
    BY <1>3, <1>5, <1>9 DEF Job
  <2>2. JobInv' /\ Quiet(job.op) /\ Quiet(job.op)'
    BY <1>2, <1>6, <2>1
  <2>3. QED
    BY <1>1, <1>4, <1>9, <2>2, SameStep DEF PoolInv, poolVars
<1>10. ASSUME NEW answer \in Answers(t),
              CASE answer = "accepted" ->
                     /\ addUnchecked(t)
                     /\ job' = [done EXCEPT !.rest = Append(@, t), !.erase = @ \cup {t}]
                [] answer = "missing" -> job' = done /\ UNCHANGED poolVars
                [] answer = "refused" ->
                     /\ UNCHANGED poolVars
                     /\ \E punish \in SUBSET {mapOrphans[t]} :
                         job' = [done EXCEPT !.erase = @ \cup {t}, !.bad = @ \cup punish]
       PROVE  PoolInv' /\ mapTx \subseteq mapTx'
  <2>1. answer \in {"accepted", "missing", "refused"} /\ (answer = "accepted" => Verdict(t) = "accepted")
    BY DEF Answers, Verdict
  <2>2. CASE answer = "accepted"
    BY <1>8, <1>10, <2>1, <2>2
  <2>3. CASE answer = "missing"
    BY <1>7, <1>10, <2>3
  <2>4. CASE answer = "refused"
    BY <1>9, <1>10, <2>4
  <2>5. QED
    BY <2>1, <2>2, <2>3, <2>4
<1>11. QED
  BY <1>7, <1>10 DEF ProcessOrphan, done

LEMMA NextWorkStep ==
  ASSUME PoolInv, NextWork
  PROVE  PoolInv' /\ mapTx' = mapTx
<1>1. job.op = "orphans" /\ UNCHANGED <<chain, mapTx, mapNextTx>>
  BY DEF NextWork, poolVars
<1>2. job \in Job /\ job.rest \in Seq(Txs) /\ job.rest # << >>
  BY <1>1 DEF PoolInv, JobInv, Job
<1>3. CASE Len(job.rest) > 1
  <2>1. /\ job' = [job EXCEPT !.rest = Tail(@), !.todo = mapOrphansByPrev[job.rest[2]]]
        /\ UNCHANGED orphanVars
    BY <1>3 DEF NextWork
  <2>2. job.rest[2] \in Txs
    BY <1>2, <1>3
  <2>3. /\ mapOrphansByPrev[job.rest[2]] \subseteq Txs
        /\ \A u \in mapOrphansByPrev[job.rest[2]] : mapOrphans[u] # NoPeer
    BY <2>2, OrphansOf DEF PoolInv
  <2>4. Tail(job.rest) \in Seq(Txs) /\ Tail(job.rest) # << >>
    <3>1. PICK r \in Seq(Txs) : r = Tail(job.rest) /\ Len(r) = Len(job.rest) - 1
      BY <1>2, HeadTailProperties
    <3>2. Len(job.rest) \in Nat
      BY <1>2
    <3>3. Len(r) # 0
      BY <1>3, <3>1, <3>2
    <3>4. QED
      BY <3>1, <3>3
  <2>5. /\ job'.op = "orphans" /\ job' \in Job /\ job'.rest = Tail(job.rest)
        /\ job'.todo = mapOrphansByPrev[job.rest[2]]
    BY <1>1, <1>2, <2>1, <2>3, <2>4 DEF Job
  <2>6. JobInv'
    BY <2>1, <2>3, <2>4, <2>5 DEF JobInv, orphanVars
  <2>7. Core'
    BY <1>1, <2>5, SameStep DEF PoolInv, Quiet
  <2>8. QED
    BY <1>1, <2>1, <2>6, <2>7, OrphansSame DEF PoolInv
<1>4. CASE ~(Len(job.rest) > 1)
  <2>1. job' = Idle /\ EraseOrphans(job.erase)
    BY <1>4 DEF NextWork
  <2>2. job'.op = "idle" /\ job' \in Job
    BY <2>1 DEF Idle, Job
  <2>3. JobInv'
    BY <2>2 DEF JobInv
  <2>4. Core'
    BY <1>1, <2>2, SameStep DEF PoolInv, Quiet
  <2>5. QED
    BY <1>1, <2>1, <2>3, <2>4, EraseOrphansStep DEF PoolInv
<1>5. QED
  BY <1>3, <1>4

LEMMA LocalTxStep ==
  ASSUME PoolInv, NEW t \in Txs, Free, Verdict(t) = "accepted", addUnchecked(t),
         UNCHANGED <<chain, orphanVars, job>>
  PROVE  PoolInv'
<1>1. Core'
  BY AddStep DEF PoolInv, Free, Quiet
<1>2. JobInv'
  BY DEF PoolInv, JobInv, orphanVars
<1>3. QED
  BY <1>1, <1>2, OrphansSame DEF PoolInv

LEMMA PeerGoneStep ==
  ASSUME PoolInv, NEW p \in Peers, PeerGone(p)
  PROVE  PoolInv'
<1>1. job.op = "idle" /\ job' = job /\ UNCHANGED <<chain, mapTx, mapNextTx>>
  BY DEF PeerGone, Free, poolVars
<1>2. Core'
  BY <1>1, SameStep DEF PoolInv, Quiet
<1>3. JobInv'
  BY <1>1 DEF PoolInv, JobInv
<1>4. OrphanInv'
  BY EraseOrphansStep DEF PeerGone, PoolInv
<1>5. QED
  BY <1>2, <1>3, <1>4 DEF PoolInv

LEMMA ClearStep ==
  ASSUME PoolInv, Clear
  PROVE  PoolInv'
<1>1. /\ job.op = "idle" /\ UNCHANGED <<chain, orphanVars, job>>
      /\ mapTx' = {} /\ mapNextTx' = [o \in Outpoints |-> NoTx]
  BY DEF Clear, Free
<1>2. PoolExact'
  BY <1>1, TransactionAssumption DEF PoolExact, NextTxExact
<1>3. Apart' /\ InputsFed' /\ AllMature'
  BY <1>1 DEF Apart, InputsFed, AllMature
<1>4. Core'
  BY <1>1, <1>2, <1>3, ChainSame DEF PoolInv, Core
<1>5. JobInv'
  BY <1>1 DEF PoolInv, JobInv, orphanVars
<1>6. QED
  BY <1>1, <1>4, <1>5, OrphansSame DEF PoolInv

(* Steps that leave the pool, the chain, the orphans and the job alone. *)
LEMMA PoolSame ==
  ASSUME PoolInv, UNCHANGED <<chain, poolVars, orphanVars, job>>
  PROVE  PoolInv'
<1>1. UNCHANGED <<chain, mapTx, mapNextTx, mapOrphans, job>>
  BY DEF poolVars, orphanVars
<1>2. JobInv'
  BY <1>1 DEF PoolInv, JobInv
<1>3. PoolExact'
  BY <1>1 DEF PoolInv, Core, PoolExact, NextTxExact
<1>4. Rest' = Rest
  BY <1>1 DEF Rest
<1>5. Apart'
  BY <1>1, <1>4, ChainSame DEF PoolInv, Core, Apart, Connecting
<1>6. InputsFed'
  BY <1>1, <1>4, ChainSame DEF PoolInv, Core, InputsFed, HaveInput
<1>7. AllMature'
  BY <1>1, ChainSame DEF PoolInv, Core, AllMature
<1>8. QED
  BY <1>1, <1>2, <1>3, <1>5, <1>6, <1>7, OrphansSame, ChainSame DEF PoolInv, Core

LEMMA MemNextStep ==
  ASSUME PoolInv, MemNext
  PROVE  PoolInv' /\ (~Free => \A t \in mapTx \ mapTx' : Justified(t)')
<1>1. ASSUME NEW t \in Txs, ProcessOrphan(t)
      PROVE  PoolInv' /\ mapTx \subseteq mapTx'
  BY <1>1, ProcessOrphanStep
<1>2. CASE NextWork
  BY <1>2, NextWorkStep
<1>3. CASE ConnectTx
  BY <1>3, ConnectTxStep, OrphansSame DEF PoolInv, ConnectTx
<1>4. CASE DisconnectTx
  BY <1>4, DisconnectTxStep, OrphansSame DEF PoolInv, DisconnectTx
<1>5. CASE DisconnectDone
  BY <1>5, DisconnectDoneStep, OrphansSame DEF PoolInv, DisconnectDone
<1>6. ASSUME NEW p \in Peers, NEW t \in Txs, TxMessage(p, t)
      PROVE  PoolInv' /\ Free
  BY <1>6, TxMessageStep DEF TxMessage
<1>7. ASSUME NEW t \in Txs, LocalTx(t)
      PROVE  PoolInv' /\ Free
  BY <1>7, LocalTxStep DEF LocalTx
<1>8. ASSUME NEW p \in Peers, PeerGone(p)
      PROVE  PoolInv' /\ Free
  BY <1>8, PeerGoneStep DEF PeerGone
<1>9. CASE Clear
  BY <1>9, ClearStep DEF Clear
<1>10. ASSUME NEW b \in Blocks, RefuseBlock(b) \/ RefuseConnect(b)
       PROVE  PoolInv' /\ mapTx \subseteq mapTx'
  BY <1>10, PoolSame DEF RefuseBlock, RefuseConnect, poolVars
<1>11. ASSUME NEW b \in Blocks, ConnectTip(b)
       PROVE  PoolInv' /\ Free
  BY <1>11, ConnectTipStep, OrphansSame DEF PoolInv, ConnectTip
<1>12. CASE DisconnectTip
  BY <1>12, DisconnectTipStep, OrphansSame DEF PoolInv, DisconnectTip
<1>13. QED
  BY <1>1, <1>2, <1>3, <1>4, <1>5, <1>6, <1>7, <1>8, <1>9, <1>10, <1>11, <1>12
     DEF MemNext, Handler

-----------------------------------------------------------------------------
(* Locks and votes *)

(* No masternode is counted twice in the lock, and its vote counts as seen. *)
Counted(t, lock, seen) ==
  \A m \in Masternodes : \A g, h \in VoteHeights :
    /\ lock.votes[<<m, h>>] <= 1
    /\ lock.votes[<<m, g>>] > 0 /\ lock.votes[<<m, h>>] > 0 => g = h
    /\ lock.votes[<<m, h>>] > 0 => <<m, t>> \in seen

LocksGood(locks, seen) ==
  /\ locks \in [Txs -> Lock \cup {NoLock}]
  /\ \A t \in Txs : locks[t] # NoLock => Counted(t, locks[t], seen)

LEMMA MoreSeen ==
  ASSUME NEW locks, NEW seen, LocksGood(locks, seen), NEW more, seen \subseteq more
  PROVE  LocksGood(locks, more)
BY DEF LocksGood, Counted

LEMMA NewLockGood ==
  ASSUME NEW h \in Nat, NEW t, NEW seen
  PROVE  NewLock(h) \in Lock /\ Counted(t, NewLock(h), seen)
<1>1. Life \in -1..Life
  BY LockAssumption
<1>2. NewLock(h) \in Lock
  BY <1>1 DEF NewLock, Lock
<1>3. \A m \in Masternodes, g \in VoteHeights : NewLock(h).votes[<<m, g>>] = 0
  BY DEF NewLock, Voters
<1>4. QED
  BY <1>2, <1>3 DEF Counted

LEMMA SameVotes ==
  ASSUME NEW t, NEW seen, NEW a, NEW b, Counted(t, a, seen), b.votes = a.votes
  PROVE  Counted(t, b, seen)
BY DEF Counted

LEMMA CreateGood ==
  ASSUME NEW seen, LocksGood(mapTxLocks, seen), NEW t \in Txs, NEW h \in Nat
  PROVE  LocksGood(CreateNewLock(t, h), seen)
<1>1. CASE h = 0
  BY <1>1 DEF CreateNewLock
<1>2. CASE h # 0 /\ ~Exists(t)
  <2>1. CreateNewLock(t, h) = [mapTxLocks EXCEPT ![t] = NewLock(h)]
    BY <1>2 DEF CreateNewLock
  <2>2. QED
    BY <2>1, NewLockGood DEF LocksGood
<1>3. CASE h # 0 /\ Exists(t)
  <2> DEFINE l == [mapTxLocks[t] EXCEPT !.height = h]
  <2>1. CreateNewLock(t, h) = [mapTxLocks EXCEPT ![t] = l]
    BY <1>3 DEF CreateNewLock
  <2>2. mapTxLocks[t] \in Lock /\ Counted(t, mapTxLocks[t], seen)
    BY <1>3 DEF LocksGood, Exists
  <2>3. l \in Lock /\ l.votes = mapTxLocks[t].votes
    BY <2>2 DEF Lock
  <2>4. Counted(t, l, seen)
    BY <2>2, <2>3, SameVotes
  <2>5. QED
    BY <2>1, <2>3, <2>4 DEF LocksGood
<1>4. QED
  BY <1>1, <1>2, <1>3

LEMMA AddSignatureGood ==
  ASSUME NEW seen, LocksGood(mapTxLocks, seen), NEW t \in Txs,
         NEW m \in Masternodes, NEW h \in VoteHeights, <<m, t>> \notin seen
  PROVE  LocksGood(AddSignature(t, <<m, h>>), seen \cup {<<m, t>>})
<1> DEFINE lock == IF Exists(t) THEN mapTxLocks[t] ELSE NewLock(0)
           new == [lock EXCEPT !.votes[<<m, h>>] = @ + 1]
<1>1. lock \in Lock /\ Counted(t, lock, seen)
  BY NewLockGood DEF LocksGood, Exists
<1>2. AddSignature(t, <<m, h>>) = [mapTxLocks EXCEPT ![t] = new]
  BY DEF AddSignature
<1> HIDE DEF lock
<1>3. <<m, h>> \in Voters
  BY DEF Voters
<1>4. lock.votes \in [Voters -> Nat]
  BY <1>1 DEF Lock
<1>5. /\ new.votes = [lock.votes EXCEPT ![<<m, h>>] = @ + 1]
      /\ new \in Lock
  BY <1>1, <1>3, <1>4 DEF Lock
<1> HIDE DEF new
<1>6. \A g \in VoteHeights : lock.votes[<<m, g>>] = 0
  <2> SUFFICES ASSUME NEW g \in VoteHeights
               PROVE  lock.votes[<<m, g>>] = 0
    OBVIOUS
  <2>1. lock.votes[<<m, g>>] \in Nat
    BY <1>4 DEF Voters
  <2>2. ~(lock.votes[<<m, g>>] > 0)
    BY <1>1 DEF Counted
  <2>3. QED
    BY <2>1, <2>2
<1>7. ASSUME NEW w \in Masternodes, NEW g \in VoteHeights
      PROVE  /\ new.votes[<<w, g>>] = IF w = m THEN (IF g = h THEN 1 ELSE 0) ELSE lock.votes[<<w, g>>]
  <2>1. <<w, g>> \in Voters
    BY DEF Voters
  <2>2. new.votes[<<w, g>>] = IF <<w, g>> = <<m, h>> THEN lock.votes[<<m, h>>] + 1 ELSE lock.votes[<<w, g>>]
    BY <1>3, <1>4, <1>5, <2>1
  <2>3. <<w, g>> = <<m, h>> <=> w = m /\ g = h
    OBVIOUS
  <2>4. QED
    BY <1>6, <2>2, <2>3
<1>8. Counted(t, new, seen \cup {<<m, t>>})
  <2> SUFFICES ASSUME NEW w \in Masternodes, NEW g \in VoteHeights, NEW k \in VoteHeights
               PROVE  /\ new.votes[<<w, k>>] <= 1
                      /\ new.votes[<<w, g>>] > 0 /\ new.votes[<<w, k>>] > 0 => g = k
                      /\ new.votes[<<w, k>>] > 0 => <<w, t>> \in seen \cup {<<m, t>>}
    BY DEF Counted
  <2>1. CASE w = m
    BY <1>7, <2>1
  <2>2. CASE w # m
    BY <1>1, <1>7, <2>2 DEF Counted
  <2>3. QED
    BY <2>1, <2>2
<1>9. LocksGood(mapTxLocks, seen \cup {<<m, t>>})
  BY MoreSeen
<1>10. QED
  BY <1>2, <1>5, <1>8, <1>9 DEF LocksGood

LEMMA CancelGood ==
  ASSUME NEW locks, NEW seen, LocksGood(locks, seen), NEW r, NEW locked
  PROVE  LocksGood(Cancel(r, locked, locks), seen)
<1> DEFINE new == Cancel(r, locked, locks)
           ended(t) == [locks[t] EXCEPT !.left = 0]
<1>1. \E E : new = [t \in Txs |-> IF t \in E /\ locks[t] # NoLock THEN ended(t) ELSE locks[t]]
  BY DEF Cancel
<1>2. PICK E : new = [t \in Txs |-> IF t \in E /\ locks[t] # NoLock THEN ended(t) ELSE locks[t]]
  BY <1>1
<1> HIDE DEF new
<1>3. 0 \in -1..Life
  BY LockAssumption
<1>4. ASSUME NEW t \in Txs, locks[t] # NoLock
      PROVE  ended(t) \in Lock /\ ended(t).votes = locks[t].votes
  <2>1. locks[t] \in Lock
    BY <1>4 DEF LocksGood
  <2>2. QED
    BY <1>3, <2>1 DEF Lock
<1>5. ASSUME NEW t \in Txs, locks[t] # NoLock
      PROVE  Counted(t, ended(t), seen)
  BY <1>4, <1>5, SameVotes DEF LocksGood
<1> HIDE DEF ended
<1>6. new \in [Txs -> Lock \cup {NoLock}]
  BY <1>2, <1>4 DEF LocksGood
<1>7. \A t \in Txs : new[t] # NoLock => Counted(t, new[t], seen)
  BY <1>2, <1>5 DEF LocksGood
<1>8. QED
  BY <1>6, <1>7 DEF LocksGood, new

LEMMA TickGood ==
  ASSUME LocksGood(mapTxLocks, mapTxLockVote), Tick
  PROVE  LocksGood(mapTxLocks, mapTxLockVote)'
<1> DEFINE older(t) == [mapTxLocks[t] EXCEPT !.left = @ - 1]
<1>1. /\ mapTxLocks' = [t \in Txs |-> IF Exists(t) /\ mapTxLocks[t].left >= 0 THEN older(t) ELSE mapTxLocks[t]]
      /\ mapTxLockVote' = mapTxLockVote
  BY DEF Tick
<1>2. ASSUME NEW t \in Txs, Exists(t), mapTxLocks[t].left >= 0
      PROVE  older(t) \in Lock /\ older(t).votes = mapTxLocks[t].votes
  <2>1. mapTxLocks[t] \in Lock
    BY <1>2 DEF LocksGood, Exists
  <2>2. mapTxLocks[t].left - 1 \in -1..Life
    BY <1>2, <2>1, LockAssumption DEF Lock
  <2>3. QED
    BY <2>1, <2>2 DEF Lock
<1>3. ASSUME NEW t \in Txs, Exists(t), mapTxLocks[t].left >= 0
      PROVE  Counted(t, older(t), mapTxLockVote)
  BY <1>2, <1>3, SameVotes DEF LocksGood, Exists
<1> HIDE DEF older
<1>4. mapTxLocks' \in [Txs -> Lock \cup {NoLock}]
  BY <1>1, <1>2 DEF LocksGood
<1>5. \A t \in Txs : mapTxLocks'[t] # NoLock => Counted(t, mapTxLocks'[t], mapTxLockVote)
  BY <1>1, <1>3 DEF LocksGood
<1>6. QED
  BY <1>1, <1>4, <1>5 DEF LocksGood

LEMMA CleanGood ==
  ASSUME LocksGood(mapTxLocks, mapTxLockVote), CleanTransactionLocksList
  PROVE  LocksGood(mapTxLocks, mapTxLockVote)'
<1>1. mapTxLocks' = [t \in Txs |-> IF t \in Expired THEN NoLock ELSE mapTxLocks[t]]
  BY DEF CleanTransactionLocksList
<1>2. \A v \in mapTxLockVote : v[2] \notin Expired => v \in mapTxLockVote'
  BY DEF CleanTransactionLocksList
<1>3. ASSUME NEW t \in Txs, mapTxLocks'[t] # NoLock
      PROVE  Counted(t, mapTxLocks[t], mapTxLockVote')
  <2>1. t \notin Expired /\ Counted(t, mapTxLocks[t], mapTxLockVote)
    BY <1>1, <1>3 DEF LocksGood
  <2>2. QED
    BY <1>2, <2>1 DEF Counted
<1>4. QED
  BY <1>1, <1>3 DEF LocksGood

-----------------------------------------------------------------------------
(* Every step of the locks *)

LockMaps ==
  /\ mapLockedInputs \in [Outpoints -> Txs \cup {NoTx}]
  /\ failed \subseteq DOMAIN mapRejectedBlocks
  /\ mapTxLockReq \in [Txs -> Txs \cup {EmptyTx, NoTx}]
  /\ mapTxLockReqRejected \subseteq Txs
  /\ mapTxLockVote \subseteq (Masternodes \cup {Self}) \X Txs
  /\ message \in [tx : Txs, height : Nat] \cup {NoMessage}

IInv == PoolInv /\ LockMaps /\ LocksGood(mapTxLocks, mapTxLockVote)

(* A request's lock has no height, or one just above its first input's. *)
LEMMA LockHeightNat ==
  ASSUME PoolInv, NEW t \in Requests
  PROVE  t \in Txs /\ LockHeight(t) \in Nat
<1>1. t \in Txs \ Generated /\ MinAge \in Nat
  BY LockAssumption
<1>2. CASE \E o \in Inputs(t) : InputAge(o) < MinAge
  BY <1>1, <1>2 DEF LockHeight
<1>3. CASE ~\E o \in Inputs(t) : InputAge(o) < MinAge
  <2> DEFINE o == Vin[t][1]
  <2>1. o \in Inputs(t)
    <3>1. Vin[t] \in Seq(Outpoints) /\ Inputs(t) # {}
      BY <1>1, TransactionAssumption
    <3>2. 1 \in DOMAIN Vin[t]
      BY <3>1 DEF Inputs, Range
    <3>3. QED
      BY <3>2 DEF Inputs, Range
  <2>2. LockHeight(t) = TipHeight - InputAge(o) + 4
    BY <1>3 DEF LockHeight
  <2>3. ~(InputAge(o) < MinAge)
    BY <1>3, <2>1
  <2> HIDE DEF o
  <2>4. o[1] \in Txs
    BY <1>1, <2>1, InputOf
  <2>5. o[1] \notin mapTx /\ HaveCoins(o[1]) /\ InputAge(o) = TipHeight + 1 - Height(o[1])
    <3>1. ~(-1 < MinAge) => FALSE
      BY <1>1
    <3>2. QED
      BY <2>3, <3>1 DEF InputAge
  <2>6. PICK p \in Outputs(o[1]) : IsAvailable(p)
    BY <2>5 DEF HaveCoins
  <2>7. o[1] \in Confirmed
    BY <2>4, <2>6, OutputsOf DEF IsAvailable
  <2>8. Height(o[1]) \in Nat
    BY <2>7, HeightNat DEF PoolInv, Core
  <2>9. TipHeight \in Int
    BY ConfirmedFacts DEF PoolInv, Core, TipHeight
  <2>10. LockHeight(t) = Height(o[1]) + 3
    BY <2>2, <2>5, <2>8, <2>9
  <2>11. QED
    BY <1>1, <2>8, <2>10
<1>4. QED
  BY <1>2, <1>3

LEMMA InsertType ==
  ASSUME LockMaps, NEW t \in Txs
  PROVE  Insert(mapTxLockReq, t) \in [Txs -> Txs \cup {EmptyTx, NoTx}]
BY DEF LockMaps, Insert

LEMMA LockFreeType ==
  ASSUME LockMaps, NEW t \in Txs, NEW r
  PROVE  LockFree(r, t) \in [Outpoints -> Txs \cup {NoTx}]
BY DEF LockMaps, LockFree

LEMMA ReprocessKeeps ==
  ASSUME LockMaps, ReprocessBlocks \/ UNCHANGED blockVars
  PROVE  failed' \subseteq DOMAIN mapRejectedBlocks'
BY DEF LockMaps, ReprocessBlocks, blockVars

LEMMA MemNextLocks ==
  ASSUME LockMaps, MemNext, UNCHANGED lockVars
  PROVE  LockMaps'
<1>1. ASSUME NEW b, RefuseBlock(b) \/ RefuseConnect(b)
      PROVE  mapLockedInputs' = mapLockedInputs /\ failed' \subseteq DOMAIN mapRejectedBlocks'
  BY <1>1 DEF RefuseBlock, RefuseConnect, Reject, LockMaps
<1>2. mapLockedInputs' = mapLockedInputs /\ failed' \subseteq DOMAIN mapRejectedBlocks'
  <2>1. (\E b \in Blocks : RefuseBlock(b) \/ RefuseConnect(b)) \/ UNCHANGED <<mapLockedInputs, blockVars>>
    BY DEF MemNext, Handler, ProcessOrphan, NextWork, ConnectTx, DisconnectTx, DisconnectDone,
           TxMessage, LocalTx, PeerGone, Clear, ConnectTip, DisconnectTip
  <2>2. QED
    BY <1>1, <2>1 DEF LockMaps, blockVars
<1>3. QED
  BY <1>2 DEF LockMaps, lockVars

LEMMA IxMessageStep ==
  ASSUME IInv, NEW t \in Requests, IxMessage(t)
  PROVE  IInv'
<1>1. t \in Txs /\ LockHeight(t) \in Nat
  BY LockHeightNat DEF IInv
<1>2. PoolInv'
  BY PoolSame DEF IInv, IxMessage, memVars
<1>3. LockMaps'
  BY <1>1 DEF IInv, LockMaps, IxMessage, memVars, blockVars
<1>4. LocksGood(mapTxLocks, mapTxLockVote)'
  BY <1>1, CreateGood DEF IInv, IxMessage
<1>5. QED
  BY <1>2, <1>3, <1>4 DEF IInv

LEMMA IxAcceptedStep ==
  ASSUME IInv, IxAccepted
  PROVE  IInv'
<1> DEFINE t == message.tx
<1>1. t \in Txs
  BY DEF IxAccepted, IInv, LockMaps
<1>2. PoolInv'
  BY <1>1, LocalTxStep DEF IInv, IxAccepted
<1>3. mapTxLockVote' \subseteq (Masternodes \cup {Self}) \X Txs /\ mapTxLockVote \subseteq mapTxLockVote'
  BY <1>1 DEF IxAccepted, OwnVote, IInv, LockMaps
<1>4. LockMaps'
  BY <1>1, <1>3, InsertType DEF IInv, LockMaps, IxAccepted, blockVars
<1>5. LocksGood(mapTxLocks, mapTxLockVote)'
  BY <1>3, MoreSeen DEF IInv, IxAccepted
<1>6. QED
  BY <1>2, <1>4, <1>5 DEF IInv

LEMMA IxRejectedStep ==
  ASSUME IInv, IxRejected
  PROVE  IInv'
<1> DEFINE t == message.tx
<1>1. t \in Txs
  BY DEF IxRejected, IInv, LockMaps
<1>2. PoolInv'
  BY PoolSame DEF IInv, IxRejected
<1>3. /\ mapTxLockReq' \in [Txs -> Txs \cup {EmptyTx, NoTx}]
      /\ ReprocessBlocks \/ UNCHANGED blockVars
      /\ mapTxLocks' \in {mapTxLocks, Cancel(t, LockFree(t, t), mapTxLocks)}
  BY <1>1, InsertType DEF IInv, LockMaps, IxRejected
<1>4. mapLockedInputs' \in [Outpoints -> Txs \cup {NoTx}] /\ mapTxLockReqRejected' \subseteq Txs
  BY <1>1, LockFreeType DEF IInv, IxRejected, LockMaps
<1>5. LockMaps'
  BY <1>3, <1>4, ReprocessKeeps DEF IInv, IxRejected, LockMaps
<1>6. LocksGood(mapTxLocks, mapTxLockVote)'
  BY <1>3, CancelGood DEF IInv, IxRejected
<1>7. QED
  BY <1>2, <1>5, <1>6 DEF IInv

LEMMA RpcIxStep ==
  ASSUME IInv, NEW t \in Requests, RpcIx(t)
  PROVE  IInv'
<1>1. t \in Txs /\ LockHeight(t) \in Nat
  BY LockHeightNat DEF IInv
<1>2. PoolInv'
  <2>1. (Verdict(t) = "accepted" /\ addUnchecked(t)) \/ UNCHANGED poolVars
    BY DEF RpcIx, Answers
  <2>2. QED
    BY <1>1, <2>1, LocalTxStep, PoolSame DEF IInv, RpcIx
<1>3. LockMaps'
  BY <1>1, InsertType DEF IInv, LockMaps, RpcIx, blockVars
<1>4. LocksGood(mapTxLocks, mapTxLockVote)'
  BY <1>1, CreateGood DEF IInv, RpcIx
<1>5. QED
  BY <1>2, <1>3, <1>4 DEF IInv

LEMMA WalletIxStep ==
  ASSUME IInv, NEW t \in Requests, WalletIx(t)
  PROVE  IInv'
<1>1. t \in Txs /\ LockHeight(t) \in Nat
  BY LockHeightNat DEF IInv
<1>2. PoolInv'
  BY PoolSame DEF IInv, WalletIx, memVars
<1>3. LockMaps'
  BY <1>1, InsertType DEF IInv, LockMaps, WalletIx, memVars, blockVars
<1>4. LocksGood(mapTxLocks, mapTxLockVote)'
  BY <1>1, CreateGood DEF IInv, WalletIx
<1>5. QED
  BY <1>2, <1>3, <1>4 DEF IInv

LEMMA VoteInvalidStep ==
  ASSUME IInv, NEW m \in Masternodes, NEW t \in Requests, VoteInvalid(m, t)
  PROVE  IInv'
<1>1. t \in Txs
  BY LockAssumption
<1>2. PoolInv'
  BY PoolSame DEF IInv, VoteInvalid, memVars
<1>3. LockMaps'
  BY <1>1 DEF IInv, LockMaps, VoteInvalid, memVars, blockVars
<1>4. LocksGood(mapTxLocks, mapTxLockVote)'
  BY MoreSeen DEF IInv, VoteInvalid
<1>5. QED
  BY <1>2, <1>3, <1>4 DEF IInv

LEMMA VoteStep ==
  ASSUME IInv, NEW m \in Masternodes, NEW t \in Requests, NEW h \in VoteHeights, Vote(m, t, h)
  PROVE  IInv'
<1> DEFINE locks == AddSignature(t, <<m, h>>)
<1>1. t \in Txs
  BY LockAssumption
<1>2. PoolInv'
  BY PoolSame DEF IInv, Vote
<1>3. <<m, t>> \notin mapTxLockVote /\ mapTxLockVote' = mapTxLockVote \cup {<<m, t>>}
  BY DEF Vote, Seen
<1>4. LocksGood(locks, mapTxLockVote')
  BY <1>1, <1>3, AddSignatureGood DEF IInv
<1>5. \/ Complete(t, locks)
      \/ mapTxLocks' = locks /\ UNCHANGED <<mapTxLockReq, mapLockedInputs, blockVars>>
  BY DEF Vote
<1> HIDE DEF locks
<1>6. CASE Complete(t, locks)
  <2> DEFINE r == IF mapTxLockReq[t] = NoTx THEN EmptyTx ELSE mapTxLockReq[t]
  <2>1. mapTxLockReq' \in [Txs -> Txs \cup {EmptyTx, NoTx}]
    BY <1>1, <1>6 DEF Complete, IInv, LockMaps
  <2>2. mapLockedInputs' = mapLockedInputs \/ mapLockedInputs' = LockFree(r, t)
    BY <1>6 DEF Complete
  <2>3. mapLockedInputs' \in [Outpoints -> Txs \cup {NoTx}]
    BY <1>1, <2>2, LockFreeType DEF IInv, LockMaps
  <2>4. ReprocessBlocks \/ UNCHANGED blockVars
    BY <1>6 DEF Complete
  <2>5. mapTxLocks' = locks \/ mapTxLocks' = Cancel(r, mapLockedInputs, locks)
    BY <1>6 DEF Complete
  <2>6. LocksGood(mapTxLocks, mapTxLockVote)'
    BY <1>4, <2>5, CancelGood
  <2>7. LockMaps'
    BY <1>1, <1>3, <2>1, <2>3, <2>4, ReprocessKeeps DEF IInv, LockMaps, Vote
  <2>8. QED
    BY <1>2, <2>6, <2>7 DEF IInv
<1>7. CASE mapTxLocks' = locks /\ UNCHANGED <<mapTxLockReq, mapLockedInputs, blockVars>>
  <2>1. LockMaps'
    BY <1>1, <1>3, <1>7 DEF IInv, LockMaps, Vote, blockVars
  <2>2. QED
    BY <1>2, <1>4, <1>7, <2>1 DEF IInv
<1>8. QED
  BY <1>5, <1>6, <1>7

LEMMA TickStep ==
  ASSUME IInv, Tick
  PROVE  IInv'
<1>1. PoolInv'
  BY PoolSame DEF IInv, Tick
<1>2. failed' \subseteq DOMAIN mapRejectedBlocks'
  BY DEF IInv, LockMaps, Tick
<1>3. LockMaps'
  BY <1>2 DEF IInv, LockMaps, Tick
<1>4. QED
  BY <1>1, <1>3, TickGood DEF IInv

LEMMA CleanStep ==
  ASSUME IInv, CleanTransactionLocksList
  PROVE  IInv'
<1>1. PoolInv'
  BY PoolSame DEF IInv, CleanTransactionLocksList
<1>2. /\ mapLockedInputs' \in [Outpoints -> Txs \cup {NoTx}]
      /\ mapTxLockReq' \in [Txs -> Txs \cup {EmptyTx, NoTx}]
      /\ mapTxLockReqRejected' \subseteq Txs
      /\ mapTxLockVote' \subseteq (Masternodes \cup {Self}) \X Txs
  BY DEF IInv, LockMaps, CleanTransactionLocksList
<1>3. LockMaps'
  BY <1>2 DEF IInv, LockMaps, CleanTransactionLocksList, blockVars
<1>4. QED
  BY <1>1, <1>3, CleanGood DEF IInv

-----------------------------------------------------------------------------
(* The theorems *)

LEMMA InitHolds == Init => IInv
<1> SUFFICES ASSUME Init PROVE IInv
  OBVIOUS
<1> USE DEF Init, MemInit
<1>1. PoolExact
  BY TransactionAssumption DEF PoolExact, NextTxExact
<1>2. job.op = "idle" /\ job \in Job
  BY DEF Idle, Job
<1>3. Core
  BY <1>1, <1>2, ChainAssumption DEF Core, Apart, InputsFed, AllMature
<1>4. JobInv
  BY <1>2 DEF JobInv
<1>5. OrphanInv
  <2>1. OrphanCount = 0
    BY FS_EmptySet DEF OrphanCount
  <2>2. OrphansBounded
    BY <2>1, TransactionAssumption DEF OrphansBounded
  <2>3. QED
    BY <2>2 DEF OrphanInv, OrphanIndexExact
<1>6. LockMaps
  BY DEF LockMaps
<1>7. LocksGood(mapTxLocks, mapTxLockVote)
  BY DEF LocksGood
<1>8. QED
  BY <1>3, <1>4, <1>5, <1>6, <1>7 DEF PoolInv, IInv

LEMMA NextKeeps == IInv /\ [Next]_vars => IInv'
<1> SUFFICES ASSUME IInv, [Next]_vars PROVE IInv'
  OBVIOUS
<1>1. CASE MemNext /\ UNCHANGED lockVars
  <2>1. PoolInv' /\ LockMaps'
    BY <1>1, MemNextStep, MemNextLocks DEF IInv
  <2>2. LocksGood(mapTxLocks, mapTxLockVote)'
    BY <1>1 DEF IInv, lockVars
  <2>3. QED
    BY <2>1, <2>2 DEF IInv
<1>2. ASSUME NEW t \in Requests, IxMessage(t) \/ RpcIx(t) \/ WalletIx(t)
      PROVE  IInv'
  BY <1>2, IxMessageStep, RpcIxStep, WalletIxStep
<1>3. CASE IxAccepted
  BY <1>3, IxAcceptedStep
<1>4. CASE IxRejected
  BY <1>4, IxRejectedStep
<1>5. ASSUME NEW m \in Masternodes, NEW t \in Requests,
             VoteInvalid(m, t) \/ \E h \in VoteHeights : Vote(m, t, h)
      PROVE  IInv'
  BY <1>5, VoteInvalidStep, VoteStep
<1>6. CASE Tick
  BY <1>6, TickStep
<1>7. CASE CleanTransactionLocksList
  BY <1>7, CleanStep
<1>8. CASE UNCHANGED vars
  <2>1. PoolInv'
    BY <1>8, PoolSame DEF IInv, vars, memVars
  <2>2. LockMaps'
    BY <1>8 DEF IInv, LockMaps, vars, memVars, lockVars, blockVars
  <2>3. LocksGood(mapTxLocks, mapTxLockVote)'
    BY <1>8 DEF IInv, vars, lockVars
  <2>4. QED
    BY <2>1, <2>2, <2>3 DEF IInv
<1>9. QED
  BY <1>1, <1>2, <1>3, <1>4, <1>5, <1>6, <1>7, <1>8 DEF Next

(* The invariant is inductive: every handler of the pool, of the orphans and of *)
(* the locks keeps it, whatever transactions, blocks and votes arrive.          *)
THEOREM Inductive == Spec => []IInv
<1>1. Init => IInv
  BY InitHolds
<1>2. IInv /\ [Next]_vars => IInv'
  BY NextKeeps
<1>3. QED
  BY <1>1, <1>2, PTL DEF Spec

(* CTxMemPool::check never fails, through any reorganisation: mapNextTx is the   *)
(* inputs of the pool's transactions, and these are there and mature. The block  *)
(* handlers (removeForBlock, removeRecursive, removeCoinbaseSpends) are the steps *)
(* that could break it.                                                          *)
THEOREM PoolTheorem == Spec => []PoolConsistent
<1>1. IInv => PoolConsistent
  <2> SUFFICES ASSUME IInv PROVE PoolConsistent
    OBVIOUS
  <2>1. NextTxExact
    BY DEF IInv, PoolInv, Core, PoolExact
  <2>2. PoolInputsAvailable
    BY DEF IInv, PoolInv, Core, InputsFed, PoolInputsAvailable, Rest, Range
  <2>3. PoolMature
    BY DEF IInv, PoolInv, Core, AllMature, PoolMature
  <2>4. QED
    BY <2>1, <2>2, <2>3 DEF PoolConsistent
<1>2. QED
  BY <1>1, Inductive, PTL

(* mapOrphanTransactionsByPrev finds every orphan under each of its parents, and *)
(* -maxorphantx bounds the orphans, for any number of peers and transactions.    *)
THEOREM OrphansTheorem == Spec => []OrphansConsistent
<1>1. IInv => OrphansConsistent
  BY DEF IInv, PoolInv, OrphanInv, OrphansConsistent
<1>2. QED
  BY <1>1, Inductive, PTL

(* A lock counts a masternode at most once (ProcessConsensusVote and the clean-up *)
(* of old locks), and all maps of the pool and the locks have their types.        *)
THEOREM LocksTheorem == Spec => []LocksConsistent
<1>1. IInv => LocksConsistent
  <2> SUFFICES ASSUME IInv PROVE LocksConsistent
    OBVIOUS
  <2>1. MemTypeOK
    BY ConfirmedFacts
       DEF IInv, PoolInv, Core, PoolExact, JobInv, OrphanInv, LockMaps, MemTypeOK
  <2>2. TypeOK
    BY <2>1 DEF IInv, LockMaps, LocksGood, TypeOK
  <2>3. VotesOnce
    BY DEF IInv, LocksGood, Counted, VotesOnce, Exists
  <2>4. QED
    BY <2>2, <2>3 DEF LocksConsistent
<1>2. QED
  BY <1>1, Inductive, PTL

(* While ConnectTip or DisconnectTip runs, removeForBlock, removeRecursive and *)
(* removeCoinbaseSpends drop nothing that could still be confirmed.            *)
THEOREM RemovalTheorem == Spec => NoNeedlessRemoval
<1>1. IInv /\ [Next]_vars =>
        [~Free => \A t \in mapTx \ mapTx' :
           \/ t \in Confirmed' \/ ~SpendsMature(t)'
           \/ \E o \in Inputs(t) : ~HaveInput(o)']_memVars
  <2> SUFFICES ASSUME IInv, [Next]_vars, ~Free, NEW t \in mapTx \ mapTx'
               PROVE  Justified(t)'
    BY DEF Justified
  <2>1. CASE MemNext
    BY <2>1, MemNextStep DEF IInv
  <2>2. CASE mapTx' = mapTx
    BY <2>2
  <2>3. MemNext \/ mapTx' = mapTx
    <3>1. ~IxAccepted /\ \A u : ~RpcIx(u) /\ ~WalletIx(u)
      BY DEF IxAccepted, RpcIx, WalletIx
    <3>2. QED
      BY <3>1 DEF Next, IxMessage, IxRejected, VoteInvalid, Vote, Tick,
         CleanTransactionLocksList, memVars, poolVars, vars
  <2>4. QED
    BY <2>1, <2>2, <2>3
<1>2. QED
  BY <1>1, Inductive, PTL DEF Spec, NoNeedlessRemoval
=============================================================================
