CONSTANTS
  f = f  g = g  p = p  q = q  c = c  d = d  s = s  u = u  m1 = m1  m2 = m2  n1 = n1  n2 = n2
  Txs <- LockTxs
  Vin <- LockVin
  Vout <- LockVout
  Generated = {f, g}
  Blocks <- LockBlocks
  BaseChain <- Chain
  MaxHeight = 2
  COINBASE_MATURITY = 2
  Peers = {n1}
  MaxOrphans = 1
  Requests = {p, q}
  Masternodes = {m1}
  Self = n1
  Quorum <- LockQuorum
  VoteHeights = {3}
  SIGNATURES_REQUIRED = 1
  MinAge = 2
  Life = 1
  Window = 1
  NoTx = NoTx  NoPeer = NoPeer  EmptyTx = EmptyTx  NoLock = NoLock  NoMessage = NoMessage
SPECIFICATION Spec
PROPERTY RejectsOnConsensus
