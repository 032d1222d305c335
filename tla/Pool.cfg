CONSTANTS
  f = f  g = g  p = p  q = q  c = c  d = d  s = s  u = u  m1 = m1  m2 = m2  n1 = n1  n2 = n2
  Txs <- PoolTxs
  Vin <- PoolVin
  Vout <- PoolVout
  Generated = {f, g, s}
  Blocks <- PoolBlocks
  BaseChain <- Chain
  MaxHeight = 4
  COINBASE_MATURITY = 2
  Peers = {n1, n2}
  MaxOrphans = 2
  Requests = {}
  Masternodes = {}
  Self = m1
  Quorum = {}
  VoteHeights = {3}
  SIGNATURES_REQUIRED = 1
  MinAge = 2
  Life = 1
  Window = 1
  NoTx = NoTx  NoPeer = NoPeer  EmptyTx = EmptyTx  NoLock = NoLock  NoMessage = NoMessage
SPECIFICATION FairSpec
INVARIANTS PoolConsistent OrphansConsistent
PROPERTIES NoNeedlessRemoval HandlersEnd
