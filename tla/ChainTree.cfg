CONSTANTS
  G = G  A = A  B = B  C = C  D = D  E = E
  Genesis = G
  Blocks <- LongBlocks
  Parent <- LongParents
  Path <- LongPaths
  ChainWork <- LongWork
  Invalid = {}
  Doubtful = {D}
  Malformed = {}
  Invalidatable = {A, C}
  Reconsiderable = {A}
  Rewinds = {}
  Addresses <- LongOrders
  MaxCrashes = 0
SPECIFICATION FairSpec
INVARIANTS CheckBlockIndex PruneAssertion BestChainActive ActiveChainValid
PROPERTIES LockReleased NeverExtendsFailed
