CONSTANTS
  G = G  A = A  B = B  C = C  D = D  E = E
  Genesis = G
  Blocks <- TwoBranches
  Parent <- TwoParents
  Path <- TwoPaths
  ChainWork <- TwoWork
  Invalid = {E}
  Doubtful = {}
  Malformed = {B}
  Invalidatable = {}
  Reconsiderable = {}
  Rewinds = {0, 1}
  Addresses <- TwoOrders
  MaxCrashes = 1
SPECIFICATION Spec
INVARIANTS TypeOK LinkedTree BestChainActive DiskRecoverable
CHECK_DEADLOCK FALSE
