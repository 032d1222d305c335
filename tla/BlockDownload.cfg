CONSTANTS
  G = G  A = A  B = B  D = D  E = E  h = h  s = s  None = None
  Blocks = {G, A, B, D, E}
  Genesis = G
  Path <- MCPath
  Invalid = {E}
  Announced = {B, D}
  Recent = {B}
  Peers = {h, s}
  Honest = {h}
  Preferred = {h}
  MAX_IN_TRANSIT = 2
  WINDOW = 1
  MaxSessions = 1
SPECIFICATION FairSpec
INVARIANTS BookkeepingExact StallerOwesBlock CommonIsFull
PROPERTIES DownloadCompletes
