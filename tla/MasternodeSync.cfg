SPECIFICATION FairSpec
CONSTANTS
  mn = mn
  Peers = {p, q}
  Paying = {p, q}
  Current = {p}
  Items = {mn}
  Kind <- OneMasternode
  THRESHOLD = 1
  MaxResets = 1
INVARIANTS SyncConsistent
PROPERTIES SyncEnds SyncAgain
