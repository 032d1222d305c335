CONSTANTS
  G = G  A = A  B = B  C = C  D = D  E = E  F = F  X = X  Y = Y
  ta = ta  tb = tb  tc = tc  td = td  te = te  tz = tz
  Hashes <- MCHashes
  TxIds <- MCTxIds
  Genesis = G
  Parent <- MCParent
  Height <- MCHeight
  Vtx <- MCVtx
  Vin <- MCVin
  Vout <- MCVout
  Outputs <- MCOutputs
  Values <- MCValues
  Pruned <- MCPruned
  Utxo <- MCUtxo
  Stakes = {tc}
  Invalid = {Y}
  NoEntry = NoEntry
  NoHash = NoHash
  NoUndo = NoUndo
SPECIFICATION Spec
INVARIANTS FlagsSound BatchWriteAssertion AssertionsHold TipRepresentsBest DiskRepresentsBest DisconnectClean
PROPERTIES ImplementsCoins
