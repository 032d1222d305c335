SPECIFICATION Spec
CONSTANTS
  Workers = {w1, w2}
  Master = m
  Checks = {c1, c2, c3, c4}
  nBatchSize = 2
SYMMETRY PoolSymmetry
INVARIANTS TypeOK NoCheckTwice IdleBetweenSessions VerdictCorrect
PROPERTIES ImplementsVerdict
