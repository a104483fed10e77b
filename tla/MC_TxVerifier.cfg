CONSTANTS
  Txs <- MCTxs
  ThreadNum = 1
  MaxOut = 3
SPECIFICATION Spec
INVARIANTS
  TypeOK
  VerifyMatchesReference
PROPERTIES
  VerifyTerminates
CHECK_DEADLOCK FALSE
