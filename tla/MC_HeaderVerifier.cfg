\* Three linked headers, two workers, a caller that may abort.
CONSTANTS
  w1 = w1
  w2 = w2
  Workers = {w1, w2}
  Batches <- MCBatches
  MayAbort = TRUE
  Chain <- MCChain
  Now = 2000
  AllowedFutureBlockTime = 15
  MaximumExtraDataSize = 32
  MinGasLimit = 5000
  DifficultyBoundDivisor = 2048
  MinimumDifficulty = 131072
  TestFork = FALSE
  TestForkStart = 0
  Dev = FALSE
  GasCap = 2147483647
SPECIFICATION Spec
\* VerifyHeaders' goroutines end: a state where all have returned is final.
CHECK_DEADLOCK FALSE
INVARIANTS
  TypeOK
  DifficultyAdjustment
PROPERTIES
  HeaderBatchRefined
  AllResultsDelivered
