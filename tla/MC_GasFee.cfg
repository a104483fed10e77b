\* Process over every block of up to two transactions, every EVM outcome.
CONSTANTS
  c1 = c1
  c2 = c2
  none = none
  k1 = k1
  notkt = notkt
  p1 = p1
  u1 = u1
  u2 = u2
  u3 = u3
  u4 = u4
  nopool = nopool
  novote = novote
  v1 = v1
  v2 = v2
  nil = nil
  Contracts = {c1, c2}
  Tokens = {"T", "U"}
  NoTo = none
  Blocks <- MCBlocks
  GasLimit = 100000
  InitObjects = {c1}
  InitBalance <- MCBalance
  InitRate <- MCRate
  InitRegistry <- MCRegistry
  LeftHalves = {0, 1, 2}
  RefundCounters = {0, 5000, 15000}
  NewRates <- MCNewRates
  Tickets = {k1}
  InitTickets <- MCTickets
  NoTkt = notkt
  Pkrs = {p1}
  Sends <- MCSends
  Senders = {u1, u2, u3, u4}
  NoPool = nopool
  NoVote = novote
  InitPools <- MCPools
  PoolValueThreshold = 100
  LockingBlockNum = 2
  Number = 10
  CaleAvgPrice <- MCCaleAvgPrice
  SumAmount1000 = 2007
  TxGas = 21000
  TxGasContractCreation = 53000
  TxDataNonZeroGas = 68
  TxDataZeroGas = 4
  MaxUint64 = 2147483647
  Accounts = {u1, u2, u3}
  NilArg = nil
  SuggestPrice = 1
  DefaultGasPrice = 1
  StakeGas = 25000
  LowestFeeRate = 2500
  HighestFeeRate = 7500
  EnoughPeers = TRUE
  BuyArgs <- MCBuyArgs
  RegistArgs <- MCRegistArgs
  RpcFees = {5000, 9000}
  RpcVotes = {v2}
  MaxPoolTxs = 2
SPECIFICATION Spec
\* Process returns: after Finalize, an error or a panic nothing follows.
CHECK_DEADLOCK FALSE
INVARIANTS
  TypeOK
  GasPoolAccounting
  FeeConservation
  TokenConservation
  TicketConservation
  RpcModifyKeepsPool
  GasUsedCoversHalfIntrinsic
PROPERTIES
  PoolClosedFinal
