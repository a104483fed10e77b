------------------------------- MODULE GasFee -------------------------------
(***************************************************************************)
(* Gas and fee accounting of block processing: StateProcessor.Process     *)
(* (core/state_processor.go) runs ApplyTransaction for each transaction   *)
(* of a block against one gas pool; ApplyMessage / TransitionDb           *)
(* (core/state_transition.go) buys gas with the fee (preCheck), pays the  *)
(* intrinsic gas, runs the EVM, and returns the gas left (refundGas).     *)
(*                                                                         *)
(* A fee is paid in DECE, or in a token that the called contract accepts *)
(* at the rate it set with StateDB.SetTokenRate (core/state/statedb.go):  *)
(* the contract then pays the gas in DECE from its own balance and takes  *)
(* the tokens.  The refund of the unused gas is an output (AddTxOut) to   *)
(* the sender, in the fee's currency.                                      *)
(*                                                                         *)
(* A contract command carries an asset (msg.Asset()) to its To.  The     *)
(* EVM moves it, and whatever the contract sends on, with Transfer        *)
(* (core/evm.go), which debits a contract's balance or ticket and credits *)
(* a contract or, for an address with no state object, adds an output.  *)
(*                                                                         *)
(* The EVM is not in src: a call is an input, the gas it leaves, its      *)
(* error, the refund counter it leaves, one transfer the contract makes   *)
(* and a RegisterToken and SetTokenRate it may make.  The zstate calls of ApplyTransaction *)
(* (AddStx, applyStake) are modelled in ZLedger.                          *)
(***************************************************************************)
EXTENDS Integers, Sequences, FiniteSets, FiniteSetsExt

CONSTANTS
  Contracts,               \* contract addresses
  Tokens,                  \* fee currencies other than DECE
  NoTo,                    \* msg.To() = nil
  Blocks,                  \* the blocks: sequences of transactions
  GasLimit,                \* block.GasLimit(), the gas pool's start
  InitObjects,             \* the addresses with a state object
  InitBalance,             \* InitBalance[c][coin]
  InitRate,                \* InitRate[c][coin]: [tokens, tas]
  InitRegistry,            \* InitRegistry[tok]: the contract that registered tok, or NoTo
  LeftHalves,              \* the EVM leaves gas * k \div 2 of the gas given, k in LeftHalves
  RefundCounters,          \* the refund counters a call may leave
  NewRates,                \* [coin, tokens, tas]: rates a contract may set during its call
  Tickets,                 \* ticket values
  InitTickets,             \* <<c, k>>: contract c owns ticket k (OwnTicket)
  NoTkt,                   \* asset.Tkt = nil
  Pkrs,                    \* addresses with no state object that receive outputs
  Sends,                   \* [to, coin, value, tkt]: transfers a contract may make
  Senders,                 \* msg.From(); a pool's id is the hash of its owner's PKr
  NoPool, NoVote,          \* BuyShare.Pool = nil, an empty Vote PKr
  InitPools,               \* InitPools[s]: the stake pool s registered before the block
  PoolValueThreshold,      \* stake.GetPoolValueThreshold()
  LockingBlockNum,         \* stake.GetLockingBlockNum()
  Number,                  \* header.Number
  CaleAvgPrice(_),         \* stakeState.CaleAvgPrice(value): [num, avg]
  SumAmount1000,           \* stakeState.SumAmount(1000)
  TxGas, TxGasContractCreation, TxDataNonZeroGas, TxDataZeroGas,
  MaxUint64,               \* math.MaxUint64 (TLC stops at 2^31 - 1)
  Accounts,                \* the senders with an account in the node's wallet
  NilArg,                  \* an RPC argument left out (nil)
  SuggestPrice,            \* b.SuggestPrice(ctx)
  DefaultGasPrice,         \* ethapi's defaultGasPrice
  StakeGas,                \* the stake RPCs' gas, 25000
  LowestFeeRate, HighestFeeRate, \* deceparam.LOWEST/HIGHEST_STAKING_NODE_FEE_RATE
  EnoughPeers,             \* Is_Dev() or PeerCount() >= 10
  BuyArgs,                 \* BuyShareTxArg: [from, vote, pool, price, value]
  RegistArgs,              \* RegistStakePoolTxArg: [from, vote, price, value, fee]
  RpcFees, RpcVotes,       \* ModifyStakePoolFee's fee, ModifyStakePoolVote's vote
  MaxPoolTxs               \* bound on the transactions the RPCs commit before a block

DECE == "DECE"
Coins == Tokens \cup {DECE}
NoRate == [tokens |-> 0, tas |-> 0]
NoSend == [to |-> NoTo, coin |-> DECE, value |-> 0, tkt |-> NoTkt]

VARIABLES
  txs,       \* block.Transactions()
  i,         \* the index of the next transaction
  gp,        \* the GasPool
  usedGas,   \* Process's usedGas
  gasReward, \* Process's gasReward
  bal,       \* bal[c][coin]: the contracts' balances
  rate,      \* rate[c][coin]: the RateToken / RateTa state of c
  registry,  \* registry[tok]: the "Token" address registered for tok, or NoTo
  objects,   \* addresses with a state object (IsContract)
  outs,      \* outs[coin]: the value AddTxOut / AddTxOutWithCheck paid out
  tkts,      \* <<c, k>> with OwnTicket(c, k): the tickets contracts hold
  tktOuts,   \* tktOuts[k]: how often ticket k was paid out as an output
  burned,    \* burned[coin]: asset value that reached no one (history)
  pools,     \* pools[s]: the stake pool of owner s, or not exists
  shares,    \* the pending shares AddPendingShare added: [id, pool, value, num]
  receipts,  \* receipts[j]: the GasUsed of transaction j's receipt
  status,    \* "rpc" (before the block), "run", "done" (Finalize reached), "err" or "panic"
  txpool     \* [rpc, tx]: the stake transactions the RPCs committed (CommitTx)

(* evm.Create's asset goes to the new contract, which is not modelled:   *)
(* the blocks' contract creations carry none.                              *)
ASSUME \A b \in Blocks : \A j \in DOMAIN b :
         b[j].to = NoTo /\ b[j].nz + b[j].z > 0 => b[j].asset.value = 0

(* The stake state's pricing, which is not in src, as applyStake relies *)
(* on it: the shares a value buys cost no more than the value, and a      *)
(* value that buys more than 1000 covers the first 1000.                  *)
ASSUME \A b \in Blocks : \A j \in DOMAIN b :
         LET r == CaleAvgPrice(b[j].cmd.value)
         IN  b[j].cmd.kind = "buy" =>
               /\ r.num * r.avg <= b[j].cmd.value
               /\ r.num > 1000 => SumAmount1000 <= b[j].cmd.value
ASSUME \A a \in BuyArgs :
         LET r == CaleAvgPrice(a.value)
         IN  r.num * r.avg <= a.value /\ (r.num > 1000 => SumAmount1000 <= a.value)

vars == <<txs, i, gp, usedGas, gasReward, bal, rate, registry, objects, outs, tkts, tktOuts,
          burned, pools, shares, receipts, status, txpool>>

-----------------------------------------------------------------------------
(* IntrinsicGas: the base cost, and a price per zero and non-zero byte   *)
(* of the data, failing where the sum would pass MaxUint64.             *)
IntrinsicGas(t, create) ==
  LET base == IF create /\ t.nz + t.z > 0 THEN TxGasContractCreation ELSE TxGas
      g1 == base + t.nz * TxDataNonZeroGas
  IN  CASE t.nz + t.z = 0                                -> [err |-> FALSE, gas |-> base]
        [] (MaxUint64 - base) \div TxDataNonZeroGas < t.nz -> [err |-> TRUE, gas |-> 0]
        [] (MaxUint64 - g1) \div TxDataZeroGas < t.z       -> [err |-> TRUE, gas |-> 0]
        [] OTHER -> [err |-> FALSE, gas |-> g1 + t.z * TxDataZeroGas]

(* StateDB.GetDeceFee: the fee in DECE at the contract's current rate.   *)
GetDeceFee(t) ==
  CASE t.coin = DECE                                   -> [err |-> FALSE, fee |-> t.value]
    [] t.to = NoTo                                     -> [err |-> TRUE, fee |-> 0]
    [] rate[t.to][t.coin].tokens = 0 \/ rate[t.to][t.coin].tas = 0
                                                       -> [err |-> TRUE, fee |-> 0]
    [] OTHER -> [err |-> FALSE, fee |-> (t.value * rate[t.to][t.coin].tas) \div rate[t.to][t.coin].tokens]

(* StateDB.GetDeceGasLimit / GetTxGasLimit: what a wallet is told the    *)
(* fee buys, a positive gas price required.                              *)
GetTxGasLimit(t) ==
  IF t.price <= 0 \/ GetDeceFee(t).err THEN [err |-> TRUE, gas |-> 0]
  ELSE [err |-> FALSE, gas |-> GetDeceFee(t).fee \div t.price]

(* Mutant: GasPool.SubGas is skipped, the pool is not checked. *)
(* StateDB.IsContract: getStateObject finds a live state object. *)
IsContract(objs, addr) == addr \in objs

(* StateDB.GetOrNewStateObject: AddBalance creates the object if absent. *)
GetOrNewStateObject(objs, addr) == objs \cup {addr}

preCheckNoPoolCheck(t) ==
  IF t.coin = DECE
  THEN IF t.price = 0 THEN [res |-> "panic"]
       ELSE [res |-> "ok", gas |-> t.value \div t.price, bal |-> bal, objects |-> objects]
  ELSE IF t.to = NoTo THEN [res |-> "panic"]
  ELSE LET r == rate[t.to][t.coin]
           taval == IF r.tokens = 0 THEN 0 ELSE (t.value * r.tas) \div r.tokens
       IN  IF r.tokens = 0 \/ r.tas = 0 \/ bal[t.to][DECE] < taval THEN [res |-> "err"]
           ELSE IF t.price = 0 THEN [res |-> "panic"]
           ELSE [res |-> "ok", gas |-> taval \div t.price, objects |-> GetOrNewStateObject(objects, t.to),
                 bal |-> [bal EXCEPT ![t.to][t.coin] = @ + t.value, ![t.to][DECE] = @ - taval]]

(* preCheck: for a token fee the contract's rate must be set and its     *)
(* DECE balance must cover the fee; it takes the tokens and pays the     *)
(* DECE.  The gas is the DECE value over the price, taken from the pool. *)
(* A token fee with no To dereferences nil, and a zero price divides by   *)
(* zero: both panic.                                                      *)
preCheck(t) ==
  IF t.coin = DECE
  THEN LET g == t.value \div t.price
       IN  IF t.price = 0 THEN [res |-> "panic"]
           ELSE IF gp < g THEN [res |-> "err"]
           ELSE [res |-> "ok", gas |-> g, bal |-> bal, objects |-> objects]
  ELSE IF t.to = NoTo THEN [res |-> "panic"]
  ELSE LET r == rate[t.to][t.coin]
           taval == IF r.tokens = 0 THEN 0 ELSE (t.value * r.tas) \div r.tokens
           g == taval \div t.price
       IN  IF r.tokens = 0 \/ r.tas = 0 \/ bal[t.to][DECE] < taval THEN [res |-> "err"]
           ELSE IF t.price = 0 THEN [res |-> "panic"]
           ELSE IF gp < g THEN [res |-> "err"]
           ELSE [res |-> "ok", gas |-> g, objects |-> GetOrNewStateObject(objects, t.to),
                 bal |-> [bal EXCEPT ![t.to][t.coin] = @ + t.value, ![t.to][DECE] = @ - taval]]

(* StateDB.setAddressByState / getAddressByState / getContrctAddress:    *)
(* the address kept under the (name, key) slots of the empty address's   *)
(* state; the registry holds only the "Token" name.                      *)
setAddressByState(reg, key, c) == [reg EXCEPT ![key] = c]
getContrctAddress(reg, key) == reg[key]
GetContrctAddressByToken(reg, coin) == getContrctAddress(reg, coin)

(* StateDB.registerAddressByState: the first contract to register a key  *)
(* keeps it; a later one is refused (false), its own repeat accepted.    *)
registerAddressByState(reg, c, key) ==
  IF getContrctAddress(reg, key) = NoTo THEN setAddressByState(reg, key, c) ELSE reg

(* StateDB.RegisterToken: registerAddressByState under "Token". *)
RegisterToken(reg, c, coin) == registerAddressByState(reg, c, coin)

(* StateDB.SetTokenRate, as a contract calls it during its call: only a  *)
(* token some contract registered (GetContrctAddressByToken not empty)   *)
(* gets a rate; which contract registered it is not asked.                *)
SetTokenRate(rt, reg, c, coin, r) ==
  IF GetContrctAddressByToken(reg, coin) # NoTo THEN [rt EXCEPT ![c][coin] = r] ELSE rt

(* StateDB.GetBalance: an address with no state object has nothing.     *)
GetBalance(w, addr, coin) == IF IsContract(w.objects, addr) THEN w.bal[addr][coin] ELSE 0

(* StateDB.AddBalance / SubBalance on a contract's balance of coin.      *)
AddBalance(b, addr, coin, v) == [b EXCEPT ![addr][coin] = @ + v]
SubBalance(b, addr, coin, v) == [b EXCEPT ![addr][coin] = @ - v]

(* StateDB.OwnTicket / AddTicket / RemoveTicket: the TrueHash flag under *)
(* (contract, category, value); RemoveTicket of a ticket the contract    *)
(* does not own changes nothing.                                          *)
OwnTicket(w, addr, k) == <<addr, k>> \in w.tkts
AddTicket(ts, addr, k) == ts \cup {<<addr, k>>}
RemoveTicket(ts, addr, k) == ts \ {<<addr, k>>}

(* Mutant: CanTransfer does not ask OwnTicket about a ticket. *)
CanTransferNoTicketCheck(w, addr, a) ==
  a.value > 0 => GetBalance(w, addr, a.coin) >= a.value

(* CanTransfer: the balance covers the token amount, and the ticket, if  *)
(* any, is owned.                                                          *)
CanTransfer(w, addr, a) ==
  /\ a.value > 0 => GetBalance(w, addr, a.coin) >= a.value
  /\ a.tkt # NoTkt => OwnTicket(w, addr, a.tkt)

(* Transfer's sender half: a contract loses a positive token amount and  *)
(* the ticket; any other sender is not touched.                           *)
Debit(w, from, a) ==
  IF ~IsContract(w.objects, from) THEN w
  ELSE [w EXCEPT !.bal = IF a.value > 0 THEN SubBalance(@, from, a.coin, a.value) ELSE @,
                 !.tkts = IF a.tkt # NoTkt THEN RemoveTicket(@, from, a.tkt) ELSE @]

(* Transfer's recipient half: a contract gains them, any other address   *)
(* gets them as an output (ZState.AddTxOutWithCheck).                    *)
Credit(w, to, a) ==
  IF IsContract(w.objects, to)
  THEN [w EXCEPT !.bal = IF a.value > 0 THEN AddBalance(@, to, a.coin, a.value) ELSE @,
                 !.tkts = IF a.tkt # NoTkt THEN AddTicket(@, to, a.tkt) ELSE @]
  ELSE [w EXCEPT !.outs = [@ EXCEPT ![a.coin] = @ + a.value],
                 !.tktOuts = IF a.tkt # NoTkt THEN [@ EXCEPT ![a.tkt] = @ + 1] ELSE @]

Transfer(w, from, to, a) == Credit(Debit(w, from, a), to, a)

(* The asset of t's contract command as Transfer sees it (no ticket).    *)
MsgAsset(t) == [coin |-> t.asset.coin, value |-> t.asset.value, tkt |-> NoTkt]

(* Mutant: a failed call does not give the message's asset back. *)
ReturnAssetNone(t, w) == w

(* A failed call, its state changes reverted by the EVM, gives the       *)
(* message's asset back to the sender as an output (AddTxOut).           *)
ReturnAsset(t, w) == [w EXCEPT !.outs = [@ EXCEPT ![t.asset.coin] = @ + t.asset.value]]

(* The EVM's outcomes: the gas it leaves, its error ("balance" is          *)
(* vm.ErrInsufficientBalance), the refund counter it leaves, a token it   *)
(* registers, a rate it sets for a token, and a transfer it makes.        *)
Calls == [left : LeftHalves, err : {"none", "revert", "balance"},
          refund : RefundCounters, register : Tokens \cup {NoTo},
          setRate : NewRates \cup {NoRate},
          send : Sends \cup {NoSend}]

(* Mutant: the refund counter is added whole, without the cap. *)
refundGasUncapped(t, g, initialGas, counter, w) ==
  LET remaining == (g + counter) * t.price
      r == w.rate[t.to][t.coin]
      rt == IF t.coin # DECE /\ r.tokens # 0 /\ r.tas # 0 THEN (remaining * r.tokens) \div r.tas ELSE 0
  IN  [w EXCEPT
         !.bal = IF remaining > 0 /\ t.coin # DECE
                 THEN [@ EXCEPT ![t.to][DECE] = @ + remaining, ![t.to][t.coin] = @ - rt] ELSE @,
         !.outs = IF remaining = 0 THEN @
                  ELSE IF t.coin # DECE THEN [@ EXCEPT ![t.coin] = @ + rt]
                  ELSE [@ EXCEPT ![DECE] = @ + remaining],
         !.gp = @ + g + counter,
         !.used = initialGas - (g + counter)]

(* Mutant: the gas goes back to the pool before the refund is added. *)
refundGasPoolFirst(t, g, initialGas, counter, w) ==
  LET refund == IF (initialGas - g) \div 2 > counter THEN counter ELSE (initialGas - g) \div 2
      remaining == (g + refund) * t.price
      r == w.rate[t.to][t.coin]
      rt == IF t.coin # DECE /\ r.tokens # 0 /\ r.tas # 0 THEN (remaining * r.tokens) \div r.tas ELSE 0
  IN  [w EXCEPT
         !.bal = IF remaining > 0 /\ t.coin # DECE
                 THEN [@ EXCEPT ![t.to][DECE] = @ + remaining, ![t.to][t.coin] = @ - rt] ELSE @,
         !.outs = IF remaining = 0 THEN @
                  ELSE IF t.coin # DECE THEN [@ EXCEPT ![t.coin] = @ + rt]
                  ELSE [@ EXCEPT ![DECE] = @ + remaining],
         !.gp = @ + g,
         !.used = initialGas - (g + refund)]

(* Mutant: the contract is not given the DECE of the unused gas back. *)
refundGasNoContractDece(t, g, initialGas, counter, w) ==
  LET refund == IF (initialGas - g) \div 2 > counter THEN counter ELSE (initialGas - g) \div 2
      remaining == (g + refund) * t.price
      r == w.rate[t.to][t.coin]
      rt == IF t.coin # DECE /\ r.tokens # 0 /\ r.tas # 0 THEN (remaining * r.tokens) \div r.tas ELSE 0
  IN  [w EXCEPT
         !.bal = IF remaining > 0 /\ t.coin # DECE THEN [@ EXCEPT ![t.to][t.coin] = @ - rt] ELSE @,
         !.outs = IF remaining = 0 THEN @
                  ELSE IF t.coin # DECE THEN [@ EXCEPT ![t.coin] = @ + rt]
                  ELSE [@ EXCEPT ![DECE] = @ + remaining],
         !.gp = @ + g + refund,
         !.used = initialGas - (g + refund)]

(* refundGas: the refund counter, capped at half the gas used, is added  *)
(* to the gas left; the rest of the fee goes back to the sender: DECE as  *)
(* an output, or, for a token fee, the DECE back to the contract and the  *)
(* tokens it is worth at the contract's rate as read now, if that rate   *)
(* is set.  The gas left returns to the pool.  w holds the state the     *)
(* transition works on; used is gasUsed().                                *)
refundGas(t, g, initialGas, counter, w) ==
  LET refund == IF (initialGas - g) \div 2 > counter THEN counter ELSE (initialGas - g) \div 2
      remaining == (g + refund) * t.price
      r == w.rate[t.to][t.coin]
      rt == IF t.coin # DECE /\ r.tokens # 0 /\ r.tas # 0 THEN (remaining * r.tokens) \div r.tas ELSE 0
  IN  [w EXCEPT
         !.bal = IF remaining > 0 /\ t.coin # DECE
                 THEN [@ EXCEPT ![t.to][DECE] = @ + remaining, ![t.to][t.coin] = @ - rt] ELSE @,
         !.outs = IF remaining = 0 THEN @
                  ELSE IF t.coin # DECE THEN [@ EXCEPT ![t.coin] = @ + rt]
                  ELSE [@ EXCEPT ![DECE] = @ + remaining],
         !.gp = @ + g + refund,
         !.used = initialGas - (g + refund)]

(* Mutant: BuyShare does not check that the pool is open. *)
BuyShareNoClosedCheck(t, id, w) ==
  LET c == t.cmd
      r == CaleAvgPrice(c.value)
      capped == r.num > 1000
      avg == IF capped THEN SumAmount1000 \div 1000 ELSE r.avg
      num == IF capped THEN 1000 ELSE r.num
      refund == c.value - avg * num
  IN  CASE c.pool # NoPool /\ ~w.pools[c.pool].exists -> [w EXCEPT !.res = "err"]
        [] r.num > 0
             -> [w EXCEPT !.outs[DECE] = IF refund > 0 THEN @ + refund ELSE @,
                          !.shares = @ \cup {[id |-> id, pool |-> c.pool, value |-> avg, num |-> num]}]
        [] OTHER -> [w EXCEPT !.outs[DECE] = @ + c.value]

(* applyStake's BuyShare: a named pool must exist and be open; the      *)
(* stake state prices the value (CaleAvgPrice).  At most 1000 shares are  *)
(* bought, at the average of the first 1000 (SumAmount(1000) / 1000);    *)
(* what the shares do not take is refunded as an output, and a value     *)
(* that buys no share is refunded whole.                                  *)
BuyShare(t, id, w) ==
  LET c == t.cmd
      r == CaleAvgPrice(c.value)
      capped == r.num > 1000
      avg == IF capped THEN SumAmount1000 \div 1000 ELSE r.avg
      num == IF capped THEN 1000 ELSE r.num
      refund == c.value - avg * num
  IN  CASE c.pool # NoPool /\ (~w.pools[c.pool].exists \/ w.pools[c.pool].closed)
             -> [w EXCEPT !.res = "err"]
        [] r.num > 0
             -> [w EXCEPT !.outs[DECE] = IF refund > 0 THEN @ + refund ELSE @,
                          !.shares = @ \cup {[id |-> id, pool |-> c.pool, value |-> avg, num |-> num]}]
        [] OTHER -> [w EXCEPT !.outs[DECE] = @ + c.value]

(* applyStake's RegistPool: the pool's id is its owner's.  An open pool  *)
(* gets the new fee and vote and the value back; a closed one is an     *)
(* error; a new pool needs exactly the threshold value and a vote.       *)
RegistPool(t, w) ==
  LET c == t.cmd
      p == w.pools[t.from]
  IN  CASE p.exists /\ p.closed -> [w EXCEPT !.res = "err"]
        [] p.exists -> [w EXCEPT !.outs[DECE] = IF c.value > 0 THEN @ + c.value ELSE @,
                                 !.pools[t.from].fee = c.fee, !.pools[t.from].vote = c.vote]
        [] c.value # PoolValueThreshold \/ c.vote = NoVote -> [w EXCEPT !.res = "err"]
        [] OTHER -> [w EXCEPT !.pools[t.from] =
                       [exists |-> TRUE, closed |-> FALSE, amount |-> c.value, fee |-> c.fee,
                        vote |-> c.vote, number |-> Number, shareNum |-> 0, wishNum |-> 0]]

(* applyStake's ClosePool: the owner's pool must exist, be past its      *)
(* locking period and be open.  It closes; with no current shares and no *)
(* wished votes its amount is paid back at once.                          *)
ClosePool(t, w) ==
  LET p == w.pools[t.from]
  IN  CASE ~p.exists \/ p.number + LockingBlockNum > Number \/ p.closed
             -> [w EXCEPT !.res = "err"]
        [] p.shareNum = 0 /\ p.wishNum = 0
             -> [w EXCEPT !.pools[t.from].closed = TRUE, !.pools[t.from].amount = 0,
                          !.outs[DECE] = @ + p.amount]
        [] OTHER -> [w EXCEPT !.pools[t.from].closed = TRUE]

(* applyStake: the stake command of transaction id, if it has one.       *)
applyStake(t, id) ==
  LET w == [res |-> "ok", pools |-> pools, shares |-> shares, outs |-> outs]
  IN  CASE t.cmd.kind = "buy"    -> BuyShare(t, id, w)
        [] t.cmd.kind = "regist" -> RegistPool(t, w)
        [] t.cmd.kind = "close"  -> ClosePool(t, w)
        [] OTHER                 -> w

(* TransitionDb: preCheck, the intrinsic gas, the EVM call when the      *)
(* message creates a contract or To has a state object, the refund.  The *)
(* call first moves the message's asset to To (the sender, msg.From(),   *)
(* is never a contract), then the contract may transfer, register a      *)
(* token and then set a rate.                                             *)
(* A failed call reverts its own changes, and the asset goes back to the *)
(* sender; vm.ErrInsufficientBalance is the one EVM error that fails the *)
(* transaction.  With no call the asset reaches no one.  res is "ok",    *)
(* "err" or "panic"; used is the gas the transaction used.               *)
TransitionDb(t, ev, o) ==
  LET pc == preCheck(t)
      create == t.to = NoTo /\ t.nz + t.z > 0
      ig == IntrinsicGas(t, create)
      w0 == [res |-> "ok", gp |-> gp - pc.gas, bal |-> pc.bal, rate |-> rate, registry |-> registry,
             objects |-> pc.objects, outs |-> o, tkts |-> tkts, tktOuts |-> tktOuts,
             burned |-> burned, used |-> 0]
      g0 == pc.gas - ig.gas
      called == create \/ (t.to # NoTo /\ IsContract(pc.objects, t.to))
      ok == called => ev.err = "none"
      g1 == IF called THEN (g0 * ev.left) \div 2 ELSE g0
      wa == Credit(w0, t.to, MsgAsset(t))
      ws == IF ev.send # NoSend /\ CanTransfer(wa, t.to, ev.send)
            THEN Transfer(wa, t.to, ev.send.to, ev.send) ELSE wa
      wr == IF ev.register # NoTo
            THEN [ws EXCEPT !.registry = RegisterToken(@, t.to, ev.register)] ELSE ws
      wc == IF ev.setRate # NoRate
            THEN [wr EXCEPT !.rate = SetTokenRate(@, wr.registry, t.to, ev.setRate.coin,
                                                 [tokens |-> ev.setRate.tokens, tas |-> ev.setRate.tas])]
            ELSE wr
      w1 == CASE create /\ ok  -> w0
              [] called /\ ok  -> wc
              [] called        -> ReturnAsset(t, w0)
              [] OTHER         -> [w0 EXCEPT !.burned[t.asset.coin] = @ + t.asset.value]
  IN  CASE pc.res # "ok"                       -> [res |-> pc.res]
        [] ig.err \/ pc.gas < ig.gas           -> [w0 EXCEPT !.res = "err"]
        [] called /\ ev.err = "balance"        -> [w0 EXCEPT !.res = "err"]
        [] OTHER -> refundGas(t, g1, pc.gas, IF called /\ ok THEN ev.refund ELSE 0, w1)

-----------------------------------------------------------------------------
(* The stake RPC (internal/ethapi/api_stake.go).  Each call checks its   *)
(* arguments and the stake state of the head block (StateAndHeaderByNumber *)
(* -1), builds a stake transaction and commits it to the pool (CommitTx). *)
(* An owner's pool id is the hash of its stake PKr (getStakePoolPkr,      *)
(* getStakePoolId), which is also the transaction's From and RefundTo:     *)
(* an owner s stands for all three.  A call that fails changes nothing;   *)
(* so does a GenTxWithSign or CommitTx error (ClearTxParam).               *)

(* The transaction of toPreTxParam: a DECE fee of gas * price, no To.    *)
RpcStakeTx(from, cmd, gas, price) ==
  [from |-> from, to |-> NoTo, nz |-> 0, z |-> 0, price |-> price, coin |-> DECE,
   value |-> gas * price, asset |-> [coin |-> DECE, value |-> 0], cmd |-> cmd]

(* setDefaults' gas price: b.SuggestPrice() when none is given.           *)
RpcGasPrice(a) == IF a.price = NilArg THEN SuggestPrice ELSE a.price

(* BuyShareTxArg.setDefaults: a vote is required; a named pool must exist *)
(* and be open in the head state; a given gas price must not be zero.     *)
BuyShareSetDefaults(head, a) ==
  CASE a.vote = NilArg                             -> "vote address cannot be nil"
    [] a.pool # NilArg /\ ~head[a.pool].exists     -> "stake pool not exists"
    [] a.pool # NilArg /\ head[a.pool].closed      -> "stake pool has closed"
    [] a.price = 0                                 -> "gasPrice can not be zero"
    [] OTHER                                       -> "ok"

(* BuyShareTxArg.toPreTxParam: a BuyShare command with the value, vote   *)
(* and pool.                                                              *)
BuyShareToPreTx(a) ==
  RpcStakeTx(a.from, [kind |-> "buy", pool |-> IF a.pool = NilArg THEN NoPool ELSE a.pool,
                      value |-> a.value, fee |-> 0, vote |-> a.vote],
             StakeGas, RpcGasPrice(a))

(* PublicStakeApI.BuyShare: setDefaults, then the sender's account.       *)
RpcBuyShare(head, a) ==
  CASE BuyShareSetDefaults(head, a) # "ok" -> [err |-> BuyShareSetDefaults(head, a)]
    [] a.from \notin Accounts              -> [err |-> "unknown account"]
    [] OTHER                               -> [err |-> "ok", tx |-> BuyShareToPreTx(a)]

(* RegistStakePoolTxArg.setDefaults: a vote and a fee are required, a    *)
(* given gas price is not zero and the fee lies in the staking fee       *)
(* bounds.  The value is not checked.                                    *)
RegistSetDefaults(a) ==
  CASE a.vote = NilArg                   -> "vote address cannot be nil"
    [] a.fee = NilArg                    -> "pool fee cannot be nil"
    [] a.price = 0                       -> "gasPrice can not be zero"
    [] a.fee < LowestFeeRate             -> "fee rate can not less then"
    [] a.fee > HighestFeeRate            -> "fee rate can not large then"
    [] OTHER                             -> "ok"

(* RegistStakePoolTxArg.toPreTxParam: a RegistPool command.               *)
RegistToPreTx(a) ==
  RpcStakeTx(a.from, [kind |-> "regist", pool |-> NoPool, value |-> a.value, fee |-> a.fee,
                      vote |-> a.vote],
             StakeGas, RpcGasPrice(a))

(* PublicStakeApI.RegistStakePool: enough peers, setDefaults, the account, *)
(* and no pool of the owner in the head state.                            *)
RpcRegistStakePool(head, a) ==
  CASE ~EnoughPeers                  -> [err |-> "connected peer < 10"]
    [] RegistSetDefaults(a) # "ok"   -> [err |-> RegistSetDefaults(a)]
    [] a.from \notin Accounts        -> [err |-> "unknown account"]
    [] head[a.from].exists           -> [err |-> "stake pool has exists"]
    [] OTHER                         -> [err |-> "ok", tx |-> RegistToPreTx(a)]

(* The owner checks of CloseStakePool and ModifyStakePoolFee/Vote: the   *)
(* account, then the owner's pool in the head state, which must be open. *)
RpcOwnerPool(head, from) ==
  CASE from \notin Accounts     -> "unknown account"
    [] ~head[from].exists       -> "stake pool not exists"
    [] head[from].closed        -> "stake pool has closed"
    [] OTHER                    -> "ok"

(* PublicStakeApI.CloseStakePool: a ClosePool command at the default gas *)
(* price; the locking period is not checked.                              *)
RpcCloseStakePool(head, from) ==
  IF RpcOwnerPool(head, from) # "ok" THEN [err |-> RpcOwnerPool(head, from)]
  ELSE [err |-> "ok",
        tx |-> RpcStakeTx(from, [kind |-> "close", pool |-> NoPool, value |-> 0, fee |-> 0,
                                 vote |-> NoVote], StakeGas, DefaultGasPrice)]

(* Mutant: ModifyStakePoolFee leaves the command's vote empty. *)
RpcModifyStakePoolFeeNoVote(head, from, fee) ==
  CASE fee < LowestFeeRate \/ fee > HighestFeeRate -> [err |-> "fee rate out of bounds"]
    [] RpcOwnerPool(head, from) # "ok"             -> [err |-> RpcOwnerPool(head, from)]
    [] OTHER -> [err |-> "ok",
                 tx |-> RpcStakeTx(from, [kind |-> "regist", pool |-> NoPool, value |-> 0,
                                          fee |-> fee, vote |-> NoVote],
                                   StakeGas, DefaultGasPrice)]

(* PublicStakeApI.ModifyStakePoolFee: the fee in bounds, then a           *)
(* RegistPool command of value 0 with the new fee and the vote the pool  *)
(* has in the head state.                                                 *)
RpcModifyStakePoolFee(head, from, fee) ==
  CASE fee < LowestFeeRate \/ fee > HighestFeeRate -> [err |-> "fee rate out of bounds"]
    [] RpcOwnerPool(head, from) # "ok"             -> [err |-> RpcOwnerPool(head, from)]
    [] OTHER -> [err |-> "ok",
                 tx |-> RpcStakeTx(from, [kind |-> "regist", pool |-> NoPool, value |-> 0,
                                          fee |-> fee, vote |-> head[from].vote],
                                   StakeGas, DefaultGasPrice)]

(* PublicStakeApI.ModifyStakePoolVote: a RegistPool command of value 0   *)
(* with the new vote and the fee the pool has in the head state.         *)
RpcModifyStakePoolVote(head, from, vote) ==
  IF RpcOwnerPool(head, from) # "ok" THEN [err |-> RpcOwnerPool(head, from)]
  ELSE [err |-> "ok",
        tx |-> RpcStakeTx(from, [kind |-> "regist", pool |-> NoPool, value |-> 0,
                                 fee |-> head[from].fee, vote |-> vote],
                          StakeGas, DefaultGasPrice)]

(* An RPC call before the block, against the head's stake state: its    *)
(* transaction, if it builds one, joins the pool.                         *)
CommitTx(kind, r) ==
  /\ status = "rpc"
  /\ r.err = "ok" /\ Cardinality(txpool) < MaxPoolTxs
  /\ txpool' = txpool \cup {[rpc |-> kind, tx |-> r.tx]}
  /\ UNCHANGED <<txs, i, gp, usedGas, gasReward, bal, rate, registry, objects, outs, tkts,
                 tktOuts, burned, pools, shares, receipts, status>>

ApiBuyShare(a)                 == CommitTx("buy", RpcBuyShare(pools, a))
ApiRegistStakePool(a)          == CommitTx("regist", RpcRegistStakePool(pools, a))
ApiCloseStakePool(s)           == CommitTx("close", RpcCloseStakePool(pools, s))
ApiModifyStakePoolFee(s, fee)  == CommitTx("fee", RpcModifyStakePoolFee(pools, s, fee))
ApiModifyStakePoolVote(s, v)   == CommitTx("vote", RpcModifyStakePoolVote(pools, s, v))

(* The blocks a miner can make of the pool: up to two of its             *)
(* transactions, in either order.                                         *)
PoolBlocks == {<<e.tx>> : e \in txpool} \cup {<<e.tx, f.tx>> : e, f \in txpool}

(* A block is mined: the clients' blocks or one of the pool; the model   *)
(* follows this one block, so the pool is left behind.                    *)
Mine ==
  /\ status = "rpc"
  /\ \E b \in Blocks \cup PoolBlocks : txs' = b
  /\ status' = "run" /\ txpool' = {}
  /\ UNCHANGED <<i, gp, usedGas, gasReward, bal, rate, registry, objects, outs, tkts,
                 tktOuts, burned, pools, shares, receipts>>

-----------------------------------------------------------------------------
Init ==
  /\ txs = << >>
  /\ i = 1
  /\ gp = GasLimit
  /\ usedGas = 0
  /\ gasReward = 0
  /\ bal = InitBalance
  /\ rate = InitRate
  /\ registry = InitRegistry
  /\ objects = InitObjects
  /\ outs = [c \in Coins |-> 0]
  /\ tkts = InitTickets
  /\ tktOuts = [k \in Tickets |-> 0]
  /\ burned = [c \in Coins |-> 0]
  /\ pools = InitPools
  /\ shares = {}
  /\ receipts = << >>
  /\ status = "rpc"
  /\ txpool = {}

(* ApplyTransaction for the next transaction: applyStake, then the       *)
(* message.  An error of either ends Process with the error (the block   *)
(* is rejected and its state dropped); otherwise usedGas, the receipt    *)
(* and gasReward grow by the gas used.                                    *)
ApplyTransaction(ev) ==
  /\ status = "run" /\ i <= Len(txs)
  /\ LET t == txs[i]
         sk == applyStake(t, i)
         w == TransitionDb(t, ev, sk.outs)
     IN  IF sk.res = "ok" /\ w.res = "ok"
         THEN /\ gp' = w.gp /\ bal' = w.bal /\ rate' = w.rate /\ registry' = w.registry
              /\ objects' = w.objects
              /\ outs' = w.outs /\ tkts' = w.tkts /\ tktOuts' = w.tktOuts /\ burned' = w.burned
              /\ pools' = sk.pools /\ shares' = sk.shares
              /\ usedGas' = usedGas + w.used
              /\ gasReward' = gasReward + w.used * t.price
              /\ receipts' = Append(receipts, w.used)
              /\ i' = i + 1
              /\ UNCHANGED <<txs, status, txpool>>
         ELSE /\ status' = IF sk.res = "ok" THEN w.res ELSE sk.res
              /\ UNCHANGED <<txs, i, gp, usedGas, gasReward, bal, rate, registry, objects, outs, tkts,
                             tktOuts, burned, pools, shares, receipts, txpool>>

(* Every transaction applied: Finalize gets gasReward (its outputs are   *)
(* ZLedger's CommitBlock).                                               *)
Finalize ==
  /\ status = "run" /\ i > Len(txs)
  /\ status' = "done"
  /\ UNCHANGED <<txs, i, gp, usedGas, gasReward, bal, rate, registry, objects, outs, tkts,
                 tktOuts, burned, pools, shares, receipts, txpool>>

(* A message with no To and no data starts no EVM call: its outcome is  *)
(* not read, and one stands for all.                                       *)
CallsFor(t) == IF t.to = NoTo /\ t.nz + t.z = 0 THEN {CHOOSE ev \in Calls : TRUE} ELSE Calls

Next ==
  \/ \E a \in BuyArgs : ApiBuyShare(a)
  \/ \E a \in RegistArgs : ApiRegistStakePool(a)
  \/ \E s \in Senders : ApiCloseStakePool(s)
  \/ \E s \in Senders, fee \in RpcFees : ApiModifyStakePoolFee(s, fee)
  \/ \E s \in Senders, v \in RpcVotes : ApiModifyStakePoolVote(s, v)
  \/ Mine
  \/ i <= Len(txs) /\ \E ev \in CallsFor(txs[i]) : ApplyTransaction(ev)
  \/ Finalize

Spec == Init /\ [][Next]_vars

-----------------------------------------------------------------------------
TypeOK ==
  /\ status \in {"rpc", "run", "done", "err", "panic"}
  /\ Cardinality(txpool) <= MaxPoolTxs
  /\ i \in 1 .. Len(txs) + 1
  /\ gp \in 0 .. GasLimit
  /\ \A j \in DOMAIN receipts : receipts[j] \in Nat
  /\ \A c \in Coins : outs[c] \in Nat /\ burned[c] \in Nat
  /\ tkts \subseteq Contracts \X Tickets
  /\ tktOuts \in [Tickets -> Nat]
  /\ registry \in [Tokens -> Contracts \cup {NoTo}]
  /\ \A x \in shares : x.num \in 1 .. 1000

(* The gas pool and the block's gas add up after every transaction:      *)
(* preCheck takes the bought gas from the pool and refundGas gives back   *)
(* the gas left with the refund, so the pool holds the limit less what   *)
(* the receipts say was used, and never more than the limit.             *)
GasPoolAccounting ==
  status \in {"run", "done"} =>
    gp + usedGas = GasLimit

(* A closed stake pool is final: applyStake rejects every stake command  *)
(* on it (a BuyShare naming it, its owner's RegistPool and ClosePool), so *)
(* it keeps its state, and no pending share joins it after it closed.    *)
PoolClosedFinal ==
  [][\A s \in Senders :
       pools[s].exists /\ pools[s].closed =>
         /\ pools'[s] = pools[s]
         /\ \A x \in shares' \ shares : x.pool # s]_vars

(* The pool modifications the RPC builds do what they are named for:    *)
(* applied by applyStake to the head state they were checked against,   *)
(* ModifyStakePoolFee's command changes only the pool's fee and          *)
(* ModifyStakePoolVote's only its vote, neither is refused, and neither  *)
(* pays anything out, although both are a RegistPool that overwrites fee *)
(* and vote together and refunds its value.                               *)
RpcModifyKeepsPool ==
  status = "rpc" =>
    \A e \in txpool : e.rpc \in {"fee", "vote"} =>
      LET s == e.tx.from
          w == RegistPool(e.tx, [res |-> "ok", pools |-> pools, shares |-> shares, outs |-> outs])
      IN  /\ w.res = "ok" /\ w.outs = outs
          /\ w.pools[s] = [pools[s] EXCEPT !.fee = IF e.rpc = "fee" THEN e.tx.cmd.fee ELSE @,
                                           !.vote = IF e.rpc = "vote" THEN e.tx.cmd.vote ELSE @]

(* No applied transaction is charged less than half its intrinsic gas: *)
(* whatever refund counter the EVM leaves (SSTORE clears leave 15000),   *)
(* refundGas caps the refund at half the gas used, and the gas used      *)
(* includes the intrinsic gas TransitionDb took before the call.  The     *)
(* receipt of transaction j, the gas Process adds to usedGas and the     *)
(* miner's gasReward, is checked against j's own intrinsic gas.          *)
GasUsedCoversHalfIntrinsic ==
  \A j \in DOMAIN receipts :
    LET t == txs[j]
    IN  2 * receipts[j] >= IntrinsicGas(t, t.to = NoTo /\ t.nz + t.z > 0).gas

(* What the applied transactions paid into the system in coin: the fee  *)
(* (a token fee goes to the contract), the asset of a contract command   *)
(* and the DECE of a stake command.                                       *)
PaidIn(coin) ==
  MapThenSumSet(LAMBDA j : (IF txs[j].coin = coin THEN txs[j].value ELSE 0)
                           + (IF txs[j].asset.coin = coin THEN txs[j].asset.value ELSE 0)
                           + (IF coin = DECE THEN txs[j].cmd.value ELSE 0),
                1 .. i - 1)

(* The DECE the stake state holds: the pools' amounts and the pending    *)
(* shares' value.                                                          *)
Staked(ps, sh) ==
  MapThenSumSet(LAMBDA s : ps[s].amount, Senders) + MapThenSumSet(LAMBDA x : x.value * x.num, sh)

(* Where coin is now: the contracts' balances, the outputs paid, the     *)
(* assets no call received, and for DECE the stake state.                *)
Held(coin) ==
  MapThenSumSet(LAMBDA c : bal[c][coin], Contracts) + outs[coin] + burned[coin]
  + (IF coin = DECE THEN Staked(pools, shares) ELSE 0)

Initial(coin) ==
  MapThenSumSet(LAMBDA c : InitBalance[c][coin], Contracts)
  + (IF coin = DECE THEN Staked(InitPools, {}) ELSE 0)

(* DECE is neither made nor lost beyond rounding: what the contracts and *)
(* the stake pools held and the transactions paid in (fees, assets and   *)
(* stake values) is what they hold, what the pending shares are worth,   *)
(* what was paid out (refunds, returned assets and stake values,         *)
(* transfers) and the miner's gasReward,                                  *)
(* less at most one gas price less one per transaction, lost to the      *)
(* division of the fee by the price in preCheck.                         *)
FeeConservation ==
  status \in {"run", "done"} =>
    LET lost == Initial(DECE) + PaidIn(DECE) - Held(DECE) - gasReward
    IN  0 <= lost /\ lost <= MapThenSumSet(LAMBDA j : txs[j].price - 1, 1 .. i - 1)

(* Tokens are conserved exactly: token fees that preCheck credits to the *)
(* contract, token refunds that refundGas takes back from it, assets    *)
(* that calls receive, send on (Transfer) or give back on failure: the    *)
(* contracts' balances and the outputs account for every token.          *)
TokenConservation ==
  status \in {"run", "done"} =>
    \A coin \in Tokens : Held(coin) = Initial(coin) + PaidIn(coin)

(* A ticket is in exactly one place: held by one contract (OwnTicket) or *)
(* paid out once, however contracts pass it on with Transfer.            *)
TicketConservation ==
  \A k \in Tickets :
    Cardinality({c \in Contracts : <<c, k>> \in tkts}) + tktOuts[k] = 1

(* A contract's balance never goes below zero.  CanTransfer guards every *)
(* transfer out of a contract and preCheck checks the DECE it pays for a *)
(* token fee; refundGas then takes the token refund of the unused gas   *)
(* from the contract with SubBalance, unchecked, at the rate it reads    *)
(* after the call ("exchanged at the original rate", its comment says),  *)
(* from whatever the call left of the fee tokens.                        *)
ContractBalanceNonNegative ==
  \A c \in Contracts, coin \in Coins : bal[c][coin] >= 0
====
