----------------------------- MODULE MC_GasFee -----------------------------
(* Blocks of up to two transactions.  Contract c1 accepts the           *)
(* token T at 3 DECE a token: a DECE fee, a T fee, a contract creation,  *)
(* a fee below the intrinsic gas, a T fee with no To, and a DECE fee to  *)
(* c2, an address with no state object, so not called.  Two creations  *)
(* overrun the pool.  The call to c1 carries 3 T, the one to c2 7 DECE. *)
(* c1 holds ticket k1; during a call it may send 5000 T, 10000 DECE or   *)
(* k1 to the address p1, which has no state object.  The gas constants  *)
(* are go-ethereum's params.  Stake commands: u1 owns an open pool old   *)
(* enough to close, u3 a closed pool with shares, u4 an open one with    *)
(* shares; u2 buys shares (none for 2, with no pool, into u1's pool with *)
(* the 1000 cap, into u3's), registers a pool (or fails to, one short of *)
(* the threshold) and closes it; u1 and u3 register again; u1 and u4    *)
(* close their pools.  c1 may register the token U and set a rate for T *)
(* or U during a call; a U fee to c1 needs that rate.                     *)
(* The stake RPC runs before the block against the same stake state:    *)
(* BuyShare with its defaults (no vote, a pool of u1 or of u3, no pool,  *)
(* price 0), RegistStakePool (fee 5000, value 0, fee below the lowest,  *)
(* u1's existing pool), Close and Modify by every sender, fees 5000 and *)
(* 9000 (above the highest), vote v2; the pool holds two transactions.  *)
EXTENDS GasFee

CONSTANTS c1, c2, none, k1, notkt, p1, u1, u2, u3, u4, nopool, novote, v1, v2, nil

Asset(coin, value) == [coin |-> coin, value |-> value]

Cmd(kind, pool, value, fee, vote) ==
  [kind |-> kind, pool |-> pool, value |-> value, fee |-> fee, vote |-> vote]
NoCmd == Cmd("none", nopool, 0, 0, novote)

Tx(to, nz, z, price, coin, value, asset) ==
  [from |-> u1, to |-> to, nz |-> nz, z |-> z, price |-> price, coin |-> coin,
   value |-> value, asset |-> asset, cmd |-> NoCmd]

StakeTx(from, cmd) == [Tx(none, 0, 0, 1, "DECE", 21000, Asset("DECE", 0)) EXCEPT
                         !.from = from, !.cmd = cmd]

TxDece   == Tx(c1, 1, 1, 2, "DECE", 60001, Asset("T", 3))
TxToken  == Tx(c1, 0, 0, 1, "T", 10000, Asset("DECE", 0))
TxCreate == Tx(none, 2, 0, 1, "DECE", 60000, Asset("DECE", 0))
TxLow    == Tx(c1, 0, 0, 1, "DECE", 20000, Asset("DECE", 0))
TxNoTo   == Tx(none, 0, 0, 1, "T", 10000, Asset("DECE", 0))
TxTokenU == Tx(c1, 0, 0, 1, "U", 10000, Asset("DECE", 0))
TxPlain  == Tx(c2, 0, 0, 1, "DECE", 25000, Asset("DECE", 7))

TxBuy       == StakeTx(u2, Cmd("buy", nopool, 50, 0, novote))
TxBuyBig    == StakeTx(u2, Cmd("buy", u1, 5000, 0, novote))
TxBuyNone   == StakeTx(u2, Cmd("buy", nopool, 2, 0, novote))
TxBuyClosed == StakeTx(u2, Cmd("buy", u3, 50, 0, novote))
TxRegNew    == StakeTx(u2, Cmd("regist", nopool, 100, 5000, v1))
TxRegBad    == StakeTx(u2, Cmd("regist", nopool, 99, 5000, v1))
TxRegAgain  == StakeTx(u1, Cmd("regist", nopool, 5, 7000, v1))
TxRegClosed == StakeTx(u3, Cmd("regist", nopool, 100, 5000, v1))
TxClose     == StakeTx(u1, Cmd("close", nopool, 0, 0, novote))
TxCloseNew  == StakeTx(u2, Cmd("close", nopool, 0, 0, novote))
TxCloseHeld == StakeTx(u4, Cmd("close", nopool, 0, 0, novote))

MCTxs == {TxDece, TxToken, TxTokenU, TxCreate, TxLow, TxNoTo, TxPlain,
          TxBuy, TxBuyNone, TxBuyBig, TxBuyClosed, TxRegNew, TxRegBad, TxRegAgain,
          TxRegClosed, TxClose, TxCloseNew, TxCloseHeld}
MCBlocks == {<< >>} \cup {<<t>> : t \in MCTxs} \cup {<<t, u>> : t, u \in MCTxs}

MCBalance == [c \in {c1, c2} |-> [coin \in {"DECE", "T", "U"} |->
               IF coin = "DECE" /\ c = c1 THEN 40000 ELSE 0]]
MCRate == [c \in {c1, c2} |-> [coin \in {"DECE", "T", "U"} |->
             IF coin = "T" /\ c = c1 THEN [tokens |-> 1, tas |-> 3] ELSE NoRate]]
Pool(closed, amount, shareNum) ==
  [exists |-> TRUE, closed |-> closed, amount |-> amount, fee |-> 5000, vote |-> v1,
   number |-> 0, shareNum |-> shareNum, wishNum |-> 0]
NoPoolRec == [Pool(FALSE, 0, 0) EXCEPT !.exists = FALSE, !.fee = 0, !.vote = novote]
MCPools == [s \in {u1, u2, u3, u4} |->
              CASE s = u1 -> Pool(FALSE, 100, 0)
                [] s = u3 -> Pool(TRUE, 100, 2)
                [] s = u4 -> Pool(FALSE, 100, 1)
                [] OTHER  -> NoPoolRec]

(* 3 DECE a share; a value of 5000 or more buys 2000 shares, the first   *)
(* 1000 of them 2007 in all.                                              *)
MCCaleAvgPrice(v) ==
  IF v >= 5000 THEN [num |-> 2000, avg |-> 2] ELSE [num |-> v \div 3, avg |-> 3]

(* c2, not called in the blocks, registered T; U is not registered, so  *)
(* c1 may register it in a call and then set a rate for it.             *)
MCRegistry == [tok \in {"T", "U"} |-> IF tok = "T" THEN c2 ELSE none]

MCTickets == {<<c1, k1>>}
MCNewRates == {[coin |-> "T", tokens |-> 1, tas |-> 1], [coin |-> "U", tokens |-> 1, tas |-> 1]}
MCSends == {[to |-> p1, coin |-> "T", value |-> 5000, tkt |-> notkt],
            [to |-> p1, coin |-> "DECE", value |-> 10000, tkt |-> notkt],
            [to |-> p1, coin |-> "DECE", value |-> 0, tkt |-> k1]}

(* The RPC calls: u2 buys shares with no pool, in u1's open pool and in  *)
(* u3's closed one, with no vote, at a zero price; u2 registers a pool   *)
(* with the threshold value or with none (the default 0), with a fee    *)
(* below the bounds; u1, who has a pool, registers again.  u4's account  *)
(* is not in the wallet.                                                   *)
BuyArg(from, vote, pool, price, value) ==
  [from |-> from, vote |-> vote, pool |-> pool, price |-> price, value |-> value]
MCBuyArgs == {BuyArg(u2, v1, nil, nil, 50), BuyArg(u2, v1, u1, nil, 50), BuyArg(u2, v1, u3, nil, 50),
              BuyArg(u2, nil, nil, nil, 50), BuyArg(u2, v1, nil, 0, 50)}
RegistArg(from, vote, price, value, fee) ==
  [from |-> from, vote |-> vote, price |-> price, value |-> value, fee |-> fee]
MCRegistArgs == {RegistArg(u2, v1, nil, 100, 5000), RegistArg(u2, v1, nil, 0, 5000),
                 RegistArg(u2, v1, nil, 100, 2000), RegistArg(u1, v1, nil, 100, 5000)}
====
