# TLA+ models of the go-dece shielded ledger

This directory holds TLA+ models of go-dece. go-dece is an account-based chain with a second,
shielded ledger. The shielded ledger has three parts:

- a commitment tree of outputs;
- a nullifier ("nil") set;
- packages.

The models cover how the block processor drives that ledger through snapshot and revert. Each
module is translated from the Go source under `src/`. `PROJECT.json` maps every definition to the
lines it models.

## 1. Survey

### Components, their state and their operations

| Component | Source | State | Operations that change state |
|---|---|---|---|
| Output store and journal (txstate) | `zero/txs/zstate/txstate/state.go`, `data/iface.go`, `merkle.go` | `logs` (the undo journal), `revisions` `[(id, journalIndex)]`, `data` (dirty nils, outputs, contract-out counts), and the Czero and Szk merkle trees, which live in the trie | `AddStx`/`addTx1`, `insertOS`/`addOut_C`/`addOut_P`, `AddTxOut_Log`, `Snapshot`, `Revert`, `Update` (SaveState) |
| Package store (pkgstate) | `zero/txs/zstate/pkgstate/state.go` | package data (id → ZPkg{owner PKr, Closed}), and `snapshots` (full copies) | `Force_add`, `Force_del`, `Force_transfer`, `Snapshot`, `Revert`, `Update`; wallet side: `Close`, `Transfer` |
| ZState | `zero/txs/zstate/zstate.go` | one txstate and one pkgstate | `AddStx` (txstate first, then the package op), `AddTxOut`, `AddTxOutWithCheck`, `Snapshot`, `Revert`, `Update` |
| Account-state journal (StateDB) | `core/state/statedb.go` | `validRevisions`, `nextRevisionId`, the journal of trie objects (which holds the merkle trees) | `Snapshot`, `RevertToSnapshot`, `IntermediateRoot` → `Finalise` → `clearJournalAndRefund`, `Commit` |
| Block processor | `core/state_processor.go`, `state_transition.go`, `evm.go` | none of its own | `Process`, `ApplyTransaction` (AddStx, then applyStake, then ApplyMessage, then IntermediateRoot), refunds and transfers through `AddTxOut*` |
| Ethash engine | `consensus/ethash/consensus.go` | `VerifyHeaders`' channels, `errors` and `checked` | `VerifyHeaders` (goroutines and abort), `verifyHeader`, `CalcDifficulty`, `VerifySeal`, `Prepare`; `Finalize`: a community reward through `AddTxOut`, then `IntermediateRoot` |
| Transaction builder | `zero/txtool/generate/generate_1/sign.go` | `sign_ctx` (the tx under construction, the balance descriptor, ck) | check, prepare, genFrom, genFee, genCmd, genIns, genOuts, genSign (signPkg, signBalance) |
| Transaction verifier | `zero/txtool/verify/verify_1/*` | the verify context and the proof worker pools | verify(): fee, from, pkg, cmd, ins, outs, balance, then wait for the proofs |
| Wallet exchange, stake service, light wallet | `zero/wallet/*` | UTXO indexes, used/locked flags, fetch cursors | fetch loops, generation, lock and unlock |
| Voter priority queue | `voter/utils.go` | `itemslice` (items, `itemsMap`, each item's `Index`), `maxSize`, a mutex | `PushItem`, `PopItem`, `Pop`, `Init` |
| Stake RPC | `internal/ethapi/api_stake.go` | none of its own; it reads the head's stake state | `BuyShare`, `RegistStakePool`, `CloseStakePool`, `ModifyStakePoolFee`, `ModifyStakePoolVote` |
| Pending votes, keystore cache, other RPC, types, crypto | various | see `PROJECT.json` | mostly I/O or data types |

### How they interact, and what is hard

`Process` applies the transactions of a block one at a time. For each transaction:

1. `ApplyTransaction` calls `ZState.AddStx`.
2. If `AddStx` fails, `ApplyTransaction` returns at once and the whole block is rejected.
3. Otherwise stake commands and the EVM run. They call `AddTxOut` for refunds, and `Transfer` calls `AddTxOutWithCheck`.
4. Finally `IntermediateRoot` saves the zstate into the trie and clears StateDB's journal and revisions.

At the end of the block, `Finalize` pays a reward through `AddTxOut`.

`StateDB.Snapshot` and `RevertToSnapshot` also snapshot and revert the zstate. Rollback is therefore spread over three places:

- the StateDB journal rolls back the trie, and with it the merkle tree;
- the txstate journal is rolled back by truncation and replay;
- the pkgstate data is rolled back from a stack of copies.

`IntermediateRoot` clears only StateDB's list of revisions. The zstate keeps its revisions and its journal for the whole block.

The behaviours that are hard to test are these:

- a transaction that fails half-way through its inputs, or on its package op after its outputs were added;
- a revert after an `IntermediateRoot`;
- the tree index taken from the tree size while the tree is restored by a different journal;
- double spends across blocks, and within one block through the two input kinds;
- package sequences signed by owners who have changed since.

### Properties that make the ledger correct

- **NoDoubleSpend**: a nil (or a root spent by an In_P) is used at most once, ever.
- **TreeMatchesOutputs**: the tree is the committed tree followed by exactly the outputs in the journal, and each output's index is its leaf position.
- **RevertRestoresSnapshot**: the spec calls `Revert(id)` a perfect inverse of everything done since `Snapshot(id)`.
- **NoRevertPanic**: a revert of an id that StateDB still holds never reaches the zstate's "cannot be reverted" panic.
- **PackageTransitionsAuthorized**: only the current owner may close or transfer a package, a package is created only once, and a closed package never changes again.

## 2. Plan

| Order | Module | Models | Composes | Status |
|---|---|---|---|---|
| 1 | `ZLedger` (+ `MC_ZLedger`) | txstate, pkgstate, ZState, the StateDB snapshot path, the block processor, block reward | — | done |
| 2 | `TxBuilder` (+ `MC_TxBuilder`) | the sign.go pipeline; CKState from the spec (its code is not in src) | — | done |
| 3 | `TxVerifier` (+ `MC_TxVerifier`) | `VerifyWithoutState`: the cheap checks in their order, and the proof pools (utils.Procs from the spec) | — | done |
| 4 | `BuildVerifyApply` | builder → verifier → ZLedger.ApplyTransaction | 1–3 | planned: what the builder makes, the verifier accepts, and the ledger applies |
| 5 | `AbstractLedger` | an abstract ledger: a set of spent hashes, the sequence of tree leaves, packages, remembered snapshots | — | done: `ZLedger` refines it (`LedgerRefined` in the `ledger` run) |
| 6 | `WalletExchange` (+ `MC_WalletExchange`) | UTXO indexing, used flags, the fetch job, wallet events, the merge job, the balance cache | — | done |
| 7 | `StakeIndex` (+ `MC_StakeIndex`) | the stake service's index job (`stakeIndex`), wallet events, the cron guard | — | done |
| 8 | `LightNode` (+ `MC_LightNode`) | the light wallet's fetch job, `getLastNumber` from RPC calls, restarts, the index reads | — | done |
| 9 | `HeaderVerifier` (+ `MC_HeaderVerifier`), `EthashRules`, `HeaderBatch` | `Ethash.VerifyHeaders`: the hand-out goroutine, the verifier workers, in-order forwarding, abort; the header rules and difficulty adjustment; the abstract batch specification it refines | `EthashRules` | done |
| 10 | `GasFee` (+ `MC_GasFee`) | gas and fee accounting of `Process`, `ApplyTransaction`, `TransitionDb`, token fees, rates and the token registry, `applyStake` | — | done |
| 11 | `VoterHeap` (+ `MC_VoterHeap`), `VoterQueue` | `voter.PriorityQueue`: the heap of items with their indices and key map; the bounded max-queue it refines | `VoterQueue` | done |
| 12 | pending votes, keystore cache | — | — | not modelled (see section 12) |

## 3. Module `ZLedger`

### Variables and the code they correspond to

| Variable | Code |
|---|---|
| `logs`, `revisions`, `data` | `txstate.State.logs`, `revisions`, `data` |
| `saved` | the nils that `Update`/SaveState wrote to the trie |
| `tree` | `SzkTree` |
| `pkgs`, `pkgSnaps` | pkgstate data and `snapshots` |
| `validRevs`, `nextRevId` | StateDB `validRevisions` (with the tree as the trie held it) and `nextRevisionId` |
| `phase` | where `Process` is |
| `committed` | the last committed block |
| `snapAt`, `lastOp` | history variables for the action properties |

### Actions

- `ApplyTransaction(t)` is `ApplyTransaction` up to `AddStx`. It models the whole of `ZState.AddStx`: `addTx1`'s inputs, then its outputs, then the package op. An error keeps the partial effects and moves to `failed`.
- `AddTxOut` and `AddTxOutWithCheck` are the refund, stake and EVM-transfer calls made while a transaction executes.
- `ExecFail` is the error return of `applyStake` or `ApplyMessage`.
- `IntermediateRoot` is the end of `ApplyTransaction`.
- `Snapshot` and `RevertToSnapshot(id)` are the StateDB calls, including their zstate parts. The `panic` branch of the zstate revert sets `phase = "panic"`.
  Their zstate parts are the helpers `ZSnapshot` (txstate's `TxSnapshot` and pkgstate's `PkgSnapshot`) and `ZRevert` (txstate's truncation and replay, then `PkgRevert`). `IntermediateRoot` saves through `ZUpdate`/`TxUpdate`.
- `CommitBlock` is `Finalize`, which adds the community reward `AddTxOut`, followed by the start of the next block.
- `AbortBlock` is `Process` returning an error: the block's state is discarded.

### Abstractions

- Signatures are ideal: `VerifyPKr_X` holds if and only if the signer is the package's owner.
- Hashes, keys, leaves and packages are model values.
- `data_v1` and the merkle tree are not in `src`. They are modelled from the spec as sets and a sequence.
- A transaction carries at most one package op. The verifier makes package commands exclusive.

### Runs

| Run | Config | Checks | Result |
|---|---|---|---|
| `ledger` | `MC_ZLedger.cfg` | TypeOK, NoRevertPanic, NoDoubleSpend, TreeMatchesOutputs, RevertRestoresSnapshot, PackageTransitionsAuthorized, LedgerRefined | passes: about 1.34M distinct states in about 80 s |

### The abstract ledger (`AbstractLedger`, `LedgerRefined`)

`AbstractLedger` states what the block's shielded ledger promises, with no journal, no
revision lists and no tree kept in the trie. Its state is:

- `spent`, the set of spent hashes: nils, and the roots of In_P inputs;
- `outs`, the leaves of the output tree;
- `pkgs`, the packages;
- `snaps`, the states remembered under the revision ids still held;
- `phase` and `committed`, as in `ZLedger`.

Its steps are the following:

- `Apply(t)` succeeds exactly when the hashes `t` spends are distinct and unspent, and its
  package op is allowed. The hashes are then spent, the Outs_C leaves and the super-zk Outs_P
  leaves are appended, and the op is done. Otherwise the block is rejected. The state the failed
  step leaves is unspecified, and only `Abort` follows.
- `Revert(id)` brings back the state remembered at `Snapshot` and forgets the later snapshots.
- `EndTx`, `Commit` and `Abort` forget all snapshots.

`ZLedger.Abs` maps the concrete state as follows:

- `spent` is `data.nils \cup saved`, and `outs` is `tree`;
- each revision id in `validRevs` maps to `SnapState`: the txstate journal up to that revision,
  replayed over the saved nils, the tree the StateDB revision holds, and the pkgstate copy with
  the same id.

So `LedgerRefined` checks that the three separate undo mechanisms (txstate's replay, the trie
journal, pkgstate's copies) together restore a whole state. It also checks that a transaction
never half-succeeds. Its mutant drops `OutP`'s super-zk test: an Out_P to a plain address then
enters the tree, and TLC finds an `Apply` step that the abstract ledger does not allow.

### Bounds, and why they are enough

The model uses these values:

- 2 nils, 2 roots, 2 addresses (one super-zk), and 1 package;
- 7 transactions, chosen so that every branch of `addTx1` and every `Force_*` outcome happens;
- `MaxLog = 3`, `MaxRevId = 2`, `MaxLeaves = 2`.

These bounds reach all of the following:

- nested snapshots, and a revert across an `IntermediateRoot`;
- a double spend within a block, and one across blocks;
- the partial failure of a two-input transaction;
- a package re-create after a close;
- a transfer followed by a close by the old owner.

Every mutant listed in `PROJECT.json` is caught under these bounds.

- `CommunityPkr` is the non-super-zk address. With the super-zk address, every block would add a leaf and the blocks would be unbounded.

### Fairness

There is none. All the properties are safety properties, and the block processor is driven by the arrival of blocks, which the code does not promise.

## 4. Module `TxBuilder`

`SignTx` runs the `sign_ctx` stages in order. The first error ends the build.

### Model

- `pc` is the stage the build has reached: `check`, `prepare`, `genFrom`, …, `signBalance`. The build ends in `done`, `failed` or `panic`.
- `p_ins`, `c_ins`, `c_outs` and `p_outs` are the routing done by `prepare`.
- `ck` is the `CKState` for one asset type, as inputs minus outputs. It starts at `-fee`, and `Check` requires it to be exactly 0, as `ckstate_test.go` shows.
- `bd` holds the value and the count of each commitment list of the balance descriptor.
- `s` is the `stx.T` being built.
- Each stage is one action, translated from its function:
  - `genCmd` keeps only the last asset-carrying command, as the code does;
  - `signPkg` panics on PkgClose without PkgTransfer;
  - `signBalance` takes the balance-proof path when there are any Z commitments, and uses `ck.Check()` otherwise.
- Cryptography is ideal:
  - a key is the address it owns;
  - `ConfirmOutC` succeeds only under the owner's key;
  - a balance proof exists only for a balanced descriptor.

### Inputs

`MC_TxBuilder` enumerates 1,920 parameter sets:

- inputs of both encodings, including ones under a foreign key;
- outputs to a super-zk address and to a plain address;
- the Z flag on and off;
- no command, one command, or two commands;
- each package command, and transfer together with close;
- a fee of 1 or 2;
- a From key that is right or wrong.

`CHECK_DEADLOCK FALSE` is set because `SignTx` returns: the done, failed and panic states are terminal.

### Runs

| Run | Checks | Result |
|---|---|---|
| (`MC_TxBuilder.cfg`, not in the run list) | `ConservationWithoutCommands`: a transaction built with no command spends exactly outputs plus fee. `InputsAuthorized`: From and every input are signed by their owners. | passes (9,984 states) |

The builder is sequential code, and both properties are close to what a unit test reaches. So the
project's run list gives this slot to the stake index's late-join finding (`stake_late_join`,
section 6). The cfg is kept so that the module can still be checked. `InputsAuthorized` is weak
for the index pairing of `signInsP`: both inputs of the only two-input set have the same owner.

## 5. Module `WalletExchange`

`zero/wallet/exchange` keeps a LevelDB index of the outputs that belong to the local accounts.
Four actors touch it concurrently, and nothing holds a lock across their steps:

- the fetch job (`fetchBlockInfo`, started by a cron `RunJob` every 10 s and guarded so one run
  is in flight), which calls `fetchAndIndexUtxo` and `indexBlocks`;
- the wallet event loop (`updateAccount`), which adds accounts and drops their fetch cursor;
- the RPC calls `GenTx`, `GenTxWithSign`, `IgnorePkrUtxos`, `ClearUsedFlagForPK` and `GetBalances`;
- the merge job (`merge` → `Merge` → `getMergeUtxos` → `genTx`), scheduled when `autoMerge` is set.

### Variables and the code they correspond to

| Variable | Code |
|---|---|
| `chain`, `pool` | the blocks `GetBlocksInfo` returns, and the txpool (environment) |
| `present` | the wallets the account manager holds |
| `accounts` | `Exchange.accounts` (never deleted) |
| `numbers`, `numDb` | `Exchange.numbers` and the `NUM`+pk keys |
| `idx` | the `PK`+pk+currency+root and `NIL` keys |
| `ignored` | the `Ignore` field of stored `Utxo`s |
| `flags` | `Exchange.usedFlag` |
| `changed`, `cache` | `Account.isChanged` and `Account.balances` |
| `fetch` | where `fetchBlockInfo` is: idle, before `GetBlocksInfo` of a chunk, or before `batch.Write` |
| `req` | each RPC call and the merge job: its iterator snapshot and its selected inputs |

### Actions

- `FetchStart` groups the numbered accounts and plans `[start, end)` (`Plan`).
- `FetchIndex` is `fetchAndIndexUtxo` up to `batch.Write`, including `indexBlocks` (`IndexBatch`),
  which sets `isChanged` at once.
- `FetchError` is a `GetBlocksInfo` error.
- `FetchWrite(ok)` is `batch.Write` and what follows it: the numbers are stored only when the write
  succeeded, the used flags of spent roots are deleted either way, and the loop goes on.
- `Begin`, `Pick`, `Build` and `Finish` are one GenTx/GenTxWithSign call:
  - `Begin` makes the iterator (a snapshot);
  - `Pick` is `findUtxos`, which reads the flags then;
  - `Build` is `buildTxParam`, which sets the flags;
  - `Finish` signs and commits, running `ClearTxParam` on a failure.
- `MergeBegin`, `MergePick` and `MergeSkip` are the merge job. `Build` and `Finish` are shared with the RPC calls.
- `WalletArrived` and `WalletDropped` are `updateAccount`.
- `Mine` is the environment: blocks of pool transactions and of new outputs.

### Abstractions

- Every output has value 1 of one currency, and its nil is identified with its root.
- `SelectUtxos`, `BuildTxParam` and the txpool are not in `src`. `SelectUtxos` is taken to ask
  `FindRoots` for the amount.
- Each account has one PKr, so `IgnorePkrUtxos(pkr)` covers all of the account's outputs.
- The fee top-up of `getMergeUtxos` depends on `CKState.Tkns`, whose code is not in `src`. Merging
  the fee currency pays the fee from the merged outputs, so the model keeps the merge list as selected.
- `nextMergeTime`, the locked seed and the merge thresholds are folded into the nondeterministic
  `MergeSkip`.

### Runs

| Run | Config | Checks | Result |
|---|---|---|---|
| `wallet` | `MC_WalletExchange.cfg` | TypeOK, IndexMatchesChain, CatchUp, with an RPC call and the merge job running beside the fetch job | passes (about 850k states, about 2.5 min) |
| `wallet_double_select` | `…_double_select.cfg` | BuiltTxSpendable | violated: two GenTx calls select one output (the merge job reaches the same race through the same unlocked path) |

### The balance cache

`indexBlocks` sets `account.isChanged = true` (`exchange.go:1071`) before `fetchAndIndexUtxo`
calls `batch.Write`. A `GetBalances` between the two recomputes the balance from the old index,
caches it and clears `isChanged`; later calls serve that stale balance until the account changes
again. `BalanceCacheFresh` states the cache is fresh whenever `isChanged` is false. With
`MC_WalletExchange.cfg`'s constants changed to three outputs (`Owner <- MCOwner`, `At <- MCAt`,
`Roots = {1, 2, 3}`, `MaxBlocks = 3`), no RPC call (`Reqs = {}`) and `AutoMerge = FALSE`, and
`INVARIANT BalanceCacheFresh`, TLC reports the violation in a few seconds:
`FetchIndex`, then `GetBalances`, then `FetchWrite`. No run keeps it, as the project's runs
check the gas refund's negative balance (section 10) instead.

### Bounds and fairness

- The passing run has:
  - two accounts created a block apart (`At` = 1 and 2);
  - two outputs, both `a1`'s, so that `Merge` finds two to merge;
  - `FetchCount = 1` and `MaxBlocks = 2`;
  - one `GenTxWithSign` call (`ReqKinds`) and the merge job.

  The RPC call and the merge job interleave with each other and with the fetch job. `GenTx`,
  which leaves the used flags to the client, is in the violation run `wallet_double_select`.
- With these values the fetch job fetches the accounts in two groups and in several chunks, and
  meets a spend of an output indexed earlier.
- The violation run keeps three outputs, `At` = 1 and 3, `MaxBlocks = 3` and two RPC calls of
  either kind.
- The merge job runs once.
- Fairness: the cron job fires every 10 s and runs to its end, so its steps are weakly fair.
  `FetchIndex` is strongly fair: a transient `GetBlocksInfo` error does not recur forever.
- No RPC call or wallet event is assumed to happen.

## 6. Module `StakeIndex`

`zero/wallet/stakeservice/stakeservice.go` keeps per-PKr and per-account summaries of stake
shares (`SharesInfo`: Total, Remaining, Missed, Expired, ShareIds, Profit). Three actors touch it:

- a cron job (`AddJob`/`RunJob.Run`) that calls `stakeIndex` every few seconds. The `runing`
  flag stops two runs from overlapping, so a run is one sequence of steps;
- the `updateAccount` goroutine, which handles `WalletArrived` (`initWallet`) and
  `WalletDropped` (deletes the block cursor). It writes the `accounts` and `numbers` sync.Maps,
  which `stakeIndex` reads without a lock;
- the chain, whose head grows.

### Variables and the code they correspond to

| Variable | Code |
|---|---|
| `head` | `bc.CurrentBlock().NumberU64()` |
| `present` | the wallets the account manager holds (events only) |
| `accounts` | `self.accounts` (never shrinks) |
| `numbers`, `numDb` | `self.numbers` and the `NUM` keys (`NoNum` = no entry) |
| `pkrInfo`, `pkInfo` | the `PKRINFO` and `PKINFO` keys |
| `sdb` | the `SHARE` keys: the last share object indexed for each id |
| `job` | a run in progress: its end, the records read, the position, and the batch's caches |
| `indexed` | history variable: the block the summaries have been written up to |

### Actions

- `IndexRun`: start is the least cursor. The end is the last confirmed block, capped at
  `MaxPerRun` blocks (the code breaks after 10000). The run reads the records of those blocks.
- `IndexStep`: one share record. It updates the PKr summary, and the PK summary when `ownPkr`
  finds an account that holds the PKr. The step reads `accounts` at that moment, as the code does.
- `IndexWrite(ok)`: the batch puts the summaries, the shares and the `NUM` keys. If the write
  succeeds, every account numbered at that moment gets the end as its cursor.
- `WalletArrived`, `WalletDropped`, `NewHead`.

`updateSharesInfo` is translated field by field, including the uint32 differences (`Sub32`,
with `Uint32Mod` standing for 2^32, which TLC cannot represent). Records are a constant
table of four blocks. It contains a share that is re-issued, one that expires with a missed
vote, one that finishes, and a PKr that no account owns.

`MC_StakeIndex` holds `a1` from the start (`InitPks = {a1}`). `a2`'s wallet arrives at any point,
while a run is under way included.

The invariant `StakeInfoExact` compares the summaries that `SharesInfoByPkr` and `SharesInfoByPk` return with `Expected`. `Expected` is a closed
form: the last record of each share before `indexed`, summed over the shares of a PKr or an account.

### Runs

| Run | Config | Checks | Result |
|---|---|---|---|
| `stake` | `MC_StakeIndex.cfg` | TypeOK, IndexCatchUp: every numbered account's cursor reaches the confirmed tip, with `a2` arriving late | passes (4,672 states) |
| `stake_late_join` | `MC_StakeIndex_late_join.cfg` | StakeInfoExact | violated in 9 steps (the first form below) |

### Accounts that join late

Where an account joins late, TLC finds `StakeInfoExact` violated. No passing run checks it for
that reason. With both accounts present from the start, `StakeInfoExact` holds, even with failing
writes (`WriteMayFail = TRUE`, 1,672 states). But that instance leaves out the case the code gets
wrong. `stake_late_join` shows the first of the forms below. The others were found by TLC on
variants of the same instance:

- **An account arriving during a run (9 steps).** `IndexRun` reads `start`. `IndexStep` indexes a
  share of `p2` while `a2` is not yet in `accounts`, so `ownPkr` misses it. `a2` then arrives.
  `IndexWrite` gives every account numbered at write time (`stakeservice.go:326`) the run's end,
  `a2` included. `a2`'s PK summary never counts that share.
- **An account arriving below the cursor (about 20 steps).** After the index has reached block 4,
  `a2` arrives and `initWallet` numbers it at `At = 2` (`stakeservice.go:509`). The next run starts
  at 2 and applies the records of blocks 2 and 3 again, each against the newer share stored for
  it. The uint32 `Num` difference wraps, its decrease is skipped, and then the forward record
  subtracts again. The PKr summaries, including those of PKrs that no late account owns, end
  wrong for good.

Two accounts hide a third way to break it. With a third
account `a3` (`At = 3`), `a1` and `a2` are dropped before the first run. The first run then starts
at `a3`'s cursor, 3, so blocks 1 and 2 are never indexed for any PKr. `StakeInfoExact` then
fails for `p2`. `stakeIndex` indexes only from the least cursor of the accounts held now. So
`StakeInfoExact` holds only while the account with the least cursor stays held. A re-added
account never gets the skipped blocks back, because `initWallet` skips a known pk.

A node restart reaches the second form with no new account at all. `NewStakeService` rebuilds
`accounts` from the wallets present, and numbers each at its `NUM` key or `At`. So a wallet
dropped and re-added before the restart is numbered at its stale `NUM` key, which is below the
others. This was checked by adding the restart step to a copy of the module.

The service repeats the exchange's wallet-event code: `WalletDropped` deletes only the cursor, and
`initWallet` skips a known pk. So a re-added wallet is never indexed forward, as in the exchange
(see the observations in section 12).

### Bounds and fairness

- Two accounts (`At` = 1 and 2), three PKrs, three shares, four blocks, one confirmation, and
  at most two blocks per run. `a2` is not present at the start. With these values runs split the
  blocks, and `a2`'s arrival, drops and returns fall between runs and inside them.
- Writes do not fail in the passing run: a failed write changes no state, and the liveness check
  assumes that a failure does not recur forever.
- Fairness: the cron job fires forever and `RunJob.Run` runs `stakeIndex` to its end. So
  `IndexRun`, `IndexStep` and `IndexWrite` are weakly fair. Nothing is assumed of the wallet events.

## 7. Module `LightNode`

`zero/wallet/light` keeps an index for light wallets. `fetchBlockInfo` is a cron job behind the
same `RunJob` guard as the other jobs. It does the following:

1. It reads the cursor through `getLastNumber` and asks `GetBlocksInfo` for up to `fetchCount`
   blocks after it.
2. For every block it puts one `PKr` key per PKr, holding that PKr's outputs in the block, and
   one `NIL` key per spent nil.
3. It puts the new cursor into `LIGHT_SYNC_NUM` and writes everything in one batch.
4. The cache `self.lastNumber` is set only if the write succeeded.

The RPC calls `GetOutsByPKr` and `GetPendingOuts` also call `getLastNumber`, from their own
goroutines. While the cache is 0, `getLastNumber` loads the key, stores it into the cache, and puts
the key back (as 0) if it was absent or 0.

| Variable | Code |
|---|---|
| `head` | the chain's last block |
| `lastNumber`, `numDb` | `self.lastNumber` and `LIGHT_SYNC_NUM` (`NoKey` = absent) |
| `pkrDb`, `nilDb` | the `PKr` and `NIL` keys |
| `job` | a `fetchBlockInfo` run between `GetBlocksInfo` and `batch.Write` (its batch) |
| `rpc` | an RPC goroutine inside `getLastNumber`, between its `Get` and its `Put` or store |
| `restarts` | node restarts (`NewLightNode` again: cache 0, LevelDB kept) |

Actions:

- `LightStart`, `LightFetchError` and `LightWrite(ok)` are the job. Its own `getLastNumber` is one
  step, because the job does not race itself.
- `GLNRead`, `GLNPut0` and `GLNSet` are an RPC's `getLastNumber`.
- `Restart` and `NewHead`.

`CurrentNum` is what `getLastNumber` would return now: the `CurrentNum` that `GetOutsByPKr`
reports and its default `end`. `GetOutsByPKr` and `CheckNil` are translated as reads of the keys.

Abstractions:

- Outputs are model values with a fixed PKr, and a nil is the output it spends.
- `TxInfo` and the reward-hash branches only shape the stored value.
- `DelMaturedOuts` and `GetPendingOuts` act on the txpool, which is not in `src`.
- `GetBlocksInfo` (its code is not in `src` either) returns the consecutive blocks after the
  cursor, up to the head, as the exchange model assumes too.

| Run | Config | Checks | Result |
|---|---|---|---|
| `light` | `MC_LightNode.cfg` | TypeOK, IndexServesChain, LightCatchUp | passes (3,459 distinct states) |
| `light_regress` | `MC_LightNode_regress.cfg` | CursorMonotonic | violated: an RPC's `getLastNumber` stores a cursor it read before the job's write |

`light_regress` needs no failure and no restart. The job's first run puts 0, an RPC reads 0, the
job writes cursor 1, and the RPC sets the cache and the key back to 0. `GetOutsByPKr` then serves
nothing until the next run indexes the same blocks again. `IndexServesChain` still holds in the
passing run: what is served always matches the cursor that is reported, even when that cursor goes back.

Bounds and fairness:

- Three blocks (an output of each PKr, a spend of an output of an earlier block), fetched two at a
  time, so a run gets fewer blocks than it asked for.
- Two RPC goroutines with two calls each, two restarts, and writes that may fail. With two
  goroutines one RPC's `getLastNumber` can put 0 while the other has already read the key, and
  a second restart can fall after a write that the first restart did not see.
- The job's steps are weakly fair (cron and `RunJob`). A failing write does not recur forever
  (strong fairness of a successful write). Nothing is assumed of the RPC calls.

## 8. Module `TxVerifier`

`verify_1.VerifyWithoutState` (`verify_static.go`, `verify_proof.go`) checks a transaction without
the chain state. It refuses a wrong Ehash first. `verify()` then:

1. takes one `utils.Procs` batch from each of three pools (In_C proofs, Out_C proofs, the
   PkgCreate proof) and hands every proof to its batch (`ProcessVerifyProof`);
2. runs the cheap checks in a fixed order, returning at the first failure: fee, From, the package
   description, the command, and, when the transaction has inputs or outputs, Ins_P, Ins_C, Outs_P,
   Outs_C, and at last the output limit (`oout_count + zout_count > MAX_Z_OUT_LENGTH_SIP2`);
3. waits for the batches in the order In_C, Out_C, PkgCreate (`WaitVerifyProof`), and returns the
   first failure;
4. gives the batches back in a deferred `clear()`, on every path.

### Model

- `tx` is the transaction, an abstract record chosen in `Init`:
  - which cheap check fails (`faults`);
  - whether it carries both a command and a package command (`both`);
  - whether its package command is a create or a close, and whether its command carries an asset;
  - the lengths of its four lists;
  - which of its proofs do not verify (`bad`).
- `vpc` is the check `verify()` is at; `cnt` holds its four counters; `result` is what it returned.
- `task[x]` is where proof check `x` is: new, queued, running, ok, bad, or dropped.
- Each check is one action with its early return (`Finish`).
- `ProcsEnd(i)` is the `HasProc`/`End` step of the i-th pool. `End` waits for every check handed to
  the batch, and reports a failure.
- `WorkerStart` and `WorkerEnd` are a pool worker running one check. At most `ThreadNum`
  (`G_v_thread_num`) checks of a pool run at once.
- `utils.Procs` is not in `src`, so the pools are modelled from the spec: a batch given back before
  `End` drops its queued checks, and a running check finishes unobserved.
- The crypto is an oracle (`bad`, `faults`).
- `verify_proof.go` reads `tx.Tx.Ins_C` while `verify_static.go` reads `tx.Tx1.Ins_C`. `stx.T` in
  `src` has only `Tx`; the model takes the two to be the same lists.

### Inputs and bounds

`MC_TxVerifier` enumerates 6,424 transactions:

- no failing cheap check, or exactly one (a list check can fail only on a list that has an element);
- every combination of `both`, create/close and the command asset;
- up to two In_C and one of each other list;
- at most one proof that does not verify.

`ThreadNum = 1`, so the two In_C proofs queue behind each other. `MaxOut = 3`, so the output
limit is crossed by some of the transactions and not by others (the fee counts one output).
`CHECK_DEADLOCK FALSE` is set because `verify()` returns: `done` is terminal once the workers are idle.

### Fairness

`verify()` runs on one goroutine, and the pool workers are goroutines. Both are weakly fair.

### Run

| Run | Checks | Result |
|---|---|---|
| `verifier` (`MC_TxVerifier.cfg`) | `TypeOK`, including the `ThreadNum` bound of every pool. `VerifyMatchesReference`: `verify()` returns what a sequential reference (`Reference`: the first failing cheap check in order, else the first pool with a bad proof) says, whatever the workers' interleaving, and accepts only when every proof was checked valid. `VerifyTerminates`: `verify()` returns. | passes (526,188 states) |

## 9. Module `HeaderVerifier`

`Ethash.VerifyHeaders` (`consensus/ethash/consensus.go`) verifies a batch of headers concurrently.

- `workers = min(GOMAXPROCS, len(headers))` goroutines range over the unbuffered channel `inputs`.
  For each index, a worker stores `verifyHeaderWorker`'s error in `errors[index]` and sends the
  index on `done`. `done` is buffered to `workers`.
- One more goroutine selects among three cases:
  - hand out the next index (`inputs <- in`);
  - receive an index from `done`, mark it `checked`, and forward `errors[out]` to the results
    channel while `checked[out]`, returning after the last header;
  - return when the caller closes `abort`.
- On return, its deferred `close(inputs)` ends the workers' range loops.

### Model

- Each select case is one action: `SendInput`, `ReceiveDone` and `ReceiveAbort`.
- Each worker step is one action: `WorkerVerify`, `WorkerSend` (blocked while `done` is full) and
  `WorkerExit` (once `inputs` is closed).
- `Abort` is the caller closing `abort`.
- `ReceiveDone` runs the whole forwarding loop in one step. `FirstUnchecked` (RECURSIVE) finds
  where the loop stops.
- `verifyHeaderWorker` keeps its control: an unknown parent, a known header accepted as it is, and
  otherwise `verifyHeader`.
- `EthashRules` holds the header rules as pure operators, used by both modules below:
  - `verifyHeader`: every check in the code's order (extra-data, future time, time after the parent,
    difficulty, the gas cap, gas used, the gas-limit bound, the number, the seal);
  - `GasLimitOutOfBounds`: a decrease must stay below parent/1024 and an increase below parent/128;
  - `CalcDifficulty` and `calcDifficultyAutumnTwilight`, whose Euclidean big-int division is `\div`;
  - `VerifySeal`: `hashimotoLight`'s digest and target comparison are an oracle field `pow` of the header;
  - `VerifyHeader` (the single-header API) and `Prepare`.
  - TLC's integers stop at 2^31 - 1, so the gas cap `0x7fffffffffffffff` is the constant `GasCap`.
- `HeaderBatch` is the abstract specification of what `VerifyHeaders` promises its caller
  ("similar to VerifyHeader, but ... concurrently"). The results channel grows, a few results at a
  time, by the verdict `VerifyHeader` gives header i against the chain extended by headers
  0 .. i-1 of the batch. Nothing is ever taken back, and the caller may abort.
  `HeaderVerifier` instantiates it with `results <- errorsOut`; the refinement is the
  property `HeaderBatchRefined`.
- `ModeFullFake` and the empty batch return at once, and are not modelled.

### Bounds and fairness

- `MC_HeaderVerifier` has three batches of three headers and two workers. A batch is linked
  (header i+1 names header i as its parent), as the callers check before `VerifyHeaders`.
  The chain holds a genesis and one block `K`. Valid headers get their difficulty from `Prepare`.
  The batches give the verdicts
  - nil, nil, `gasLimitBound` (an increase exactly at parent/128);
  - `unknownAncestor`, `difficulty` (a 940 s gap, below the -99 floor), nil with seal unchecked;
  - nil (the known `K`), `invalidPoW`, nil.
  So neighbouring indices differ, and an out-of-order forward shows.
- `DifficultyAdjustment` evaluates `calcDifficultyAutumnTwilight` for every parent of the model
  with at least the minimum difficulty (genesis 1,000,000), over time gaps around the 9 s step and
  the -99 floor (1 to 1000 s).
- Three headers on two workers is the smallest case where a worker holds an index while `done`
  is full.
- The goroutines are weakly fair, and so are the select cases (Go picks among ready cases at
  random). The caller's abort is not assumed to happen.
- `CHECK_DEADLOCK FALSE`: when every goroutine has returned, the state is final.

### Runs

| Run | Config | Checks | Result |
|---|---|---|---|
| `header` | `MC_HeaderVerifier.cfg` | TypeOK (with `done` within its buffer). `HeaderBatchRefined`: `VerifyHeaders` implements `HeaderBatch`, so the results come in header order, each the verdict the single-header `VerifyHeader` gives, and are never taken back. `AllResultsDelivered`: every result arrives unless the caller aborts. `DifficultyAdjustment`: a later block never gets a higher difficulty, one block moves the difficulty by at most one step up and 99 steps down, and it never falls below the minimum. | passes (2,058 states) |

### The abort leak (no run)

`WorkersExit` states that every verifier goroutine ends. It does not hold once the caller may
abort, and no run keeps it, since a property the code does not have is not something to check on
every change. To see the trace, run `MC_HeaderVerifier` with `MC_HeaderVerifier.cfg` changed to
`PROPERTY WorkersExit` in place of its invariants and properties (it already has
`MayAbort = TRUE` and `CHECK_DEADLOCK FALSE`). TLC then reports `WorkersExit` violated:

1. The caller closes `abort` while two indices wait unread in `done`, and a worker is verifying
   the third header.
2. The select returns on `<-abort` and closes `inputs`.
3. Nothing reads `done` any more, so that worker blocks on `done <- index` for good
   (`consensus.go:117`: `done` is buffered to `workers` only).

Each such abort leaks a goroutine and keeps the batch alive. The callers of `VerifyHeaders` are not
in `src`.

## 10. Module `GasFee`

`Process` (`core/state_processor.go`) runs the transactions of a block against one gas pool of
`header.GasLimit`. For each one, `ApplyTransaction` calls `ApplyMessage`, which calls
`StateTransition.TransitionDb` (`core/state_transition.go`):

1. `preCheck` buys the gas. A DECE fee buys `fee / price` gas. A token fee is paid to the called
   contract, which must have registered a rate with `SetTokenRate`. The contract gives
   `fee * tas / tokens` DECE for it (`taval`), and the gas is `taval / price`. The gas is then
   taken from the pool with `gp.SubGas`.
2. The intrinsic gas (`IntrinsicGas`: 21000 or 53000, plus 68 per non-zero and 4 per zero data
   byte) is charged.
3. The EVM creates or calls the contract. An address that is not a contract is not called.
4. `refundGas` adds the refund counter, capped at half the gas used. It returns the unused gas to
   the sender as an output (for a token fee it converts it back to tokens at the contract's rate),
   and gives the unused gas back to the pool.
5. `ApplyTransaction` adds `gasUsed` to the block's gas, and `Process` adds `gasUsed * price` to
   `gasReward`.

Before the message, `ApplyTransaction` runs `applyStake` on the transaction's stake command:

- `BuyShare` prices the value with the stake state (`CaleAvgPrice`). It buys at most 1000 shares,
  at the average of the first 1000. It refunds what the shares do not take, and refuses a pool that
  is missing or closed.
- `RegistPool` creates the sender's pool for exactly the threshold value and a vote. For an open
  pool that already exists, it updates the fee and vote and refunds the value.
- `ClosePool` closes a pool after its locking period. It pays the amount back at once only if the
  pool has no shares and no wished votes.

An error from `applyStake`, from `preCheck`, from the intrinsic gas, or an `ErrInsufficientBalance`
from the EVM, ends `Process` with the error, and the block is rejected.

### Model

| Variable | Code |
|---|---|
| `txs`, `i` | the block's transactions and `Process`'s loop index |
| `gp` | the `GasPool` |
| `usedGas`, `gasReward` | `*usedGas` and `Process`'s `gasReward` |
| `bal`, `rate`, `objects` | the contracts' balances per coin, their token rates, and the addresses that are contracts (`StateDB`) |
| `registry` | the "Token" registry of `registerAddressByState`: the contract each token name is bound to, or none |
| `outs` | the value paid out as outputs through `AddTxOut` and `AddTxOutWithCheck`, per coin |
| `tkts`, `tktOuts` | the tickets contracts own (`OwnTicket`), and how often each ticket was paid out as an output |
| `burned` | a history variable: the asset value of contract commands whose `To` was never called |
| `pools`, `shares` | the stake state's pools by owner (`GetStakePool`, `AddStakePool`) and the pending shares (`AddPendingShare`) |
| `receipts`, `status` | the receipts, and whether `Process` is running, done, or stopped with an error or a panic |

- `ApplyTransaction(ev)` is one transaction's whole path: `preCheck`, the intrinsic gas, the EVM,
  `refundGas`, the receipt. `ev` is the EVM's outcome, chosen from `Calls`. It gives how much of
  the gas the call leaves (none, half, all), whether it reverts or fails on a balance, the refund
  counter it leaves (0, 5000, or 15000, which the cap cuts), a token the contract may register (`RegisterToken`), a rate it may then set
  for itself for a token with `SetTokenRate`, and one transfer it may make (tokens, DECE or a
  ticket). A message with no `To` and no data starts no call, so one outcome stands for all
  (`CallsFor`).
- A call first moves the command's asset (`msg.Asset()`, the contract command's asset) to `To` with
  `Transfer` (`core/evm.go`). The sender is a PKr, never a contract, so only the credit half runs.
  The contract's own transfer runs only if `CanTransfer` holds. `Transfer` is `Debit` then
  `Credit`, built from `SubBalance`/`RemoveTicket`, `AddBalance`/`AddTicket`, and
  `AddTxOutWithCheck` for a recipient with no state object.
- A failed call keeps none of its changes. The EVM reverts them, and `TransitionDb` gives the asset
  back with `AddTxOut` (`ReturnAsset`).
- Where the EVM is not in `src`, the model assumes geth's behaviour: the asset moves through
  `Context.Transfer`, and a reverted call undoes its state changes.
- `applyStake(t, id)` is `BuyShare`, `RegistPool` or `ClosePool`. The stake package is not in
  `src`, so its pricing is the constants `CaleAvgPrice` and `SumAmount1000`. An `ASSUME` states
  what `applyStake` relies on them for: the shares cost no more than the value.
- `SetTokenRate` keeps the registration check (`GetContrctAddressByToken`): only a registered
  token's rate is set. `RegisterToken` is `registerAddressByState`: the first contract to register
  a name keeps it. Within one call the model registers before it sets a rate; the other order is
  a rate refused for an unregistered token, which a call with no registration also gives.
- `GetDeceFee` and `GetTxGasLimit` are the `StateDB` helpers that the txpool uses to price a
  transaction.
- `Finalize` is the loop's end.
- Numbers are TLC integers. `MaxUint64` stands in for 2^64 - 1 in `IntrinsicGas`'s overflow
  checks.
- Not modelled:
  - `RegisterTicket` (the ticket categories are fixed);
  - the asset of a contract creation (it goes to the new contract), so creations carry none;
  - ticket assets on the command itself (tickets move only by the contracts' transfers);
  - the EVM's own work;
  - the `Uint64()` truncations. TLC's integers cannot reach them.

#### The stake RPC

`PublicStakeApI` (`internal/ethapi/api_stake.go`) builds the stake transactions a block can hold.
The model starts in `status = "rpc"`, where RPC calls and the miner interleave:

| Variable or action | Code |
|---|---|
| `txpool` | the transaction pool: the transactions `CommitTx` accepted, each with the call that made it |
| `ApiBuyShare(a)` | `BuyShare`: `setDefaults` (a vote is required; the pool, if named, must exist and be open; the price defaults to `SuggestPrice` and must not be 0), the account check, `toPreTxParam`, `CommitTx` |
| `ApiRegistStakePool(a)` | `RegistStakePool`: `EnoughPeers`, `setDefaults` (vote and fee required, price not 0, the fee within `LowestFeeRate`..`HighestFeeRate`), the account, refused when the sender's pool exists |
| `ApiCloseStakePool(s)` | `CloseStakePool`: the owner checks (account, pool exists, not closed), a `ClosePool` command at `DefaultGasPrice` |
| `ApiModifyStakePoolFee(s, fee)`, `ApiModifyStakePoolVote(s, v)` | `ModifyStakePoolFee`/`Vote`: the owner checks, then a `RegistPool` command of value 0 that carries the new fee and the vote read from the head state, or the new vote and the fee read from the head state |
| `Mine` | a block: one of the clients' blocks, or up to two of the pool's transactions in either order |

Every call reads the stake state of the head block (`StateAndHeaderByNumber(-1)`). The model reads
`pools` before the block. A failed call, or a failure of `GenTxWithSign` or `CommitTx`, changes
nothing. The model leaves out the nonce lock, the gas estimation and the signature.

### Run

| Run | Config | Checks | Result |
|---|---|---|---|
| `gas` | `MC_GasFee.cfg` | TypeOK (the pool never goes below 0). `GasPoolAccounting`: while `Process` runs, the pool plus the gas used is the block's gas limit. `FeeConservation`: the DECE the contracts held and the transactions paid in (fees and assets) equals what the contracts hold, what was paid out and the miner's reward, less at most `price - 1` per transaction (the remainder of `fee / price`). `TokenConservation`: every token is accounted for exactly. `TicketConservation`: every ticket is held by exactly one contract or was paid out exactly once. `PoolClosedFinal`: a closed stake pool never changes, and no pending share joins it. `GasUsedCoversHalfIntrinsic`: every receipt is at least half the transaction's intrinsic gas. A call may leave a refund counter of 15000, which is above half of a 21000-gas call, so `refundGas`'s cap binds; an uncapped refund gives 6000. `FeeConservation` counts the pools' amounts and the pending shares as held DECE, so it also checks `applyStake`'s refunds and the 1000-share cap. `RpcModifyKeepsPool`: a fee or vote change the RPC put in the pool, applied by `applyStake` to the state it was checked against, changes only that field of the owner's pool, is not refused, and pays nothing out. | passes (58,637 states, about 70 s) |
| `gas_negative` | `MC_GasFee_negative.cfg` | `ContractBalanceNonNegative`: no contract's balance goes below zero | violated: the token refund of `refundGas` (see below) |

The model's blocks are every sequence of up to two of seven transactions:

- a DECE fee with data;
- a token fee to `c1`, whose rate is 1 token for 3 DECE;
- a fee in the token `U`, which nobody has registered, to `c1`;
- a contract creation;
- a fee below the intrinsic gas;
- a token fee with no recipient;
- a DECE fee to an address that is not a contract.

The call to `c1` with a DECE fee carries 3 T, and the one to `c2` carries 7 DECE. `c1` owns
ticket `k1`. During a call, `c1` may send 5000 T, 10000 DECE or `k1` to `p1`, a PKr. A block
that calls `c1` twice can therefore try to send `k1` twice. `T` is registered by `c2`, which is
never called; `c1` may try to register `T` (refused) or `U`, and may set a 1:1 rate for `T` or
`U`. A block of two can register `U`, set its rate, and then pay a fee in `U`.

The stake transactions use four owners:

- `u1` owns an open pool that is old enough to close;
- `u3` owns a closed pool with shares;
- `u4` owns an open pool with shares;
- `u2` has no pool.

`u2` buys shares several ways: a value of 2 buys none; 50 buys with no pool; one purchase goes into
`u1`'s pool, past the 1000-share cap; one goes into `u3`'s closed pool. `u2` also registers a pool,
or fails to with one unit short of the threshold, and then closes it (still locked). `u1` and `u3`
register again, and `u1` and `u4` close their pools. Every branch of `applyStake` is taken, and a
block of two can close a pool and then buy into it.

The pool (100000) holds one or two of them, so `SubGas` fails on some blocks.

### Observations

The run `gas_negative` checks the first of these defects:

- `refundGas` re-reads `GetTokenRate` after the EVM call (`state_transition.go:248`), although its
  comment says the DECE is "exchanged at the original rate", and takes the token refund from the
  contract with an unchecked `SubBalance` (line 257). `preCheck` credited the fee tokens to the
  contract before the call, and the call may spend them or change the rate. In TLC's trace `c1`
  takes a 10000 T fee at 1 T for 3 DECE, sends 5000 T to `p1` and sets the rate to 1:1; the
  refund of 9500 T leaves its T balance at -4500, and the outputs hold 14500 T while the block
  brought in 10000. If the new rate is zero, the sender gets no token refund at all.

No run checks the others:
- `ModifyStakePoolFee` and `ModifyStakePoolVote` each copy the other field from the head state
  (`api_stake.go:382`, `:437`) into a `RegistPool` that overwrites both. If two modifications of
  one pool are pending together, the one mined second undoes the first. TLC finds the trace with
  the invariant "once both are applied, `u1`'s vote is the one `ModifyStakePoolVote` asked for":
  commit a fee change of `u1` to 5000, commit a vote change of `u1` to `v2`, and mine the block
  `<<vote tx, fee tx>>`. The fee transaction carries the vote `v1` it read before the block, so
  `u1`'s pool ends with the vote `v1`. `RpcModifyKeepsPool` holds, since each modification is
  right against the state it read; the lost update needs two of them to be in flight at once.
- `preCheck` dereferences `msg.To()` for a token fee (`state_transition.go:148`). A contract
  creation that pays its fee in a token panics `Process`. `verifyFee` checks only the value's
  range. A zero gas price panics the division in either branch.
- A contract command whose `To` has no state object is not called (`state_transition.go:205`).
  Nothing credits its asset or gives it back, so the asset is lost. The model keeps this value in
  `burned`.
- `SetTokenRate` checks only that some contract registered the token, not that the caller did.
  `registerAddressByState` stores the address without its last 32 bytes (`key2` is the empty hash,
  `statedb.go:167`). The address read back ends in whatever is stored under the empty key, not in
  the contract's last 32 bytes. It is therefore not the contract, unless those 32 bytes are that
  value, and a second registration by the same contract returns false. That return value goes to the EVM and
changes no state, so the model's registry holds the contract itself.
- When `TransitionDb` fails, it returns gas 0, and `ApplyTransaction` gives `gp.AddGas(0)` back
  (`state_processor.go:129`). The gas bought in `preCheck` is lost to the pool. `Process` then
  rejects the block anyway, so this matters only to another caller of `ApplyTransaction`.

## 11. Modules `VoterHeap` and `VoterQueue`

`voter.PriorityQueue` (`voter/utils.go`) is a bounded queue keyed by an arbitrary key. Its
`itemslice` is a binary heap that Go's `container/heap` maintains. `Less` puts the higher `Block`
first, so the root, which `minItem` returns, is an item of the highest block. `itemsMap` finds an
item by key, and every `Item` keeps its own `Index` in the slice. Each public method holds the
queue's mutex for its whole body, so each is one atomic step. No caller of the queue is in `src`.

### Model

| Variable | Code |
|---|---|
| `heap` | `items`, as a sequence of keys (position `p+1` holds `items[p]`) |
| `idx[k]` | `Item.Index` of the item of key `k` (`-1` once popped, and before the first push) |
| `inMap` | the keys of `itemsMap` |
| `blk[k]`, `val[k]` | `Item.Block` and `Item.Value` |

- `Less`, `Swap`, `HeapPush` (`itemslice.Push`) and `HeapPop` (`itemslice.Pop`) translate the
  `itemslice` methods. `up`, `downFrom`/`down`, `HeapFix` and the swap-sink-cut of `HeapPop` are
  `container/heap`'s `up`, `down`, `Fix`, `Push` and `Pop`, as RECURSIVE operators. `GoHalf`
  keeps Go's truncating division, so the parent of slot 0 is slot 0 and `up` stops there.
- `PushItem(k, v, b)` has `PushItem`'s three branches in order. A key already present in a
  non-empty queue is updated in place (`updateItem`: new value and block, then `heap.Fix` at its
  `Index`). A new key is pushed while `maxSize <= 0` or `size < maxSize` (`HasRoom`). Otherwise
  `heap.Pop` evicts the root, and the new item is pushed.
- `PopItem` is `PopItem` and `Pop`: `heap.Pop` on a non-empty queue. On an empty queue both
  return nil and change nothing, so that case is no step.

`VoterQueue` is what the queue promises, with no heap: a map from keys to `[value, block]`.
`Push` updates a present key, adds a new key while there is room, and otherwise replaces some
entry of the highest block. `Pop` removes some entry of the highest block. `VoterHeap` implements
it under the mapping `q <- [k \in Range(heap) |-> [value |-> val[k], block |-> blk[k]]]`.

### Run

| Run | Config | Checks | Result |
|---|---|---|---|
| `voter` | `MC_VoterHeap.cfg` | TypeOK (the queue within `maxSize`, every index within the slice or -1). `HeapIndexed`: every item's block is at most its parent's, every item's `Index` is its slot and every other key's is -1, `itemsMap` holds exactly the keys of the slice, each once, and `minItem` is a highest block. `QueueRefined`: `VoterHeap` implements `VoterQueue`, so `PopItem` and a full `PushItem`'s eviction always remove a highest block, an update changes only its own key's entry, and the queue never holds more than `maxSize`. | passes (32,976 states, about 25 s) |

Bounds: four keys for three places, so a full `PushItem` evicts and a popped or evicted key
comes back; blocks 1 to 3, so ties and every order of three items occur and an update can move
an item up or down; two values. The queue has no scheduling to be fair about, so there is no
liveness property. `GetQueue` and `GetQueueItems` only read, and are not modelled. They have
value receivers, so each call copies the queue and its mutex: `RLock` then locks the copy and
excludes no writer, and the items are read while a `PushItem` may swap or update them; a copy
taken while a writer holds the lock is locked for good, and the call blocks. No caller is in
`src`, and a read-only copy is outside what TLC checks here.

## 12. Not modelled

These parts are not modelled:

- the EVM itself, and the stake package (StakeState, its pricing and how shares mature). It is not in `src`, and `GasFee` takes its pricing as constants;
- in the stake service: the pool keys, the TotalAmount and LastPayTime corrections (they read share snapshots through stake code that is not in `src`), and the read-only queries;
- `RecordState` and `RecordBlock`, which are database writes;
- the cryptography;
- in the wallet exchange: ticket selection, package indexing (`indexPkgs`), the record keys, and `GenMergeTx`, which nothing in `src` calls;
- the miner worker, which is not in `src`. It is the caller that snapshots and reverts around a failing transaction.

The aliasing between `GetPkgById`'s record and a snapshot copy depends on `utils.Snapshots`, which is not in `src`. The model takes the copy to be deep.

Observations that no run checks, because a unit test reaches each of them directly:

- In `accumulateRewards`, `reward` is nil outside dev mode, so `reward.Add` dereferences nil.
- `signPkg`'s PkgClose branch assigns `self.s.Desc_Pkg.Transfer.Sign`. That pointer is nil when only
  PkgClose is requested, so `SignTx` panics (`sign.go:467`). `TxBuilder` reaches that state as
  `pc = "panic"`.
- In the exchange and in the stake service, `WalletDropped` deletes only the cursor, and
  `initWallet` skips a pk that is already in `accounts`. So a wallet that is removed and added again
  is never fetched or indexed again (`exchange.go:268`, `stakeservice.go:488`).
- `genCmd` puts a PkgCreate's asset only into the package commitment. The asset is added neither
  to `ck` nor to `Zout_acms`, so `SignTx` succeeds when the inputs pay only the fee and the outputs
  (`sign.go:193`). `verifyPkg` counts a PkgCreate as a Z output, so either the built transaction
  fails the stateful balance check or the package's value is created from nothing.
- `fetchAndIndexUtxo` stores the cursors only when `batch.Write` succeeds, but returns
  `count = len(blocks)` either way (`exchange.go:986`). `fetchBlockInfo` then continues at
  `start+count`, so the blocks of a failed write are never indexed. `WalletExchange` with
  `WriteMayFail = TRUE` breaks `IndexMatchesChain` this way.
