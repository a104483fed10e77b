--------------------------- MODULE WalletExchange ---------------------------
(***************************************************************************)
(* The wallet's UTXO index (zero/wallet/exchange): a cron job that fetches *)
(* blocks and indexes the outputs and spent nils of the local accounts,    *)
(* the RPC calls that select outputs for a new transaction and lock them   *)
(* with a used flag, and the per-account balance cache.                   *)
(*                                                                         *)
(* Nothing is under a lock: the fetch job (fetchBlockInfo), every RPC call *)
(* and the wallet event loop (updateAccount) run concurrently over         *)
(* sync.Maps and the LevelDB database.  A LevelDB iterator sees the       *)
(* database as it was when the iterator was created.                      *)
(*                                                                         *)
(* An output is its root; its nil is identified with its root (the NIL    *)
(* keys of nil and root always go together).  Every output has value 1 of *)
(* one currency.  The chain is modelled from its effect on the wallet: a   *)
(* block is the set of outputs it creates and the set of roots it spends. *)
(***************************************************************************)
EXTENDS Naturals, FiniteSets, Sequences, FiniteSetsExt

CONSTANTS
  Pks,          \* account public keys
  Roots,        \* output roots, ordered as the index keys order them
  Owner,        \* Owner[r]: the account whose tk owns the output's PKr
  InitPks,      \* the wallets present when NewExchange runs
  At,           \* At[pk]: the account's creation block, w.Accounts()[0].At
  InitOuts,     \* the outputs of block 1
  Reqs,         \* RPC calls that generate a transaction
  ReqKinds,     \* which of GenTx ("gentx") and GenTxWithSign ("sign") they call
  AutoMerge,    \* NewExchange's autoMerge: whether the merge job is scheduled
  Merger,       \* the merge job, which runs Merge for one account at a time
  MergeLeft,    \* getMergeUtxos' left: outputs Merge leaves unmerged, plus one
  FetchCount,   \* fetchCount: blocks fetched per fetchAndIndexUtxo
  MaxBlocks,    \* bound on the chain length
  MaxAmount,    \* bound on the amount a transaction asks for
  WriteMayFail  \* whether the LevelDB batch write may fail

ASSUME Owner \in [Roots -> Pks] /\ InitPks \subseteq Pks /\ At \in [Pks -> Nat \ {0}]
ASSUME InitOuts \subseteq Roots /\ \A r \in InitOuts : At[Owner[r]] = 1
ASSUME FetchCount \in Nat \ {0} /\ WriteMayFail \in BOOLEAN
ASSUME ReqKinds \subseteq {"gentx", "sign"}
ASSUME AutoMerge \in BOOLEAN /\ Merger \notin Reqs /\ MergeLeft \in Nat \ {0}

NoNum == 0   \* numbers has no entry for the account

VARIABLES
  chain,     \* the blocks: <<[outs, nils]>>, block n at index n
  pool,      \* the transaction pool: the input sets of pending transactions
  present,   \* wallets the account manager holds
  accounts,  \* Exchange.accounts (never deleted)
  numbers,   \* Exchange.numbers: pk -> next block to index, or NoNum
  numDb,     \* the "NUM"+pk keys of the database
  idx,       \* roots with "PK"+pk+currency+root and "NIL" keys in the database
  ignored,   \* roots whose stored Utxo has Ignore set
  flags,     \* Exchange.usedFlag
  changed,   \* Account.isChanged
  cache,     \* Account.balances: the roots the cached balance counted
  fetch,     \* the state of the fetchBlockInfo job
  req        \* the state of each RPC call and of the merge job

vars == <<chain, pool, present, accounts, numbers, numDb, idx, ignored, flags,
          changed, cache, fetch, req>>

Spent == UNION {chain[n].nils : n \in DOMAIN chain}
OnChain == UNION {chain[n].outs : n \in DOMAIN chain}
Owned(pk) == {r \in Roots : Owner[r] = pk}
Numbered == {pk \in Pks : numbers[pk] # NoNum}

(* What the index should hold for pk once blocks 1 .. n-1 are indexed. *)
IndexedUpTo(pk, n) ==
  LET bs == {b \in DOMAIN chain : b < n}
  IN  (UNION {chain[b].outs : b \in bs} \ UNION {chain[b].nils : b \in bs}) \cap Owned(pk)

-----------------------------------------------------------------------------
(* initWallet: a new account starts at the stored NUM key or at At,       *)
(* whichever is larger; an account already in `accounts` is left alone.   *)
initWallet(pk) ==
  IF pk \in accounts THEN [accounts |-> accounts, numbers |-> numbers, changed |-> changed]
  ELSE [accounts |-> accounts \cup {pk},
        numbers |-> [numbers EXCEPT ![pk] = IF numDb[pk] > At[pk] THEN numDb[pk] ELSE At[pk]],
        changed |-> [changed EXCEPT ![pk] = TRUE]]

(* fetchBlockInfo: the accounts at the lowest number are fetched from     *)
(* there up to the next account's number, or fetchCount blocks.           *)
Plan(nums) ==
  LET orders == {nums[pk] : pk \in {p \in Pks : nums[p] # NoNum}}
      start == Min(orders)
  IN  [pc |-> "chunk", start |-> start,
       end |-> IF orders = {start} THEN start + FetchCount ELSE Min(orders \ {start}),
       keys |-> {pk \in Pks : nums[pk] = start}, batch |-> {}, last |-> 0,
       del |-> {}, want |-> 0]

Idle == [pc |-> "idle", start |-> 0, end |-> 0, keys |-> {}, batch |-> {}, last |-> 0,
         del |-> {}, want |-> 0]

(* Faulty variant of IndexBatch: a nil is looked up in this batch only. *)
IndexBatchBatchNilsOnly(from, to, keys) ==
  LET bs == {b \in DOMAIN chain : from <= b /\ b <= to}
      outs == UNION {chain[b].outs : b \in bs} \cap {r \in Roots : Owner[r] \in keys \cap accounts}
      nils == UNION {chain[b].nils : b \in bs} \cap outs
  IN  [idx |-> (idx \cup outs) \ nils, del |-> {}, touched |-> {Owner[r] : r \in outs}]

(* fetchAndIndexUtxo + indexBlocks for blocks from .. to: the outputs of  *)
(* the keys' accounts are added, and every nil found among them or in the *)
(* index is removed.  A nil found among this batch's outputs takes the    *)
(* branch of indexBlocks that slices the hex string, so its root does not *)
(* reach delRoots.                                                        *)
IndexBatch(from, to, keys) ==
  LET bs == {b \in DOMAIN chain : from <= b /\ b <= to}
      outs == UNION {chain[b].outs : b \in bs} \cap {r \in Roots : Owner[r] \in keys \cap accounts}
      nils == UNION {chain[b].nils : b \in bs} \cap (outs \cup idx)
  IN  [idx |-> (idx \cup outs) \ nils,
       del |-> nils \cap idx,
       touched |-> {Owner[r] : r \in outs \cup (nils \cap idx)}]

-----------------------------------------------------------------------------
Init ==
  /\ chain = << [outs |-> InitOuts, nils |-> {}] >>
  /\ pool = {}
  /\ present = InitPks
  /\ accounts = InitPks
  /\ numbers = [pk \in Pks |-> IF pk \in InitPks THEN At[pk] ELSE NoNum]
  /\ numDb = [pk \in Pks |-> 0]
  /\ idx = {}
  /\ ignored = {}
  /\ flags = {}
  /\ changed = [pk \in Pks |-> TRUE]
  /\ cache = [pk \in Pks |-> {}]
  /\ fetch = Idle
  /\ req = [q \in Reqs \cup {Merger} |-> [pc |-> "init", pk |-> CHOOSE pk \in Pks : TRUE,
                            amount |-> 0, kind |-> "none", snap |-> {}, ins |-> {}]]

(* A block is mined from pending transactions whose inputs are unspent   *)
(* and pairwise disjoint, and may pay one new output; transactions the   *)
(* block makes invalid leave the pool.  No account is paid before the    *)
(* block it was created at.                                               *)
Mine(T, ext) ==
  /\ Len(chain) < MaxBlocks
  /\ T \subseteq pool
  /\ \A t \in T : t \cap Spent = {}
  /\ \A t1, t2 \in T : t1 # t2 => t1 \cap t2 = {}
  /\ ext \subseteq Roots \ OnChain
  /\ \A r \in ext : At[Owner[r]] <= Len(chain) + 1
  /\ T # {} \/ ext # {}
  /\ LET spent == UNION T
     IN  /\ chain' = Append(chain, [outs |-> ext, nils |-> spent])
         /\ pool' = {t \in pool \ T : t \cap spent = {}}
  /\ UNCHANGED <<present, accounts, numbers, numDb, idx, ignored, flags, changed, cache, fetch, req>>

(* updateAccount, WalletArrived. *)
WalletArrived(pk) ==
  /\ pk \notin present
  /\ LET w == initWallet(pk)
     IN  /\ accounts' = w.accounts /\ numbers' = w.numbers /\ changed' = w.changed
  /\ present' = present \cup {pk}
  /\ UNCHANGED <<chain, pool, numDb, idx, ignored, flags, cache, fetch, req>>

(* updateAccount, WalletDropped: only the numbers entry is deleted. *)
WalletDropped(pk) ==
  /\ pk \in present
  /\ present' = present \ {pk}
  /\ numbers' = [numbers EXCEPT ![pk] = NoNum]
  /\ UNCHANGED <<chain, pool, accounts, numDb, idx, ignored, flags, changed, cache, fetch, req>>

(* The cron job fires fetchBlockInfo; it returns at once when no account *)
(* has a number.                                                          *)
FetchStart ==
  /\ fetch.pc = "idle"
  /\ Numbered # {}
  /\ fetch' = Plan(numbers)
  /\ UNCHANGED <<chain, pool, present, accounts, numbers, numDb, idx, ignored, flags, changed, cache, req>>

(* Faulty variants of the two definitions below. *)
NextNumIsLast(last) == last
LastFetchedAsAsked(start, count) == start + count - 1

(* GetBlocksInfo(start, count): the blocks that exist, up to count. *)
LastFetched(start, count) ==
  IF start + count - 1 <= Len(chain) THEN start + count - 1 ELSE Len(chain)

(* fetchAndIndexUtxo: num is one past the last block fetched. *)
NextNum(last) == last + 1

(* fetchAndIndexUtxo up to batch.Write: GetBlocksInfo, then indexBlocks, *)
(* which marks the touched accounts changed at once.  No block: return. *)
FetchIndex ==
  /\ fetch.pc = "chunk"
  /\ LET count == IF fetch.end - fetch.start < FetchCount THEN fetch.end - fetch.start
                  ELSE FetchCount
         last == LastFetched(fetch.start, count)
         b ==IndexBatch(fetch.start, last, fetch.keys)
     IN  IF last < fetch.start
           THEN /\ fetch' = Idle
                /\ UNCHANGED changed
           ELSE /\ changed' = [pk \in Pks |-> IF pk \in b.touched \cap accounts THEN TRUE
                                             ELSE changed[pk]]
                /\ fetch' = [fetch EXCEPT !.pc = "write", !.batch = b.idx, !.del = b.del,
                                          !.last = last, !.want = count]
  /\ UNCHANGED <<chain, pool, present, accounts, numbers, numDb, idx, ignored, flags, cache, req>>

(* GetBlocksInfo returns an error: fetchAndIndexUtxo returns 0. *)
FetchError ==
  /\ fetch.pc = "chunk"
  /\ fetch' = Idle
  /\ UNCHANGED <<chain, pool, present, accounts, numbers, numDb, idx, ignored, flags, changed, cache, req>>

(* batch.Write; numbers are stored only if it succeeded, the used flags  *)
(* of delRoots are deleted either way.  fetchBlockInfo then goes on with *)
(* start + count, or plans again, or returns if fewer blocks came back.  *)
FetchWrite(ok) ==
  /\ fetch.pc = "write"
  /\ LET count == fetch.last - fetch.start + 1
         num == NextNum(fetch.last)
         nums == IF ok THEN [pk \in Pks |-> IF pk \in fetch.keys THEN num ELSE numbers[pk]]
                 ELSE numbers
     IN  /\ idx' = IF ok THEN fetch.batch ELSE idx
         /\ numDb' = IF ok THEN [pk \in Pks |-> IF pk \in fetch.keys THEN num ELSE numDb[pk]]
                     ELSE numDb
         /\ numbers' = nums
         /\ fetch' = IF count < fetch.want THEN Idle
                     ELSE IF fetch.end > fetch.start + count
                       THEN [Idle EXCEPT !.pc = "chunk", !.start = fetch.start + count,
                                         !.end = fetch.end, !.keys = fetch.keys]
                     ELSE IF \A pk \in Pks : nums[pk] = NoNum THEN Idle
                     ELSE Plan(nums)
  /\ flags' = flags \ fetch.del
  /\ UNCHANGED <<chain, pool, present, accounts, ignored, changed, cache, req>>

(* findUtxos: the first outputs in key order, up to the amount. *)
FirstRoots(S, n) == {r \in S : Cardinality({x \in S : x < r}) < n}

(* GenTx / GenTxWithSign, SelectUtxos: the iterator over pk's index keys. *)
Begin(q, pk, amount, kind) ==
  /\ req[q].pc = "init"
  /\ pk \in accounts
  /\ req' = [req EXCEPT ![q] = [pc |-> "iter", pk |-> pk, amount |-> amount, kind |-> kind,
                                snap |-> idx \cap Owned(pk), ins |-> {}]]
  /\ UNCHANGED <<chain, pool, present, accounts, numbers, numDb, idx, ignored, flags, changed, cache, fetch>>

(* findUtxos over the iterator: getUtxo and the used flag are read now;  *)
(* ignored and used outputs are skipped.  Too few: SelectUtxos fails.    *)
Pick(q) ==
  /\ req[q].pc = "iter"
  /\ LET avail == (req[q].snap \ ignored) \ flags
     IN  req' = [req EXCEPT ![q].pc = IF Cardinality(avail) < req[q].amount THEN "done" ELSE "picked",
                            ![q].ins = FirstRoots(avail, req[q].amount)]
  /\ UNCHANGED <<chain, pool, present, accounts, numbers, numDb, idx, ignored, flags, changed, cache, fetch>>

(* buildTxParam: on success every input gets its used flag. *)
Build(q, ok) ==
  /\ req[q].pc = "picked"
  /\ req' = [req EXCEPT ![q].pc = IF ok THEN "built" ELSE "done"]
  /\ flags' = IF ok THEN flags \cup req[q].ins ELSE flags
  /\ UNCHANGED <<chain, pool, present, accounts, numbers, numDb, idx, ignored, changed, cache, fetch>>

(* GenTxWithSign and Merge: genTx signs (GetSeed or SignTx may fail),    *)
(* then the caller commits; each failure runs ClearTxParam.  GenTx: the *)
(* goes back to the client, who may send it or not; nothing is cleared. *)
Finish(q, ok) ==
  /\ req[q].pc = "built"
  /\ req' = [req EXCEPT ![q].pc = "done"]
  /\ pool' = IF ok THEN pool \cup {req[q].ins} ELSE pool
  /\ flags' = IF ~ok /\ req[q].kind \in {"sign", "merge"} THEN flags \ req[q].ins ELSE flags
  /\ UNCHANGED <<chain, present, accounts, numbers, numDb, idx, ignored, changed, cache, fetch>>

(* The merge job, RunJob guarded so that one run is in flight, calls     *)
(* Merge for an account; getMergeUtxos iterates pk's index keys.  The    *)
(* model lets the job run once.                                          *)
MergeBegin(pk) ==
  /\ AutoMerge
  /\ req[Merger].pc = "init"
  /\ pk \in accounts
  /\ req' = [req EXCEPT ![Merger] = [pc |-> "iter", pk |-> pk, amount |-> 0, kind |-> "merge",
                                     snap |-> idx \cap Owned(pk), ins |-> {}]]
  /\ UNCHANGED <<chain, pool, present, accounts, numbers, numDb, idx, ignored, flags, changed, cache, fetch>>

(* getMergeUtxos collects the unused, unignored outputs; with more than  *)
(* left of them, the sorted list less its last left-1 is merged.  All    *)
(* outputs have one value, so the unstable sort may keep out any of them. *)
MergeAvail == (req[Merger].snap \ ignored) \ flags

MergePick(ins) ==
  /\ req[Merger].pc = "iter"
  /\ Cardinality(MergeAvail) > MergeLeft
  /\ ins \subseteq MergeAvail
  /\ Cardinality(ins) = Cardinality(MergeAvail) - (MergeLeft - 1)
  /\ req' = [req EXCEPT ![Merger].pc = "picked", ![Merger].ins = ins]
  /\ UNCHANGED <<chain, pool, present, accounts, numbers, numDb, idx, ignored, flags, changed, cache, fetch>>

(* Merge returns an error without building: the account is locked, too   *)
(* few outputs are left to merge, or nextMergeTime has not come.         *)
MergeSkip ==
  /\ req[Merger].pc = "iter"
  /\ req' = [req EXCEPT ![Merger].pc = "done"]
  /\ UNCHANGED <<chain, pool, present, accounts, numbers, numDb, idx, ignored, flags, changed, cache, fetch>>

(* ClearUsedFlagForPK: the flags of every output in pk's index. *)
ClearUsedFlagForPK(pk) ==
  /\ pk \in accounts
  /\ flags \cap idx \cap Owned(pk) # {}
  /\ flags' = flags \ (idx \cap Owned(pk))
  /\ UNCHANGED <<chain, pool, present, accounts, numbers, numDb, idx, ignored, changed, cache, fetch, req>>

(* IgnorePkrUtxos: rewrite the account's outputs with Ignore set or not; *)
(* the account is marked changed only if the batch was written.          *)
IgnorePkrUtxos(pk, ignore, ok) ==
  /\ pk \in accounts
  /\ LET us == idx \cap Owned(pk)
     IN  /\ us # {}
         /\ ignored' = IF ~ok THEN ignored ELSE IF ignore THEN ignored \cup us ELSE ignored \ us
         /\ changed' = IF ok THEN [changed EXCEPT ![pk] = TRUE] ELSE changed
  /\ UNCHANGED <<chain, pool, present, accounts, numbers, numDb, idx, flags, cache, fetch, req>>

(* GetBalances: a changed account's balance is recomputed from the index *)
(* and cached, and isChanged is cleared.                                 *)
Balance(pk) == (idx \cap Owned(pk)) \ ignored

GetBalances(pk) ==
  /\ pk \in accounts
  /\ changed[pk]
  /\ cache' = [cache EXCEPT ![pk] = Balance(pk)]
  /\ changed' = [changed EXCEPT ![pk] = FALSE]
  /\ UNCHANGED <<chain, pool, present, accounts, numbers, numDb, idx, ignored, flags, fetch, req>>

WriteOutcomes == IF WriteMayFail THEN BOOLEAN ELSE {TRUE}

Next ==
  \/ \E T \in SUBSET pool, ext \in SUBSET Roots : Cardinality(ext) <= 1 /\ Mine(T, ext)
  \/ \E pk \in Pks : WalletArrived(pk) \/ WalletDropped(pk)
  \/ FetchStart \/ FetchIndex \/ FetchError
  \/ \E ok \in WriteOutcomes : FetchWrite(ok)
  \/ \E q \in Reqs :
       \/ \E pk \in Pks, a \in 1..MaxAmount, k \in ReqKinds : Begin(q, pk, a, k)
       \/ Pick(q)
  \/ \E q \in Reqs \cup {Merger} : \E ok \in BOOLEAN : Build(q, ok) \/ Finish(q, ok)
  \/ \E pk \in Pks : MergeBegin(pk)
  \/ \E ins \in SUBSET Roots : MergePick(ins)
  \/ MergeSkip
  \/ \E pk \in Pks :
       \/ ClearUsedFlagForPK(pk)
       \/ GetBalances(pk)
       \/ \E ign \in BOOLEAN, ok \in WriteOutcomes : IgnorePkrUtxos(pk, ign, ok)

(* The cron job fires every ten seconds and the job runs to its end:     *)
(* its steps are weakly fair; a GetBlocksInfo error does not recur       *)
(* forever, so a fetch that keeps being possible eventually succeeds.    *)
Fairness ==
  /\ WF_vars(FetchStart)
  /\ SF_vars(FetchIndex)
  /\ WF_vars(\E ok \in WriteOutcomes : FetchWrite(ok))

Spec == Init /\ [][Next]_vars /\ Fairness

-----------------------------------------------------------------------------
TypeOK ==
  /\ \A n \in DOMAIN chain : chain[n].outs \subseteq Roots /\ chain[n].nils \subseteq Roots
  /\ accounts \subseteq Pks /\ present \subseteq Pks
  /\ numbers \in [Pks -> 0..MaxBlocks + FetchCount]
  /\ idx \subseteq Roots /\ flags \subseteq Roots /\ ignored \subseteq Roots
  /\ changed \in [Pks -> BOOLEAN] /\ cache \in [Pks -> SUBSET Roots]
  /\ fetch.pc \in {"idle", "chunk", "write"}

(* fetchBlockInfo and indexBlocks keep the index exact: for every account *)
(* with a number n, the index holds exactly the account's outputs of      *)
(* blocks below n that no block below n spends, although accounts are     *)
(* fetched in groups, in chunks, and beside wallet events and RPC calls.  *)
IndexMatchesChain ==
  \A pk \in Numbered : idx \cap Owned(pk) = IndexedUpTo(pk, numbers[pk])

(* The fetch job catches every numbered account up with the chain: once  *)
(* the chain stops growing, every account keeps its number at the tip.   *)
CatchUp == <>[](\A pk \in Numbered : numbers[pk] >= Len(chain) + 1)

(* A balance GetBalances serves from the cache (isChanged false) is the *)
(* balance the index holds.                                              *)
BalanceCacheFresh ==
  \A pk \in accounts : ~changed[pk] => cache[pk] = Balance(pk)

(* The used flag keeps a transaction the wallet builds spendable: its   *)
(* inputs are unspent, and no two built or pending transactions share   *)
(* an input.                                                             *)
Built == {q \in DOMAIN req : req[q].pc = "built"}
BuiltTxSpendable ==
  /\ \A q \in Built : req[q].ins \cap Spent = {} /\ \A t \in pool : req[q].ins \cap t = {}
  /\ \A q1, q2 \in Built : q1 # q2 => req[q1].ins \cap req[q2].ins = {}
  /\ \A t1, t2 \in pool : t1 # t2 => t1 \cap t2 = {}

====
