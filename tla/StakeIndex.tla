----------------------------- MODULE StakeIndex -----------------------------
(***************************************************************************)
(* The wallet's stake index (zero/wallet/stakeservice): a cron job,        *)
(* stakeIndex, reads the share records of confirmed blocks and keeps, for  *)
(* every PKr and for every local account, a SharesInfo summary of the      *)
(* shares it owns.  The wallet event loop (updateAccount) adds accounts    *)
(* and deletes their block cursor concurrently.                            *)
(*                                                                         *)
(* A share record is the state of one share as a block left it: its id,   *)
(* its PKr, the tickets bought (init), the tickets left (num), the missed *)
(* votes (will), its status and its profit.  TotalAmount and the          *)
(* LastPayTime corrections, which read share snapshots through stake code *)
(* that is not in src, are left out.                                       *)
(***************************************************************************)
EXTENDS Integers, Sequences, FiniteSets, SequencesExt

CONSTANTS
  Pks,          \* account public keys
  Pkrs,         \* the PKrs shares are bought for
  Ids,          \* share ids
  PkrOwner,     \* PkrOwner[p]: the account whose tk owns p, or NoPk
  NoPk,
  InitPks,      \* the wallets present when NewStakeService runs
  At,           \* At[pk]: the account's creation block
  Records,      \* Records[b]: the share records of block b, in the order GetBlockRecords returns
  MaxBlocks,    \* blocks with records
  Confirmed,    \* deceparam.DefaultConfirmedBlock()
  MaxPerRun,    \* the 10000-block cap of one stakeIndex run
  WriteMayFail, \* whether the LevelDB batch write may fail
  Uint32Mod     \* the modulus of uint32 arithmetic (TLC's integers are 32 bit: a
                \* smaller power of two, far above every counter of the model)

Statuses == {"valid", "outofdate", "finished"}
Share == [id : Ids, pkr : Pkrs, init : Nat, num : Nat, will : Nat, status : Statuses, profit : Int]

ASSUME PkrOwner \in [Pkrs -> Pks \cup {NoPk}] /\ NoPk \notin Pks
ASSUME InitPks \subseteq Pks /\ At \in [Pks -> Nat \ {0}]
ASSUME Records \in [1..MaxBlocks -> Seq(Share)]
ASSUME MaxPerRun \in Nat \ {0} /\ Confirmed \in Nat /\ WriteMayFail \in BOOLEAN

NoNum == 0          \* numbers has no entry for the account
NoShare == [absent |-> "share"]   \* ShareDB has no object for the id
NoInfo == [absent |-> "info"]     \* the PKRINFO / PKINFO key is absent

(* A new SharesInfo: zero counters, no ids, zero Profit. *)
EmptyInfo == [total |-> 0, remaining |-> 0, missed |-> 0, expired |-> 0, ids |-> {}, profit |-> 0]

VARIABLES
  head,      \* bc.CurrentHeader().Number
  present,   \* wallets the account manager holds
  accounts,  \* StakeService.accounts (never deleted)
  numbers,   \* StakeService.numbers: pk -> next block to index, or NoNum
  numDb,     \* the "NUM"+pk keys
  pkrInfo,   \* the PKRINFO keys: pkr -> SharesInfo
  pkInfo,    \* the PKINFO keys: pk -> SharesInfo
  sdb,       \* the SHARE keys: id -> the share as last indexed
  job,       \* the stakeIndex run: idle, or its batch before Write
  indexed    \* history: the block cursor of the last batch written

vars == <<head, present, accounts, numbers, numDb, pkrInfo, pkInfo, sdb, job, indexed>>

Numbered == {pk \in Pks : numbers[pk] # NoNum}

-----------------------------------------------------------------------------
(* uint32 subtraction, as SharesInfo's counters and Share.Num are uint32. *)
Sub32(a, b) == (a - b) % Uint32Mod

(* Faulty variant of UpdSeen: an expiring share's tickets stay in       *)
(* Remaining.                                                             *)
UpdSeenKeepsRemaining(info, old, s) ==
  LET expire == old.status = "valid" /\ s.status = "outofdate"
  IN  [info EXCEPT !.missed = IF s.will >= old.will THEN @ + (s.will - old.will) ELSE @,
                   !.expired = IF expire THEN @ + s.num ELSE @,
                   !.profit = @ + (s.profit - old.profit)]

(* updateSharesInfo for a share seen before (oldShare): the differences   *)
(* are applied, each decrease only if the counter covers it.             *)
UpdSeen(info, old, s) ==
  LET missed == IF s.will > old.will THEN info.missed + (s.will - old.will)
                ELSE IF s.will < old.will /\ info.missed >= old.will - s.will
                  THEN info.missed - (old.will - s.will)
                ELSE info.missed
      rem1 == IF old.status = "valid" /\ info.remaining >= Sub32(old.num, s.num)
                THEN info.remaining - Sub32(old.num, s.num) ELSE info.remaining
      expire == old.status = "valid" /\ s.status = "outofdate"
      rem2 == IF expire /\ rem1 >= s.num THEN rem1 - s.num ELSE rem1
  IN  [info EXCEPT !.missed = missed, !.remaining = rem2,
                   !.expired = IF expire THEN @ + s.num ELSE @,
                   !.profit = @ + (s.profit - old.profit)]

(* updateSharesInfo for a share not seen before. *)
UpdNew(info, s) ==
  [info EXCEPT !.ids = @ \cup {s.id}, !.total = @ + s.init,
               !.remaining = IF s.status = "valid" THEN @ + s.num ELSE @,
               !.expired = IF s.status = "valid" THEN @ ELSE @ + s.num,
               !.missed = @ + s.will, !.profit = @ + s.profit]

(* updateSharesInfo: a finished share leaves ShareIds. *)
updateSharesInfo(info, old, s) ==
  LET i == IF old = NoShare THEN UpdNew(info, s) ELSE UpdSeen(info, old, s)
  IN  IF s.status = "finished" THEN [i EXCEPT !.ids = @ \ {s.id}] ELSE i

(* getStakeInfoByPKr / getStakeInfoByPK: an absent key starts empty. *)
InfoOf(x) == IF x = NoInfo THEN EmptyInfo ELSE x

(* stakeIndex's first loop for one share record: indexStakeInfoByPKr,    *)
(* indexStakeInfoByPK when ownPkr finds the account, then sharesCache.   *)
(* st holds the pending PKr infos, PK infos and shares of the batch.     *)
IndexShare(accts, st, s) ==
  LET old == st.sdb[s.id]
      pk == PkrOwner[s.pkr]
  IN  [pkr |-> [st.pkr EXCEPT ![s.pkr] = updateSharesInfo(InfoOf(@), old, s)],
       pk |-> IF pk \in accts
                THEN [st.pk EXCEPT ![pk] = updateSharesInfo(InfoOf(@), old, s)]
                ELSE st.pk,
       sdb |-> [st.sdb EXCEPT ![s.id] = s]]

(* The share records of blocks from .. to-1, in order. *)
RecordsOf(from, to) == FlattenSeq([i \in 1..(to - from) |-> Records[from + i - 1]])

(* Faulty variant of IndexEnd: the loop stops one block short. *)
IndexEndStrict(start) ==
  IF start + Confirmed >= head THEN start
  ELSE IF head - Confirmed < start + MaxPerRun THEN head - Confirmed
  ELSE start + MaxPerRun

(* The loop bound: blocks are indexed while blocNumber + confirmations   *)
(* <= head, and at most MaxPerRun of them in one run.                    *)
IndexEnd(start) ==
  IF start + Confirmed > head THEN start
  ELSE IF head - Confirmed + 1 < start + MaxPerRun THEN head - Confirmed + 1
  ELSE start + MaxPerRun

MinNum(S) == CHOOSE n \in S : \A m \in S : n <= m

IdleJob == [pc |-> "idle", end |-> 0, rs |-> << >>, pos |-> 0, pkr |-> [p \in Pkrs |-> NoInfo],
            pk |-> [pk \in Pks |-> NoInfo], sdb |-> [id \in Ids |-> NoShare]]

(* initWallet: a new account starts at the stored NUM key or at At,       *)
(* whichever is larger; an account already in `accounts` is left alone.   *)
initWallet(pk) ==
  IF pk \in accounts THEN [accounts |-> accounts, numbers |-> numbers]
  ELSE [accounts |-> accounts \cup {pk},
        numbers |-> [numbers EXCEPT ![pk] = IF numDb[pk] < At[pk] THEN At[pk] ELSE numDb[pk]]]

-----------------------------------------------------------------------------
Init ==
  /\ head = 1
  /\ present = InitPks
  /\ accounts = InitPks
  /\ numbers = [pk \in Pks |-> IF pk \in InitPks THEN At[pk] ELSE NoNum]
  /\ numDb = [pk \in Pks |-> 0]
  /\ pkrInfo = [p \in Pkrs |-> NoInfo]
  /\ pkInfo = [pk \in Pks |-> NoInfo]
  /\ sdb = [id \in Ids |-> NoShare]
  /\ job = IdleJob
  /\ indexed = 0

(* A new block is imported. *)
NewHead ==
  /\ head < MaxBlocks + Confirmed
  /\ head' = head + 1
  /\ UNCHANGED <<present, accounts, numbers, numDb, pkrInfo, pkInfo, sdb, job, indexed>>

(* updateAccount, WalletArrived. *)
WalletArrived(pk) ==
  /\ pk \notin present
  /\ LET w == initWallet(pk)
     IN  accounts' = w.accounts /\ numbers' = w.numbers
  /\ present' = present \cup {pk}
  /\ UNCHANGED <<head, numDb, pkrInfo, pkInfo, sdb, job, indexed>>

(* updateAccount, WalletDropped: only the numbers entry is deleted. *)
WalletDropped(pk) ==
  /\ pk \in present
  /\ present' = present \ {pk}
  /\ numbers' = [numbers EXCEPT ![pk] = NoNum]
  /\ UNCHANGED <<head, accounts, numDb, pkrInfo, pkInfo, sdb, job, indexed>>

(* stakeIndex starts: start is the lowest number, and the records of the *)
(* confirmed blocks from start are to be read.  When no block is         *)
(* confirmed (blocNumber = start) the run returns unchanged.             *)
IndexRun ==
  /\ job.pc = "idle"
  /\ Numbered # {}
  /\ LET start == MinNum({numbers[pk] : pk \in Numbered})
         end == IndexEnd(start)
         rs == RecordsOf(start, end)
     IN  /\ end > start
         /\ job' = [pc |-> IF rs = << >> THEN "write" ELSE "loop", end |-> end, rs |-> rs,
                    pos |-> 0, pkr |-> pkrInfo, pk |-> pkInfo, sdb |-> sdb]
  /\ UNCHANGED <<head, present, accounts, numbers, numDb, pkrInfo, pkInfo, sdb, indexed>>

(* One share record of the loop; ownPkr reads the accounts as they are now. *)
IndexStep ==
  /\ job.pc = "loop"
  /\ LET st == IndexShare(accounts, job, job.rs[job.pos + 1])
     IN  job' = [job EXCEPT !.pos = @ + 1, !.pkr = st.pkr, !.pk = st.pk, !.sdb = st.sdb,
                            !.pc = IF job.pos + 1 = Len(job.rs) THEN "write" ELSE "loop"]
  /\ UNCHANGED <<head, present, accounts, numbers, numDb, pkrInfo, pkInfo, sdb, indexed>>

(* Faulty variant of IndexWrite: the cursor is stored one past blocNumber. *)
IndexWriteSkipsBlock(ok) ==
  /\ job.pc = "write"
  /\ job' = IdleJob
  /\ IF ok
       THEN /\ pkrInfo' = job.pkr /\ pkInfo' = job.pk /\ sdb' = job.sdb
            /\ numbers' = [pk \in Pks |-> IF pk \in Numbered THEN job.end + 1 ELSE NoNum]
            /\ numDb' = [pk \in Pks |-> IF pk \in Numbered THEN job.end + 1 ELSE numDb[pk]]
            /\ indexed' = job.end + 1
       ELSE UNCHANGED <<pkrInfo, pkInfo, sdb, numbers, numDb, indexed>>
  /\ UNCHANGED <<head, present, accounts>>

(* batch.Write with the NUM keys of the accounts numbered now; numbers   *)
(* are stored only if the write succeeded.                               *)
IndexWrite(ok) ==
  /\ job.pc = "write"
  /\ job' = IdleJob
  /\ IF ok
       THEN /\ pkrInfo' = job.pkr /\ pkInfo' = job.pk /\ sdb' = job.sdb
            /\ numbers' = [pk \in Pks |-> IF pk \in Numbered THEN job.end ELSE NoNum]
            /\ numDb' = [pk \in Pks |-> IF pk \in Numbered THEN job.end ELSE numDb[pk]]
            /\ indexed' = job.end
       ELSE UNCHANGED <<pkrInfo, pkInfo, sdb, numbers, numDb, indexed>>
  /\ UNCHANGED <<head, present, accounts>>

WriteOutcomes == IF WriteMayFail THEN BOOLEAN ELSE {TRUE}

Next ==
  \/ NewHead
  \/ \E pk \in Pks : WalletArrived(pk) \/ WalletDropped(pk)
  \/ IndexRun \/ IndexStep
  \/ \E ok \in WriteOutcomes : IndexWrite(ok)

(* The cron job fires every ten seconds and runs to its end. *)
Fairness == WF_vars(IndexRun) /\ WF_vars(IndexStep) /\ WF_vars(\E ok \in WriteOutcomes : IndexWrite(ok))

Spec == Init /\ [][Next]_vars /\ Fairness

-----------------------------------------------------------------------------
TypeOK ==
  /\ head \in 1..MaxBlocks + Confirmed
  /\ accounts \subseteq Pks /\ present \subseteq Pks
  /\ numbers \in [Pks -> 0..MaxBlocks + 1]
  /\ indexed \in 0..MaxBlocks + 1
  /\ job.pc \in {"idle", "loop", "write"}

(* What one in-order pass over blocks 1 .. n-1 makes of the shares of the *)
(* PKrs P: each share counted once, at its last record.                   *)
Expected(P, n) ==
  LET rs == RecordsOf(1, n)
      ids == {rs[i].id : i \in {j \in DOMAIN rs : rs[j].pkr \in P}}
      L(id) == rs[SelectLastInSeq(rs, LAMBDA r : r.id = id)]
      Tot(F(_)) == MapThenSumSet(F, ids)
  IN  IF ids = {} THEN NoInfo
      ELSE [total |-> Tot(LAMBDA id : L(id).init),
            remaining |-> Tot(LAMBDA id : IF L(id).status = "valid" THEN L(id).num ELSE 0),
            missed |-> Tot(LAMBDA id : L(id).will),
            expired |-> Tot(LAMBDA id : IF L(id).status = "outofdate" THEN L(id).num ELSE 0),
            ids |-> {id \in ids : L(id).status # "finished"},
            profit |-> Tot(LAMBDA id : L(id).profit)]

(* StakeService.SharesInfoByPkr / SharesInfoByPk: the SharesInfo stored *)
(* under the PKRINFO / PKINFO key, or nil when the key is absent.         *)
SharesInfoByPkr(p) == pkrInfo[p]
SharesInfoByPk(pk) == pkInfo[pk]

(* The stored SharesInfo of every PKr, and of every local account, is    *)
(* what one in-order pass over the indexed blocks gives: stakeIndex      *)
(* neither skips nor repeats a share record, for any account.            *)
StakeInfoExact ==
  /\ \A p \in Pkrs : SharesInfoByPkr(p) = Expected({p}, indexed)
  /\ \A pk \in accounts : SharesInfoByPk(pk) = Expected({p \in Pkrs : PkrOwner[p] = pk}, indexed)

(* The job catches every numbered account up with the confirmed blocks. *)
IndexCatchUp == <>[](\A pk \in Numbered : numbers[pk] >= head - Confirmed + 1)


====
