----------------------------- MODULE LightNode -----------------------------
(***************************************************************************)
(* The light-wallet index (zero/wallet/light): a cron job (fetchBlockInfo) *)
(* that fetches blocks from the cursor on and writes, in one LevelDB       *)
(* batch, the outputs of every block under PKr keys, the spent nils under  *)
(* NIL keys and the new cursor under LIGHT_SYNC_NUM; and the RPC calls     *)
(* (GetOutsByPKr, GetPendingOuts) that read the cursor through            *)
(* getLastNumber.  getLastNumber caches the cursor in self.lastNumber and  *)
(* loads it from the database while the cache is 0.  Nothing is locked:   *)
(* an RPC's getLastNumber runs concurrently with the job.                 *)
(*                                                                         *)
(* An output is a model value with a fixed owner PKr; a nil is identified *)
(* with the output it spends.  TxInfo and the txpool bookkeeping          *)
(* (DelMaturedOuts) change nothing that this module states anything of.   *)
(***************************************************************************)
EXTENDS Integers, FiniteSets

CONSTANTS
  Outs,         \* outputs
  Pkrs,         \* one-time addresses
  PkrOf,        \* PkrOf[o]: out.State.OS.ToPKr()
  Blocks,       \* Blocks[n]: the outputs block n creates and the outputs its txs spend
  MaxBlocks,    \* bound on the chain length
  FetchCount,   \* fetchCount: blocks asked of GetBlocksInfo per run
  Readers,      \* RPC goroutines that call getLastNumber
  MaxCalls,     \* bound on getLastNumber calls per RPC goroutine
  MaxRestarts,  \* bound on node restarts
  WriteMayFail  \* whether batch.Write may fail

ASSUME PkrOf \in [Outs -> Pkrs]
ASSUME Blocks \in [1..MaxBlocks -> [outs : SUBSET Outs, ins : SUBSET Outs]]
ASSUME FetchCount \in Nat \ {0} /\ MaxCalls \in Nat /\ MaxRestarts \in Nat
ASSUME WriteMayFail \in BOOLEAN

NoKey == -1   \* db.Get(numKey()) returns an error: the key is absent

VARIABLES
  head,        \* the chain's last block
  lastNumber,  \* LightNode.lastNumber (memory, 0 after a restart)
  numDb,       \* the LIGHT_SYNC_NUM key
  pkrDb,       \* the PKr keys: a set of [pkr, num, outs]
  nilDb,       \* the NIL keys: a set of <<nil, block number>>
  job,         \* fetchBlockInfo in progress: its start, last and batch
  rpc,         \* rpc[r]: an RPC goroutine inside getLastNumber
  restarts     \* restarts so far

vars == <<head, lastNumber, numDb, pkrDb, nilDb, job, rpc, restarts>>

Idle == [pc |-> "idle", start |-> 0, last |-> 0, pkrs |-> {}, nils |-> {}]
RpcIdle(calls) == [pc |-> "idle", val |-> 0, calls |-> calls]

(* getLastNumber run without interruption: the value it returns, and the  *)
(* cache and the NUM key it leaves.  An absent key is put to 0 and 0 is   *)
(* returned with the cache left at 0.                                     *)
getLastNumber(ln, db) ==
  IF ln # 0 THEN [ret |-> ln, ln |-> ln, db |-> db]
  ELSE IF db = NoKey THEN [ret |-> 0, ln |-> 0, db |-> 0]
  ELSE [ret |-> db, ln |-> db, db |-> db]

(* The cursor every caller of getLastNumber is served, CurrentNum of     *)
(* GetOutsByPKr's answer.                                                 *)
CurrentNum == getLastNumber(lastNumber, numDb).ret

(* The puts of one block: one PKr key per PKr holding all its outputs of *)
(* the block (pkrMap), one NIL key per spent nil.                        *)
PkrPuts(n) ==
  {[pkr |-> p, num |-> n, outs |-> {o \in Blocks[n].outs : PkrOf[o] = p}] :
     p \in {PkrOf[o] : o \in Blocks[n].outs}}
NilPuts(n) == {<<o, n>> : o \in Blocks[n].ins}

(* batch.Put of a PKr key replaces the value stored under (pkr, num). *)
PutPkrs(db, puts) ==
  {e \in db : \A x \in puts : <<x.pkr, x.num>> # <<e.pkr, e.num>>} \cup puts
PutNils(db, puts) ==
  {e \in db : \A x \in puts : x[1] # e[1]} \cup puts

(* Mutant: the cursor always moves by fetchCount. *)
LastAfterFetchCount(start, count) == start + FetchCount

(* fetchBlockInfo's new cursor: start + count, or start + fetchCount. *)
LastAfter(start, count) ==
  IF count < FetchCount THEN start + count ELSE start + FetchCount

(* GetBlocksInfo(start+1, fetchCount): the blocks after the cursor, at    *)
(* most fetchCount of them and none past the head.                        *)
Fetched(start) ==
  {n \in 1..head : start + 1 <= n /\ n <= start + FetchCount}

Init ==
  /\ head = 1
  /\ lastNumber = 0
  /\ numDb = NoKey
  /\ pkrDb = {}
  /\ nilDb = {}
  /\ job = Idle
  /\ rpc = [r \in Readers |-> RpcIdle(0)]
  /\ restarts = 0

NewHead ==
  /\ head < MaxBlocks
  /\ head' = head + 1
  /\ UNCHANGED <<lastNumber, numDb, pkrDb, nilDb, job, rpc, restarts>>

(* Mutant: a run that gets fewer than fetchCount blocks returns. *)
LightStartFullOnly ==
  /\ job.pc = "idle"
  /\ LET g == getLastNumber(lastNumber, numDb)
         bs == Fetched(g.ret)
         count == Cardinality(bs)
     IN  /\ lastNumber' = g.ln
         /\ numDb' = g.db
         /\ job' = IF count < FetchCount THEN Idle
                   ELSE [pc |-> "write", start |-> g.ret,
                         last |-> LastAfter(g.ret, count),
                         pkrs |-> UNION {PkrPuts(n) : n \in bs},
                         nils |-> UNION {NilPuts(n) : n \in bs}]
  /\ UNCHANGED <<head, pkrDb, nilDb, rpc, restarts>>

(* fetchBlockInfo up to batch.Write: getLastNumber, GetBlocksInfo, and   *)
(* the loop that fills the batch.  No block: return.                     *)
LightStart ==
  /\ job.pc = "idle"
  /\ LET g == getLastNumber(lastNumber, numDb)
         bs == Fetched(g.ret)
         count == Cardinality(bs)
     IN  /\ lastNumber' = g.ln
         /\ numDb' = g.db
         /\ job' = IF count = 0 THEN Idle
                   ELSE [pc |-> "write", start |-> g.ret,
                         last |-> LastAfter(g.ret, count),
                         pkrs |-> UNION {PkrPuts(n) : n \in bs},
                         nils |-> UNION {NilPuts(n) : n \in bs}]
  /\ UNCHANGED <<head, pkrDb, nilDb, rpc, restarts>>

(* GetBlocksInfo returns an error and no block: the run ends after       *)
(* getLastNumber.                                                         *)
LightFetchError ==
  /\ job.pc = "idle"
  /\ LET g == getLastNumber(lastNumber, numDb)
     IN  /\ lastNumber' = g.ln
         /\ numDb' = g.db
  /\ UNCHANGED <<head, pkrDb, nilDb, job, rpc, restarts>>

(* Mutant: the cursor is stored as the next block to fetch. *)
LightWriteNextBlock(ok) ==
  /\ job.pc = "write"
  /\ IF ok THEN /\ pkrDb' = PutPkrs(pkrDb, job.pkrs)
                /\ nilDb' = PutNils(nilDb, job.nils)
                /\ numDb' = job.last + 1
                /\ lastNumber' = job.last + 1
           ELSE UNCHANGED <<pkrDb, nilDb, numDb, lastNumber>>
  /\ job' = Idle
  /\ UNCHANGED <<head, rpc, restarts>>

(* batch.Put(numKey(), lastNumber); batch.Write(); the cache is set only *)
(* if the write succeeded.                                                *)
LightWrite(ok) ==
  /\ job.pc = "write"
  /\ IF ok THEN /\ pkrDb' = PutPkrs(pkrDb, job.pkrs)
                /\ nilDb' = PutNils(nilDb, job.nils)
                /\ numDb' = job.last
                /\ lastNumber' = job.last
           ELSE UNCHANGED <<pkrDb, nilDb, numDb, lastNumber>>
  /\ job' = Idle
  /\ UNCHANGED <<head, rpc, restarts>>

WriteOutcomes == IF WriteMayFail THEN BOOLEAN ELSE {TRUE}

(* An RPC goroutine enters getLastNumber: a cache that is not 0 is      *)
(* returned at once; otherwise db.Get(numKey()).                         *)
GLNRead(r) ==
  /\ rpc[r].pc = "idle"
  /\ rpc[r].calls < MaxCalls
  /\ rpc' = [rpc EXCEPT ![r] =
               CASE lastNumber # 0 -> RpcIdle(@.calls + 1)
                 [] numDb = NoKey  -> [pc |-> "put0", val |-> 0, calls |-> @.calls]
                 [] OTHER          -> [pc |-> "got", val |-> numDb, calls |-> @.calls]]
  /\ UNCHANGED <<head, lastNumber, numDb, pkrDb, nilDb, job, restarts>>

(* The key was absent: self.db.Put(numKey(), 0); return 0. *)
GLNPut0(r) ==
  /\ rpc[r].pc = "put0"
  /\ numDb' = 0
  /\ rpc' = [rpc EXCEPT ![r] = RpcIdle(@.calls + 1)]
  /\ UNCHANGED <<head, lastNumber, pkrDb, nilDb, job, restarts>>

(* self.lastNumber = bytesToUint64(value); if that is 0 it is put back   *)
(* to the database as 0.                                                  *)
GLNSet(r) ==
  /\ rpc[r].pc = "got"
  /\ lastNumber' = rpc[r].val
  /\ numDb' = IF rpc[r].val = 0 THEN 0 ELSE numDb
  /\ rpc' = [rpc EXCEPT ![r] = RpcIdle(@.calls + 1)]
  /\ UNCHANGED <<head, pkrDb, nilDb, job, restarts>>

(* The node stops and NewLightNode starts again: the cache is 0, the job *)
(* and the RPC calls in progress are gone, LevelDB keeps what was written.*)
Restart ==
  /\ restarts < MaxRestarts
  /\ restarts' = restarts + 1
  /\ lastNumber' = 0
  /\ job' = Idle
  /\ rpc' = [r \in Readers |-> RpcIdle(rpc[r].calls)]
  /\ UNCHANGED <<head, numDb, pkrDb, nilDb>>

Next ==
  \/ NewHead
  \/ LightStart \/ LightFetchError
  \/ \E ok \in WriteOutcomes : LightWrite(ok)
  \/ \E r \in Readers : GLNRead(r) \/ GLNPut0(r) \/ GLNSet(r)
  \/ Restart

(* The cron job fires every ten seconds and RunJob.Run runs the job to   *)
(* its end, so its steps are weakly fair; a failing LevelDB write does   *)
(* not recur forever.  Nothing is assumed of the RPC calls.              *)
Fairness ==
  /\ WF_vars(LightStart)
  /\ WF_vars(\E ok \in WriteOutcomes : LightWrite(ok))
  /\ SF_vars(LightWrite(TRUE))

Spec == Init /\ [][Next]_vars /\ Fairness

(* GetOutsByPKr: the PKr keys of pkr from start on, up to end, or up to  *)
(* the cursor when end is 0.                                              *)
GetOutsByPKr(p, start, end) ==
  LET e == IF end = 0 THEN CurrentNum ELSE end
  IN  {[num |-> x.num, outs |-> x.outs] :
         x \in {y \in pkrDb : y.pkr = p /\ start <= y.num /\ y.num <= e}}

(* CheckNil: the NIL keys of the given nils with their block numbers. *)
CheckNil(nils) == {x \in nilDb : x[1] \in nils}

-----------------------------------------------------------------------------
TypeOK ==
  /\ head \in 1..MaxBlocks
  /\ lastNumber \in 0..MaxBlocks
  /\ numDb \in {NoKey} \cup 0..MaxBlocks
  /\ job.pc \in {"idle", "write"}
  /\ \A r \in Readers : rpc[r].pc \in {"idle", "put0", "got"} /\ rpc[r].calls \in 0..MaxCalls

(* What the RPC calls serve is the chain up to the cursor they are told: *)
(* GetOutsByPKr(pkr, 0, 0) returns, for every block up to CurrentNum,    *)
(* exactly the outputs of pkr in it, and CheckNil finds every nil spent   *)
(* up to CurrentNum, each under its block and none that was not spent.    *)
(* This is about fetchBlockInfo's cursor arithmetic (start + count), the *)
(* failed-write path, restarts, and getLastNumber's loads and puts racing *)
(* the job.                                                                *)
IndexServesChain ==
  /\ CurrentNum <= head
  /\ \A p \in Pkrs :
       GetOutsByPKr(p, 0, 0) =
         {[num |-> n, outs |-> {o \in Blocks[n].outs : PkrOf[o] = p}] :
            n \in {m \in 1..CurrentNum : \E o \in Blocks[m].outs : PkrOf[o] = p}}
  /\ \A n \in 1..CurrentNum : \A o \in Blocks[n].ins : <<o, n>> \in CheckNil({o})
  /\ \A x \in nilDb : x[2] <= head /\ x[1] \in Blocks[x[2]].ins

(* The light index eventually serves the whole chain. *)
LightCatchUp == <>[](CurrentNum = head)

(* The cursor the RPC calls are served never goes back: an output or nil *)
(* once served up to CurrentNum stays served.  getLastNumber, called     *)
(* from an RPC while the cache is 0, writes the cache and the key from a  *)
(* value it read before the job's batch.Write.                            *)
CursorMonotonic == [][CurrentNum' >= CurrentNum]_vars
====
