----------------------------- MODULE TxVerifier -----------------------------
(***************************************************************************)
(* The stateless transaction verifier: verify_1.VerifyWithoutState        *)
(* (verify_static.go, verify_proof.go).  verify() first hands every zero-  *)
(* knowledge proof of the transaction to a worker pool (one per proof      *)
(* kind: In_C, Out_C, PkgCreate), then runs the cheap checks in a fixed    *)
(* order, returning at the first failure, and only then waits for the      *)
(* proofs, pool by pool.  The deferred clear() gives the pools back.       *)
(*                                                                         *)
(* The crypto oracle is abstract: a transaction is described by which of  *)
(* its cheap checks fail (faults), its list lengths, and which of its      *)
(* proofs do not verify (bad).  utils.Procs is not in src; it is modelled  *)
(* from the spec (4.4, 5): at most ThreadNum proof checks of a pool run at *)
(* once, End waits for every check handed to the pool and reports a        *)
(* failure, and a batch given back before End is discarded: the checks    *)
(* still queued never run, a running check finishes unobserved.            *)
(***************************************************************************)
EXTENDS Integers, Sequences, FiniteSets

CONSTANTS
  Txs,        \* the transactions VerifyWithoutState may be called with
  ThreadNum,  \* zconfig.G_v_thread_num: workers per pool
  MaxOut      \* deceparam.MAX_Z_OUT_LENGTH_SIP2

ASSUME ThreadNum \in Nat \ {0} /\ MaxOut \in Nat

(* The proof kinds, in the order WaitVerifyProof ends their pools, and *)
(* the stage of verify() waiting on each.                               *)
Kinds == <<"cin", "cout", "pkg">>
WaitStage == <<"waitcin", "waitcout", "waitpkg">>

(* Mutant: a PkgCreate's proof is never handed to its pool. *)
TasksNoPkg(t) ==
  {<<"cin", i>> : i \in 1..t.nInsC} \cup {<<"cout", i>> : i \in 1..t.nOutsC}

(* ProcessVerifyProof: one task per In_C, one per Out_C, one for a       *)
(* PkgCreate.                                                              *)
Tasks(t) ==
  {<<"cin", i>> : i \in 1..t.nInsC} \cup {<<"cout", i>> : i \in 1..t.nOutsC}
    \cup (IF t.create THEN {<<"pkg", 1>>} ELSE {})

VARIABLES
  tx,      \* the stx.T being verified
  vpc,     \* the check verify() is at, or done
  cnt,     \* oout_count, oin_count, zout_count, zin_count
  task,    \* task[k]: a proof check and where it is in its pool
  result   \* what verify() returned: "ok" or the failing check

vars == <<tx, vpc, cnt, task, result>>

-----------------------------------------------------------------------------
(* Tx1.Count() > 0: the transaction has inputs or outputs. *)
HasInsOuts(t) == t.nInsP + t.nInsC + t.nOutsP + t.nOutsC > 0

(* The proof checks of one pool, and those of it running now. *)
PoolOf(k) == {x \in DOMAIN task : x[1] = k}
Running(k) == {x \in PoolOf(k) : task[x] = "running"}

(* return e: the deferred clear() gives the pools back, which discards   *)
(* the checks not yet started.                                            *)
Finish(e) ==
  /\ result' = e
  /\ vpc' = "done"
  /\ task' = [x \in DOMAIN task |-> IF task[x] \in {"new", "queued"} THEN "dropped" ELSE task[x]]
  /\ UNCHANGED <<tx, cnt>>

(* A check that passes adds to the counters and moves to the next one. *)
Pass(next, c) ==
  /\ vpc' = next
  /\ cnt' = c
  /\ UNCHANGED <<tx, task, result>>

Init ==
  /\ tx \in Txs
  /\ vpc = "ehash"
  /\ cnt = [oout |-> 0, oin |-> 0, zout |-> 0, zin |-> 0]
  /\ task = [x \in Tasks(tx) |-> "new"]
  /\ result = "none"

(* VerifyWithoutState: a transaction whose Ehash is not the expected *)
(* one is refused before verify() takes any pool.                     *)
VerifyEhash ==
  /\ vpc = "ehash"
  /\ IF "ehash" \in tx.faults
       THEN /\ result' = "ehash" /\ vpc' = "done" /\ UNCHANGED <<tx, cnt, task>>
       ELSE /\ vpc' = "prepare" /\ UNCHANGED <<tx, cnt, task, result>>

(* prepare (GetProcs) and ProcessVerifyProof: every proof is handed to *)
(* its pool.                                                            *)
Dispatch ==
  /\ vpc = "prepare"
  /\ task' = [x \in DOMAIN task |-> "queued"]
  /\ vpc' = "fee"
  /\ UNCHANGED <<tx, cnt, result>>

VerifyFee ==
  /\ vpc = "fee"
  /\ IF "fee" \in tx.faults THEN Finish("fee")
     ELSE Pass("from", [cnt EXCEPT !.oout = @ + 1])

VerifyFrom ==
  /\ vpc = "from"
  /\ IF "from" \in tx.faults THEN Finish("from") ELSE Pass("pkg", cnt)

(* verifyPkg: a package command and a command together are refused; a   *)
(* PkgCreate counts as a Z output, a PkgClose as a Z input.              *)
VerifyPkg ==
  /\ vpc = "pkg"
  /\ CASE tx.both                 -> Finish("pkgcmd")
       [] "pkgdesc" \in tx.faults -> Finish("pkgdesc")
       [] OTHER -> Pass("cmd", [cnt EXCEPT !.zout = @ + (IF tx.create THEN 1 ELSE 0),
                                           !.zin = @ + (IF tx.close THEN 1 ELSE 0)])

(* verifyCmd: the command's asset, if any, counts as an O output. *)
VerifyCmd ==
  /\ vpc = "cmd"
  /\ IF "cmddesc" \in tx.faults THEN Finish("cmddesc")
     ELSE Pass(IF HasInsOuts(tx) THEN "insP" ELSE "balance",
               [cnt EXCEPT !.oout = @ + (IF tx.cmdAsset THEN 1 ELSE 0)])

VerifyInsP ==
  /\ vpc = "insP"
  /\ Pass("insC", [cnt EXCEPT !.oin = @ + tx.nInsP])

VerifyInsC ==
  /\ vpc = "insC"
  /\ IF "insC" \in tx.faults THEN Finish("insC")
     ELSE Pass("outP", [cnt EXCEPT !.zin = @ + tx.nInsC])

VerifyOutP ==
  /\ vpc = "outP"
  /\ IF "outP" \in tx.faults THEN Finish("outP")
     ELSE Pass("outC", [cnt EXCEPT !.oout = @ + tx.nOutsP])

VerifyOutC ==
  /\ vpc = "outC"
  /\ IF "outC" \in tx.faults THEN Finish("outC")
     ELSE Pass("balance", [cnt EXCEPT !.zout = @ + tx.nOutsC])

(* verifyBalance: at most MAX_Z_OUT_LENGTH_SIP2 outputs of both kinds. *)
VerifyBalance ==
  /\ vpc = "balance"
  /\ IF cnt.oout + cnt.zout > MaxOut THEN Finish("balance") ELSE Pass(WaitStage[1], cnt)

(* Mutant: End waits until every check of the pool succeeded. *)
ProcsEndWaitsSuccess(i) ==
  /\ vpc = WaitStage[i]
  /\ LET k == Kinds[i]
         next == IF i < Len(Kinds) THEN WaitStage[i + 1] ELSE "done"
     IN  /\ \A x \in PoolOf(k) : task[x] = "ok"
         /\ IF next = "done" THEN Finish("ok") ELSE Pass(next, cnt)

(* WaitVerifyProof, the pool of Kinds[i]: if any proof was handed to it *)
(* (HasProc), End waits for all of them and returns the failure of one.  *)
ProcsEnd(i) ==
  /\ vpc = WaitStage[i]
  /\ LET k == Kinds[i]
         next == IF i < Len(Kinds) THEN WaitStage[i + 1] ELSE "done"
     IN  /\ \A x \in PoolOf(k) : task[x] \in {"ok", "bad"}
         /\ IF \E x \in PoolOf(k) : task[x] = "bad"
              THEN Finish(k \o "Proof")
              ELSE IF next = "done" THEN Finish("ok") ELSE Pass(next, cnt)

(* Mutant: the pool does not bound its running checks. *)
WorkerStartUnbounded(x) ==
  /\ task[x] = "queued"
  /\ task' = [task EXCEPT ![x] = "running"]
  /\ UNCHANGED <<tx, vpc, cnt, result>>

(* A worker of the pool takes a queued proof check, if fewer than       *)
(* ThreadNum of the pool are running.                                    *)
WorkerStart(x) ==
  /\ task[x] = "queued"
  /\ Cardinality(Running(x[1])) < ThreadNum
  /\ task' = [task EXCEPT ![x] = "running"]
  /\ UNCHANGED <<tx, vpc, cnt, result>>

(* The proof check's Run: VerifyInput, or IsPKrValid then VerifyOutput,  *)
(* or VerifyOutput of the package.                                       *)
ProofRun(x) == IF x \in tx.bad THEN "bad" ELSE "ok"

WorkerEnd(x) ==
  /\ task[x] = "running"
  /\ task' = [task EXCEPT ![x] = ProofRun(x)]
  /\ UNCHANGED <<tx, vpc, cnt, result>>

(* The goroutine running verify(), and the pools' workers. *)
MainStep ==
  \/ VerifyEhash \/ Dispatch
  \/ VerifyFee \/ VerifyFrom \/ VerifyPkg \/ VerifyCmd
  \/ VerifyInsP \/ VerifyInsC \/ VerifyOutP \/ VerifyOutC \/ VerifyBalance
  \/ \E i \in 1..Len(Kinds) : ProcsEnd(i)

WorkerStep == \E x \in DOMAIN task : WorkerStart(x) \/ WorkerEnd(x)

Next == MainStep \/ WorkerStep

(* verify() runs on one goroutine to its end, and the pools' workers    *)
(* are goroutines the Go scheduler runs: both are weakly fair.           *)
Fairness == WF_vars(MainStep) /\ WF_vars(WorkerStep)

Spec == Init /\ [][Next]_vars /\ Fairness

-----------------------------------------------------------------------------
TypeOK ==
  /\ vpc \in {"ehash", "prepare", "fee", "from", "pkg", "cmd", "insP", "insC", "outP", "outC",
              "balance", "done"} \cup {WaitStage[i] : i \in 1..Len(WaitStage)}
  /\ task \in [Tasks(tx) -> {"new", "queued", "running", "ok", "bad", "dropped"}]
  /\ \A i \in 1..Len(Kinds) : Cardinality(Running(Kinds[i])) <= ThreadNum

(* The reference: the cheap checks in verify()'s order, each failing on *)
(* its own, then the proof pools in WaitVerifyProof's order.  The ins  *)
(* and outs checks run only when Tx1.Count() > 0, and the output limit *)
(* counts the fee, a command's asset, a PkgCreate and both output lists.*)
CheapChecks == <<"ehash", "fee", "from", "pkgcmd", "pkgdesc", "cmddesc", "insC", "outP", "outC", "balance">>
OutCount(t) ==
  1 + (IF t.cmdAsset THEN 1 ELSE 0) + (IF t.create THEN 1 ELSE 0) + t.nOutsP + t.nOutsC
Fails(t, c) ==
  CASE c = "pkgcmd"  -> t.both
    [] c = "balance" -> OutCount(t) > MaxOut
    [] OTHER         -> c \in t.faults
Reference(t) ==
  LET cheap == SelectSeq(CheapChecks, LAMBDA c : Fails(t, c))
      proofs == SelectSeq(Kinds, LAMBDA k : \E x \in t.bad : x[1] = k)
  IN  IF cheap # <<>> THEN Head(cheap)
      ELSE IF proofs # <<>> THEN Head(proofs) \o "Proof"
      ELSE "ok"

(* verify() returns what the reference says, whatever order the workers *)
(* run the proofs in and however far they are when a cheap check fails; *)
(* and it accepts only after every proof was checked and found valid   *)
(* (ProcessVerifyProof hands every proof over, WaitVerifyProof ends     *)
(* every pool that has one).                                             *)
VerifyMatchesReference ==
  vpc = "done" =>
    /\ result = Reference(tx)
    /\ result = "ok" => \A x \in Tasks(tx) : task[x] = "ok"

(* verify() returns: no pool waits forever on a proof check. *)
VerifyTerminates == <>(vpc = "done")
====
