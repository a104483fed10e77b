------------------------------ MODULE ZLedger ------------------------------
(***************************************************************************)
(* The shielded ledger state of one block (zero/txs/zstate) driven by the  *)
(* block processor (core/state_processor.go) through the account state     *)
(* (core/state/statedb.go).                                                *)
(*                                                                         *)
(*  - txstate.State keeps an undo journal `logs` of AddNil / AddOut /      *)
(*    AddTxOut entries, the in-memory `data` they produced, and its own    *)
(*    list of `revisions` <<id, journal length>>.  Revert truncates the    *)
(*    journal, clears `data` and replays the remaining journal.            *)
(*  - The output merkle tree lives in the account trie (`tri`), so it is   *)
(*    rolled back by the StateDB journal, not by the txstate journal.      *)
(*  - pkgstate.PkgState keeps the packages and a stack of full copies      *)
(*    `pkgSnaps`.                                                          *)
(*  - StateDB hands out revision ids, keeps its own `validRevs`, and       *)
(*    forgets them in IntermediateRoot, which ApplyTransaction calls at    *)
(*    the end of every transaction; the zstate revisions are not cleared.  *)
(*                                                                         *)
(* Hashes, public keys, leaves and packages are model values; a signature  *)
(* is the key that produced it, so VerifyPKr_X(h, sign, pkr) holds iff     *)
(* the signer is pkr.                                                      *)
(***************************************************************************)
EXTENDS Naturals, Sequences, SequencesExt, FiniteSets

CONSTANTS
  Nils,      \* nullifiers of spent outputs
  Roots,     \* output roots spent by plaintext-encoded inputs (In_P)
  Pkrs,      \* pseudo-addresses (owners, signers, refund targets)
  SzkPkrs,   \* the pseudo-addresses for which c_superzk.IsSzkPKr holds
  PkgIds,    \* package ids
  Txs,       \* the shielded transactions blocks may contain
  MaxLog,    \* bound on the journal length of one block
  MaxRevId,  \* bound on the revision ids StateDB hands out in one block
  MaxLeaves, \* bound on the number of leaves of the output tree
  CommunityPkr \* communityAddress, paid by accumulateRewards in every block

ASSUME SzkPkrs \subseteq Pkrs /\ CommunityPkr \in Pkrs
ASSUME MaxLog \in Nat /\ MaxRevId \in Nat /\ MaxLeaves \in Nat

VARIABLES
  logs,       \* txstate.State.logs
  revisions,  \* txstate.State.revisions: <<[id, idx]>>
  data,       \* txstate.State.data: in-memory nils, outs and contract-out counts
  saved,      \* nils written to the trie by SaveState (Update)
  tree,       \* the output merkle tree (SzkTree), a sequence of leaves
  pkgs,       \* pkgstate data: id -> [st, owner]
  pkgSnaps,   \* pkgstate.snapshots: <<[id, pkgs]>>
  validRevs,  \* StateDB.validRevisions, with the trie (tree) at that revision
  nextRevId,  \* StateDB.nextRevisionId
  phase,      \* where the block processor is: idle, exec, failed, panic
  committed,  \* the state of the last committed block
  snapAt,     \* history: the observable state at each Snapshot(id)
  lastOp      \* history: the last operation taken, for action properties

vars == <<logs, revisions, data, saved, tree, pkgs, pkgSnaps, validRevs,
          nextRevId, phase, committed, snapAt, lastOp>>

Hashes == Nils \cup Roots
NoOwner == CHOOSE p \in Pkrs : TRUE
NoPkg == [st |-> "none", owner |-> NoOwner]
EmptyData == [nils |-> {}, outs |-> {}, cnt |-> [p \in Pkrs |-> 0]]

(* The observable ledger: HasIn, GetOut, the tree, the counts, GetPkgById. *)
Obs == [nils |-> data.nils \cup saved, outs |-> data.outs, tree |-> tree,
        cnt |-> data.cnt, pkgs |-> pkgs]

-----------------------------------------------------------------------------
(***************************************************************************)
(* Faulty variants of definitions below, each a plausible slip in the code *)
(* that one of the properties must reject.                                 *)
(***************************************************************************)
HasInDirtyOnly(w, h) == h \in w.data.nils
DropPreviousRevision(zp) == SubSeq(revisions, 1, zp - 2)
KeepTree(r) == tree
ForceAddOverClosed(p, op) ==
  IF p[op.id].st = "open"
    THEN [pkgs |-> p, err |-> "create pkg is not nil"]
    ELSE [pkgs |-> [p EXCEPT ![op.id] = [st |-> "open", owner |-> op.to]], err |-> "ok"]

-----------------------------------------------------------------------------
(* data.IData: what one journal entry does to the in-memory data (Log.Op). *)
Op(d, e) ==
  CASE e.op = "nil"   -> [d EXCEPT !.nils = @ \cup {e.arg}]
    [] e.op = "out"   -> [d EXCEPT !.outs = @ \cup {<<e.index, e.arg>>}]
    [] e.op = "txout" -> [d EXCEPT !.cnt[e.arg] = @ + 1]

NoClearReplay(l) == FoldLeft(Op, data, l)

(* Revert: data.Clear() then every remaining log.Op(data). *)
Replay(l) == FoldLeft(Op, EmptyData, l)

(* A step of AddStx works on w = [logs, data, tree, err]. *)
Log(w, e) == [w EXCEPT !.logs = Append(@, e), !.data = Op(@, e)]

(* data.HasIn(tri, hash): the dirty set first, then the trie. *)
HasIn(w, h) == h \in w.data.nils \/ h \in saved

AddNil(w, h) == Log(w, [op |-> "nil", arg |-> h, index |-> 0])

InsertOSAfterAppend(w, leaf) ==
  Log([w EXCEPT !.tree = Append(@, leaf)],
      [op |-> "out", arg |-> leaf, index |-> Len(w.tree) + 1])

(* insertOS: index = leaf size, append the leaf, then log the output. *)
InsertOS(w, leaf) ==
  Log([w EXCEPT !.tree = Append(@, leaf)],
      [op |-> "out", arg |-> leaf, index |-> Len(w.tree)])

(* One In_P of addTx1: its nil and its root must both be unused. *)
InP(w, in) ==
  IF w.err # "ok" THEN w
  ELSE IF HasIn(w, in.nil) THEN [w EXCEPT !.err = "in_p.nil already used"]
  ELSE IF HasIn(w, in.root) THEN [w EXCEPT !.err = "in_p.root already used"]
  ELSE AddNil(AddNil(w, in.nil), in.root)

(* One In_C of addTx1. *)
InC(w, n) ==
  IF w.err # "ok" THEN w
  ELSE IF HasIn(w, n) THEN [w EXCEPT !.err = "in_c.nil already used"]
  ELSE AddNil(w, n)

(* Faulty variant of OutP: every Out_P enters the tree. *)
OutPAll(w, o) == InsertOS(w, o.leaf)

(* Outs_P enter the tree only for super-zk addresses. *)
OutP(w, o) == IF o.pkr \in SzkPkrs THEN InsertOS(w, o.leaf) ELSE w

(* txstate.State.AddStx / addTx1: inputs in order, return on the first   *)
(* used one (leaving the earlier ones logged), then all outputs.          *)
AddTx1(w, t) ==
  LET wi == FoldLeft(InC, FoldLeft(InP, w, t.insP), t.insC)
  IN  IF wi.err # "ok" THEN wi
      ELSE FoldLeft(OutP, FoldLeft(InsertOS, wi, t.outsC), t.outsP)

(* pkgstate Force_add: fails if any package with that id exists. *)
ForceAdd(p, op) ==
  IF p[op.id].st # "none"
    THEN [pkgs |-> p, err |-> "create pkg is not nil"]
    ELSE [pkgs |-> [p EXCEPT ![op.id] = [st |-> "open", owner |-> op.to]], err |-> "ok"]

(* pkgstate Force_del: open package, signed by its owner. *)
ForceDel(p, op) ==
  IF p[op.id].st # "open" THEN [pkgs |-> p, err |-> "close pkg is nil"]
  ELSE IF op.signer # p[op.id].owner THEN [pkgs |-> p, err |-> "close pkg signed error"]
  ELSE [pkgs |-> [p EXCEPT ![op.id].st = "closed"], err |-> "ok"]

(* pkgstate Force_transfer: open package, signed by its owner. *)
ForceTransfer(p, op) ==
  IF p[op.id].st # "open" THEN [pkgs |-> p, err |-> "transfer pkg is nil"]
  ELSE IF op.signer # p[op.id].owner THEN [pkgs |-> p, err |-> "transfer pkg signed error"]
  ELSE [pkgs |-> [p EXCEPT ![op.id].owner = op.to], err |-> "ok"]

PkgOp(p, op) ==
  CASE op.op = "create"   -> ForceAdd(p, op)
    [] op.op = "close"    -> ForceDel(p, op)
    [] op.op = "transfer" -> ForceTransfer(p, op)
    [] OTHER              -> [pkgs |-> p, err |-> "ok"]

(* ZState.AddStx: State.AddStx, and only if it succeeded the package op. *)
ZAddStx(t) ==
  LET w == AddTx1([logs |-> logs, data |-> data, tree |-> tree, err |-> "ok"], t)
      q == PkgOp(pkgs, t.pkg)
  IN  IF w.err # "ok" THEN [w EXCEPT !.err = w.err] @@ [pkgs |-> pkgs]
      ELSE [w EXCEPT !.err = q.err] @@ [pkgs |-> q.pkgs]

(* ZState.AddTxOut: a non-empty asset to a super-zk address becomes an Out_P. *)
ZAddTxOut(w, pkr, hasAsset) ==
  IF hasAsset /\ pkr \in SzkPkrs THEN InsertOS(w, <<"txout", pkr>>) ELSE w

Work == [logs |-> logs, data |-> data, tree |-> tree, err |-> "ok"]

-----------------------------------------------------------------------------
Init ==
  /\ logs = <<>>
  /\ revisions = <<>>
  /\ data = EmptyData
  /\ saved = {}
  /\ tree = <<>>
  /\ pkgs = [i \in PkgIds |-> NoPkg]
  /\ pkgSnaps = <<>>
  /\ validRevs = <<>>
  /\ nextRevId = 0
  /\ phase = "idle"
  /\ committed = [saved |-> {}, tree |-> <<>>, pkgs |-> [i \in PkgIds |-> NoPkg]]
  /\ snapAt = [i \in {} |-> Obs]
  /\ lastOp = [op |-> "init", id |-> -1, signer |-> NoOwner]

(* ApplyTransaction, up to the EVM: statedb.NextZState().AddStx(tx); an   *)
(* error makes Process return it and the block is rejected.               *)
ApplyTransaction(t) ==
  /\ phase = "idle"
  /\ Len(logs) < MaxLog
  /\ Len(tree) + Len(t.outsC) + Len(t.outsP) <= MaxLeaves
  /\ LET r == ZAddStx(t) IN
       /\ logs' = r.logs
       /\ data' = r.data
       /\ tree' = r.tree
       /\ pkgs' = r.pkgs
       /\ phase' = IF r.err = "ok" THEN "exec" ELSE "failed"
  /\ lastOp' = [op |-> "apply", id |-> -1, signer |-> t.pkg.signer]
  /\ UNCHANGED <<revisions, saved, pkgSnaps, validRevs, nextRevId, committed, snapAt>>

(* ZState.AddTxOut, called by applyStake refunds and by TransitionDb /    *)
(* refundGas while the transaction executes.                              *)
AddTxOut(pkr, hasAsset) ==
  /\ phase = "exec"
  /\ Len(logs) < MaxLog
  /\ Len(tree) < MaxLeaves
  /\ LET w == ZAddTxOut(Work, pkr, hasAsset) IN
       logs' = w.logs /\ data' = w.data /\ tree' = w.tree
  /\ lastOp' = [op |-> "txout", id |-> -1, signer |-> NoOwner]
  /\ UNCHANGED <<revisions, saved, pkgs, pkgSnaps, validRevs, nextRevId, phase, committed, snapAt>>

(* core.Transfer to a non-contract: ZState.AddTxOutWithCheck logs the     *)
(* contract-out count of the recipient, then AddTxOut.                    *)
AddTxOutWithCheck(pkr, hasAsset) ==
  /\ phase = "exec"
  /\ Len(logs) < MaxLog
  /\ Len(tree) < MaxLeaves
  /\ LET w == ZAddTxOut(Log(Work, [op |-> "txout", arg |-> pkr, index |-> 0]), pkr, hasAsset)
     IN logs' = w.logs /\ data' = w.data /\ tree' = w.tree
  /\ lastOp' = [op |-> "txout", id |-> -1, signer |-> NoOwner]
  /\ UNCHANGED <<revisions, saved, pkgs, pkgSnaps, validRevs, nextRevId, phase, committed, snapAt>>

(* applyStake or ApplyMessage returns an error: the block is rejected. *)
ExecFail ==
  /\ phase = "exec"
  /\ phase' = "failed"
  /\ lastOp' = [op |-> "fail", id |-> -1, signer |-> NoOwner]
  /\ UNCHANGED <<logs, revisions, data, saved, tree, pkgs, pkgSnaps, validRevs, nextRevId, committed, snapAt>>

(* txstate.State.Update: SaveState writes the dirty nils into the trie;   *)
(* pkgstate.Update saves the packages, which the model keeps in pkgs      *)
(* already; ZState.Update does both.                                       *)
TxUpdate(sv, d) == sv \cup d.nils
ZUpdate(sv, d) == TxUpdate(sv, d)

(* txstate.State.Snapshot: the revision id with the journal's length.     *)
TxSnapshot(revs, id, nlogs) == Append(revs, [id |-> id, idx |-> nlogs])

(* pkgstate.PkgSnapshot: snapshots.Push of a copy of the package data.    *)
PkgSnapshot(snaps, id, p) == Append(snaps, [id |-> id, pkgs |-> p])

(* pkgstate.Revert: the data of the snapshot at kp (Snapshots.Revert).    *)
PkgRevert(kp) == pkgSnaps[kp].pkgs

(* End of ApplyTransaction: IntermediateRoot saves the zstate into the     *)
(* trie (Update) and Finalise clears StateDB's journal and revisions.      *)
IntermediateRoot ==
  /\ phase = "exec"
  /\ saved' = ZUpdate(saved, data)
  /\ validRevs' = <<>>
  /\ phase' = "idle"
  /\ lastOp' = [op |-> "root", id |-> -1, signer |-> NoOwner]
  /\ UNCHANGED <<logs, revisions, data, tree, pkgs, pkgSnaps, nextRevId, committed, snapAt>>

(* ZState.Snapshot: txstate's and pkgstate's Snapshot under one id. *)
ZSnapshot(id) ==
  /\ revisions' = TxSnapshot(revisions, id, Len(logs))
  /\ pkgSnaps' = PkgSnapshot(pkgSnaps, id, pkgs)

(* StateDB.Snapshot: a fresh id, pushed to StateDB, txstate and pkgstate. *)
Snapshot ==
  /\ phase \in {"idle", "exec"}
  /\ nextRevId < MaxRevId
  /\ LET id == nextRevId IN
       /\ validRevs' = Append(validRevs, [id |-> id, tree |-> tree])
       /\ nextRevId' = id + 1
       /\ ZSnapshot(id)
       /\ snapAt' = [i \in DOMAIN snapAt \cup {id} |-> IF i = id THEN Obs ELSE snapAt[i]]
       /\ lastOp' = [op |-> "snapshot", id |-> id, signer |-> NoOwner]
  /\ UNCHANGED <<logs, data, saved, tree, pkgs, phase, committed>>

(* The StateDB journal restores the trie, and with it the tree. *)
RestoreTree(r) == r.tree

(* txstate.Revert keeps revisions[:idx]. *)
TruncRevisions(zp) == SubSeq(revisions, 1, zp - 1)

(* ZState.Revert: txstate.Revert to the revision at zp (the journal cut   *)
(* back and replayed), then pkgstate.Revert to the snapshot at kp.        *)
ZRevert(zp, kp) ==
  /\ logs' = SubSeq(logs, 1, revisions[zp].idx)
  /\ revisions' = TruncRevisions(zp)
  /\ data' = Replay(SubSeq(logs, 1, revisions[zp].idx))
  /\ pkgs' = PkgRevert(kp)
  /\ pkgSnaps' = SubSeq(pkgSnaps, 1, kp - 1)

(* StateDB.RevertToSnapshot(id) for an id it handed out and still holds,  *)
(* then ZState.Revert: txstate.Revert (panics on an unknown id) and       *)
(* pkgstate.Revert.                                                        *)
RevertToSnapshot(id) ==
  /\ phase \in {"idle", "exec"}
  /\ \E p \in DOMAIN validRevs :
       /\ validRevs[p].id = id
       /\ tree' = RestoreTree(validRevs[p])
       /\ validRevs' = SubSeq(validRevs, 1, p - 1)
  /\ LET zp == SelectInSeq(revisions, LAMBDA r : r.id >= id)
         kp == SelectInSeq(pkgSnaps, LAMBDA s : s.id = id)
     IN IF zp = 0 \/ revisions[zp].id # id \/ kp = 0
          THEN /\ phase' = "panic"
               /\ lastOp' = [op |-> "panic", id |-> id, signer |-> NoOwner]
               /\ UNCHANGED <<logs, revisions, data, pkgs, pkgSnaps>>
          ELSE /\ ZRevert(zp, kp)
               /\ lastOp' = [op |-> "revert", id |-> id, signer |-> NoOwner]
               /\ UNCHANGED phase
  /\ UNCHANGED <<saved, nextRevId, committed, snapAt>>

(* A block whose transactions all applied: Engine.Finalize pays the       *)
(* community reward through AddTxOut and calls IntermediateRoot; the block  *)
(* is committed and the next one starts from a new ZState (NextState) and a *)
(* new StateDB.                                                             *)
CommitBlock ==
  /\ phase = "idle"
  /\ LET w == ZAddTxOut(Work, CommunityPkr, TRUE) IN
       /\ Len(w.tree) <= MaxLeaves
       /\ saved' = ZUpdate(saved, w.data)
       /\ tree' = w.tree
       /\ committed' = [saved |-> ZUpdate(saved, w.data), tree |-> w.tree, pkgs |-> pkgs]
  /\ logs' = <<>> /\ revisions' = <<>> /\ data' = EmptyData /\ pkgSnaps' = <<>>
  /\ validRevs' = <<>> /\ nextRevId' = 0 /\ snapAt' = [i \in {} |-> Obs]
  /\ lastOp' = [op |-> "commit", id |-> -1, signer |-> NoOwner]
  /\ UNCHANGED <<pkgs, phase>>

(* Process returned an error: the block's StateDB is discarded. *)
AbortBlock ==
  /\ phase = "failed"
  /\ saved' = committed.saved /\ tree' = committed.tree /\ pkgs' = committed.pkgs
  /\ logs' = <<>> /\ revisions' = <<>> /\ data' = EmptyData /\ pkgSnaps' = <<>>
  /\ validRevs' = <<>> /\ nextRevId' = 0 /\ snapAt' = [i \in {} |-> Obs]
  /\ phase' = "idle"
  /\ lastOp' = [op |-> "abort", id |-> -1, signer |-> NoOwner]
  /\ UNCHANGED committed

Next ==
  \/ \E t \in Txs : ApplyTransaction(t)
  \/ \E p \in Pkrs, a \in BOOLEAN : AddTxOut(p, a) \/ AddTxOutWithCheck(p, a)
  \/ ExecFail
  \/ IntermediateRoot
  \/ Snapshot
  \/ \E id \in 0..(MaxRevId - 1) : RevertToSnapshot(id)
  \/ CommitBlock
  \/ AbortBlock

Spec == Init /\ [][Next]_vars

-----------------------------------------------------------------------------
TypeOK ==
  /\ logs \in Seq([op : {"nil", "out", "txout"}, arg : Hashes \cup Pkrs \cup Range(tree), index : 0..(MaxLeaves - 1)])
  /\ data.outs \subseteq (0..(MaxLeaves - 1)) \X Range(tree)
  /\ data.nils \subseteq Hashes /\ saved \subseteq Hashes
  /\ data.cnt \in [Pkrs -> Nat]
  /\ pkgs \in [PkgIds -> [st : {"none", "open", "closed"}, owner : Pkrs]]
  /\ revisions \in Seq([id : Nat, idx : Nat])
  /\ phase \in {"idle", "exec", "failed", "panic"}
  /\ nextRevId \in 0..MaxRevId

(* StateDB.RevertToSnapshot never reaches the "revision id cannot be      *)
(* reverted" panic of txstate.Revert or pkgstate.Revert: every id StateDB *)
(* still holds, after IntermediateRoot cleared only its own list and      *)
(* after earlier reverts, is also held by the zstate.                     *)
NoRevertPanic == phase # "panic"

(* No double spend: addTx1 logs each nullifier or spent root at most once *)
(* in a block, and never one committed by an earlier block, whatever the   *)
(* order of transactions, replays, reverts and aborted blocks.            *)
NoDoubleSpend ==
  /\ \A i, j \in DOMAIN logs :
       (i < j /\ logs[i].op = "nil" /\ logs[j].op = "nil") => logs[i].arg # logs[j].arg
  /\ \A i \in DOMAIN logs : logs[i].op = "nil" => logs[i].arg \notin committed.saved

(* The output tree and the output records agree: the tree is the committed *)
(* tree followed by exactly the outputs in the journal, and each output's  *)
(* index (insertOS: GetLeafSize before AppendLeaf) is its leaf position,    *)
(* also after reverts, which restore the tree and the journal separately. *)
TreeMatchesOutputs ==
  LET outs == {i \in DOMAIN logs : logs[i].op = "out"}
  IN  /\ Len(tree) = Len(committed.tree) + Cardinality(outs)
      /\ SubSeq(tree, 1, Len(committed.tree)) = committed.tree
      /\ \A i \in outs : logs[i].index < Len(tree) /\ tree[logs[i].index + 1] = logs[i].arg

(* Snapshot/Revert is a perfect inverse: right after RevertToSnapshot(id)  *)
(* HasIn, GetOut, the tree, the contract-out counts and the packages are   *)
(* what they were when Snapshot returned id.                              *)
RevertRestoresSnapshot ==
  [][lastOp'.op = "revert" => Obs' = snapAt[lastOp'.id]]_vars

(* Package lifecycle: outside reverts and aborted blocks, a package is     *)
(* created only once, closed or transferred only while open and only by a  *)
(* transaction signed by its owner of the time, and a closed package never *)
(* changes again.                                                          *)
PkgStepAllowed(old, new, signer) ==
  \/ new = old
  \/ old.st = "none" /\ new.st = "open"
  \/ old.st = "open" /\ new.st = "closed" /\ new.owner = old.owner /\ signer = old.owner
  \/ old.st = "open" /\ new.st = "open" /\ signer = old.owner

PackageTransitionsAuthorized ==
  [][lastOp'.op \notin {"revert", "abort"} =>
       \A i \in PkgIds : PkgStepAllowed(pkgs[i], pkgs'[i], lastOp'.signer)]_vars

(* The ledger state a StateDB revision still held would bring back: the  *)
(* txstate journal up to the revision replayed over the saved nils, the  *)
(* tree kept with the revision, and the package snapshot of the same id. *)
SnapState(v) ==
  LET zp == SelectInSeq(revisions, LAMBDA r : r.id = v.id)
      kp == SelectInSeq(pkgSnaps, LAMBDA s : s.id = v.id)
  IN  IF zp = 0 \/ kp = 0 THEN [spent |-> {}, outs |-> v.tree, pkgs |-> pkgs]
      ELSE [spent |-> Replay(SubSeq(logs, 1, revisions[zp].idx)).nils \cup saved,
            outs |-> v.tree, pkgs |-> pkgSnaps[kp].pkgs]

(* ZLedger implements AbstractLedger: under the mapping below every step *)
(* of the journal, the two revision lists and the trie-held tree is a    *)
(* step of the abstract ledger, so a transaction applies as a whole or   *)
(* rejects the block, and a revert restores a remembered state exactly,  *)
(* through txstate's replay, the StateDB's tree and pkgstate's copies.   *)
Abs == INSTANCE AbstractLedger
         WITH spent <- data.nils \cup saved, outs <- tree,
              snaps <- [i \in DOMAIN validRevs |->
                          [id |-> validRevs[i].id, st |-> SnapState(validRevs[i])]],
              nextId <- nextRevId,
              committed <- [spent |-> committed.saved, outs |-> committed.tree,
                            pkgs |-> committed.pkgs]

LedgerRefined == Abs!Spec
=============================================================================
