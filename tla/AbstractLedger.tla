---------------------------- MODULE AbstractLedger ----------------------------
(***************************************************************************)
(* What the shielded ledger of a block promises, without the journal, the *)
(* two revision lists and the tree kept in the trie: a set of spent       *)
(* hashes (nils and In_P roots), the sequence of leaves of the output     *)
(* tree, and the packages.                                                *)
(*                                                                         *)
(*  - A transaction applies as a whole when every hash it spends is       *)
(*    unspent and distinct and its package operation is allowed; then its *)
(*    hashes are spent, its leaves appended (the Outs_C, then the Outs_P  *)
(*    of super-zk addresses) and its package operation done.  Otherwise  *)
(*    the block is rejected: what the failed step left is unspecified,    *)
(*    and only Abort, back to the last committed block, may follow.       *)
(*  - Snapshot(id) remembers the whole state; RevertToSnapshot(id) brings *)
(*    it back and forgets id and every later snapshot; the end of a       *)
(*    transaction forgets them all.                                       *)
(*  - A refund or transfer appends a leaf for a super-zk address.         *)
(***************************************************************************)
EXTENDS Naturals, Sequences, SequencesExt, FiniteSets

CONSTANTS Nils, Roots, Pkrs, SzkPkrs, PkgIds, Txs, MaxRevId, CommunityPkr

VARIABLES spent, outs, pkgs, phase, snaps, nextId, committed

avars == <<spent, outs, pkgs, phase, snaps, nextId, committed>>

State == [spent |-> spent, outs |-> outs, pkgs |-> pkgs]
NoPkg == [st |-> "none", owner |-> CHOOSE p \in Pkrs : TRUE]

(* The hashes a transaction spends, in the order it names them. *)
Spends(t) == FlattenSeq([i \in DOMAIN t.insP |-> <<t.insP[i].nil, t.insP[i].root>>]) \o t.insC

(* The leaves it adds to the output tree. *)
Leaves(t) ==
  LET szk == SelectSeq(t.outsP, LAMBDA o : o.pkr \in SzkPkrs)
  IN  t.outsC \o [i \in 1 .. Len(szk) |-> szk[i].leaf]

(* A package operation is allowed on the packages p: a create of a fresh *)
(* id, a close or transfer of an open package signed by its owner.       *)
PkgAllowed(p, op) ==
  \/ op.op = "none"
  \/ op.op = "create" /\ p[op.id].st = "none"
  \/ op.op \in {"close", "transfer"} /\ p[op.id].st = "open" /\ op.signer = p[op.id].owner

PkgDone(p, op) ==
  CASE op.op = "create"   -> [p EXCEPT ![op.id] = [st |-> "open", owner |-> op.to]]
    [] op.op = "close"    -> [p EXCEPT ![op.id].st = "closed"]
    [] op.op = "transfer" -> [p EXCEPT ![op.id].owner = op.to]
    [] OTHER              -> p

Valid(t) ==
  /\ IsInjective(Spends(t))
  /\ ToSet(Spends(t)) \cap spent = {}
  /\ PkgAllowed(pkgs, t.pkg)

Init ==
  /\ spent = {} /\ outs = << >> /\ pkgs = [i \in PkgIds |-> NoPkg]
  /\ phase = "idle" /\ snaps = << >> /\ nextId = 0
  /\ committed = State

Apply(t) ==
  /\ phase = "idle"
  /\ \/ /\ Valid(t)
        /\ spent' = spent \cup ToSet(Spends(t))
        /\ outs' = outs \o Leaves(t)
        /\ pkgs' = PkgDone(pkgs, t.pkg)
        /\ phase' = "exec"
     \/ /\ ~Valid(t)
        /\ phase' = "failed"   \* spent, outs and pkgs are left unspecified
  /\ UNCHANGED <<snaps, nextId, committed>>

TxOut(pkr, hasAsset) ==
  /\ phase = "exec"
  /\ outs' = IF hasAsset /\ pkr \in SzkPkrs THEN Append(outs, <<"txout", pkr>>) ELSE outs
  /\ UNCHANGED <<spent, pkgs, phase, snaps, nextId, committed>>

Fail ==
  /\ phase = "exec" /\ phase' = "failed"
  /\ UNCHANGED <<spent, outs, pkgs, snaps, nextId, committed>>

EndTx ==
  /\ phase = "exec" /\ phase' = "idle" /\ snaps' = << >>
  /\ UNCHANGED <<spent, outs, pkgs, nextId, committed>>

Snapshot ==
  /\ phase \in {"idle", "exec"} /\ nextId < MaxRevId
  /\ snaps' = Append(snaps, [id |-> nextId, st |-> State])
  /\ nextId' = nextId + 1
  /\ UNCHANGED <<spent, outs, pkgs, phase, committed>>

Revert(id) ==
  /\ phase \in {"idle", "exec"}
  /\ \E p \in DOMAIN snaps :
       /\ snaps[p].id = id
       /\ spent' = snaps[p].st.spent /\ outs' = snaps[p].st.outs /\ pkgs' = snaps[p].st.pkgs
       /\ snaps' = SubSeq(snaps, 1, p - 1)
  /\ UNCHANGED <<phase, nextId, committed>>

Commit ==
  /\ phase = "idle"
  /\ outs' = IF CommunityPkr \in SzkPkrs THEN Append(outs, <<"txout", CommunityPkr>>) ELSE outs
  /\ committed' = [spent |-> spent, outs |-> outs', pkgs |-> pkgs]
  /\ snaps' = << >> /\ nextId' = 0
  /\ UNCHANGED <<spent, pkgs, phase>>

Abort ==
  /\ phase = "failed" /\ phase' = "idle"
  /\ spent' = committed.spent /\ outs' = committed.outs /\ pkgs' = committed.pkgs
  /\ snaps' = << >> /\ nextId' = 0
  /\ UNCHANGED committed

Next ==
  \/ \E t \in Txs : Apply(t)
  \/ \E p \in Pkrs, a \in BOOLEAN : TxOut(p, a)
  \/ Fail \/ EndTx \/ Snapshot \/ Commit \/ Abort
  \/ \E id \in 0 .. MaxRevId - 1 : Revert(id)

Spec == Init /\ [][Next]_avars
====
