---------------------------- MODULE MC_ZLedger ----------------------------
(***************************************************************************)
(* ZLedger for TLC: two nullifiers, two roots, two addresses of which one *)
(* is super-zk, one package, and transactions that between them reuse a    *)
(* nil through both input kinds, fail half-way through their inputs, and   *)
(* create, transfer and close the package with right and wrong signers.    *)
(***************************************************************************)
EXTENDS ZLedger

CONSTANTS n1, n2, r1, r2, o1, o2, p1

MCNils == {n1, n2}
MCRoots == {r1, r2}
MCPkrs == {o1, o2}
MCSzkPkrs == {o1}
MCPkgIds == {p1}
MCCommunityPkr == o2

NoCmd == [op |-> "none", id |-> p1, signer |-> o1, to |-> o1]
MkTx(ip, ic, oc, op, cmd) ==
  [insP |-> ip, insC |-> ic, outsC |-> oc, outsP |-> op, pkg |-> cmd]

MCTxs == {
  \* spends n1/r1 as an In_P and makes a shielded output
  MkTx(<<[nil |-> n1, root |-> r1]>>, <<>>, <<<<"out", "a1">>>>, <<>>, NoCmd),
  \* spends n2 as an In_C, outputs to a super-zk and a plain address, creates p1
  MkTx(<<>>, <<n2>>, <<>>, <<[leaf |-> <<"out", "d1">>, pkr |-> o1], [leaf |-> <<"out", "d2">>, pkr |-> o2]>>,
       [op |-> "create", id |-> p1, signer |-> o1, to |-> o1]),
  \* spends n1 as an In_C: conflicts with the first
  MkTx(<<>>, <<n1>>, <<>>, <<>>, NoCmd),
  \* spends n2 then n1 as In_P: fails on its second input once n1 is used
  MkTx(<<[nil |-> n2, root |-> r2], [nil |-> n1, root |-> r1]>>, <<>>, <<>>, <<>>, NoCmd),
  \* package operations without inputs
  MkTx(<<>>, <<>>, <<>>, <<>>, [op |-> "create", id |-> p1, signer |-> o2, to |-> o2]),
  MkTx(<<>>, <<>>, <<>>, <<>>, [op |-> "transfer", id |-> p1, signer |-> o1, to |-> o2]),
  MkTx(<<>>, <<>>, <<>>, <<>>, [op |-> "close", id |-> p1, signer |-> o2, to |-> o2])
}
=============================================================================
