--------------------------- MODULE MC_TxVerifier ---------------------------
(* Transactions with at most one failing cheap check (a list check can  *)
(* fail only on a list with an element), up to two In_C and one of each  *)
(* other list, at most one proof that does not verify, and no package    *)
(* both created and closed.  MaxOut = 3 puts the output limit inside the *)
(* range the lists reach (the fee alone counts one output); ThreadNum = 1 *)
(* makes two In_C proofs queue behind each other.                        *)
EXTENDS TxVerifier

MCFaults ==
  {{}} \cup {{f} : f \in {"ehash", "fee", "from", "pkgdesc", "cmddesc", "insC", "outP", "outC"}}

MCShapes ==
  {s \in [faults : MCFaults, both : BOOLEAN, create : BOOLEAN, close : BOOLEAN,
          cmdAsset : BOOLEAN, nInsP : 0..1, nInsC : 0..2, nOutsP : 0..1, nOutsC : 0..1] :
     /\ ~(s.create /\ s.close)
     /\ "insC" \in s.faults => s.nInsC > 0
     /\ "outP" \in s.faults => s.nOutsP > 0
     /\ "outC" \in s.faults => s.nOutsC > 0}

(* The proofs a transaction of this shape carries. *)
MCProofs(s) ==
  {<<"cin", i>> : i \in 1..s.nInsC} \cup {<<"cout", i>> : i \in 1..s.nOutsC}
    \cup (IF s.create THEN {<<"pkg", 1>>} ELSE {})

MCTxs ==
  UNION {{[faults |-> s.faults, both |-> s.both, create |-> s.create, close |-> s.close,
           cmdAsset |-> s.cmdAsset, nInsP |-> s.nInsP, nInsC |-> s.nInsC,
           nOutsP |-> s.nOutsP, nOutsC |-> s.nOutsC, bad |-> b]
          : b \in {{}} \cup {{x} : x \in MCProofs(s)}} : s \in MCShapes}
====
