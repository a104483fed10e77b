------------------------- MODULE MC_WalletExchange -------------------------
EXTENDS WalletExchange

CONSTANTS a1, a2, q1, q2, m

(* Outputs 1 and 3 belong to a1, 2 to a2. *)
MCOwner == [r \in 1..3 |-> IF r % 2 = 1 THEN a1 ELSE a2]
(* a2 was created two blocks after a1, more than fetchCount apart. *)
MCAt == [pk \in {a1, a2} |-> IF pk = a1 THEN 1 ELSE 3]

(* The run with an RPC call and the merge job together: two blocks, one *)
(* output each, both a1's so that Merge has two to merge, and a2         *)
(* created at block 2.                                                    *)
MCOwnerA1 == [r \in 1..2 |-> a1]
MCAt2 == [pk \in {a1, a2} |-> IF pk = a1 THEN 1 ELSE 2]
====
