----------------------------- MODULE VoterQueue -----------------------------
(***************************************************************************)
(* What voter.PriorityQueue (voter/utils.go) promises, without the heap:  *)
(* a map from keys to [value, block].  Pushing a key it holds updates the *)
(* entry; a new key is added while there is room (MaxSize <= 0 means no   *)
(* bound) and otherwise replaces an entry of the highest block.  Popping  *)
(* removes an entry of the highest block: itemslice.Less orders by Block  *)
(* descending, so the heap's root is the highest block.  Among entries of *)
(* equal block any may go.                                                  *)
(***************************************************************************)
EXTENDS Integers, FiniteSets, Functions, TLC

CONSTANTS Keys, Values, Blocks, MaxSize

VARIABLE q

(* The keys of the highest block. *)
Top(f) == {k \in DOMAIN f : \A j \in DOMAIN f : f[j].block <= f[k].block}

Room(f) == MaxSize <= 0 \/ Cardinality(DOMAIN f) < MaxSize

Init == q = [k \in {} |-> [value |-> CHOOSE v \in Values : TRUE, block |-> 0]]

Push(k, v, b) ==
  LET e == [value |-> v, block |-> b]
  IN  \/ k \in DOMAIN q /\ q' = (k :> e) @@ q
      \/ k \notin DOMAIN q /\ Room(q) /\ q' = (k :> e) @@ q
      \/ /\ k \notin DOMAIN q /\ ~Room(q)
         /\ \E t \in Top(q) : q' = (k :> e) @@ Restrict(q, DOMAIN q \ {t})

Pop == DOMAIN q # {} /\ \E t \in Top(q) : q' = Restrict(q, DOMAIN q \ {t})

Next == (\E k \in Keys, v \in Values, b \in Blocks : Push(k, v, b)) \/ Pop

Spec == Init /\ [][Next]_q
====
