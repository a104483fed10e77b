--------------------------- MODULE MC_StakeIndex ---------------------------
EXTENDS StakeIndex

CONSTANTS a1, a2, p1, p2, p3, s1, s2, s3, none

(* p1 belongs to a1, p2 to a2; p3 is a PKr of no local account. *)
MCOwner == [p \in {p1, p2, p3} |-> IF p = p1 THEN a1 ELSE IF p = p2 THEN a2 ELSE none]
(* a2 was created at block 2, where its first share is bought. *)
MCAt == [pk \in {a1, a2} |-> IF pk = a1 THEN 1 ELSE 2]

Rec(id, pkr, init, num, will, status, profit) ==
  [id |-> id, pkr |-> pkr, init |-> init, num |-> num, will |-> will, status |-> status,
   profit |-> profit]

(* s1 loses a ticket, misses a vote and expires; s2 is used up and      *)
(* finishes; s3 is a foreign share.                                     *)
MCRecords ==
  << << Rec(s1, p1, 2, 2, 0, "valid", 0) >>,
     << Rec(s2, p2, 1, 1, 0, "valid", 0), Rec(s1, p1, 2, 1, 0, "valid", 1) >>,
     << Rec(s3, p3, 1, 1, 0, "valid", 0), Rec(s1, p1, 2, 1, 1, "outofdate", 1) >>,
     << Rec(s2, p2, 1, 0, 0, "finished", 2) >> >>
====
