------------------------- MODULE MC_HeaderVerifier -------------------------
(* Three-header batches on two workers.  The chain holds a genesis G and *)
(* a block K.  Valid headers get their difficulty from Prepare; the      *)
(* others break one rule each: a gas limit one above the parent/128      *)
(* bound, a wrong difficulty, a failed proof-of-work, a missing parent.  *)
(* A batch is linked, as the callers check before VerifyHeaders: header  *)
(* i + 1 names header i as its parent.                                   *)
EXTENDS HeaderVerifier

CONSTANTS w1, w2

Hdr(hash, parent, number, time, gasLimit, pow) ==
  [hash |-> hash, parent |-> parent, number |-> number, time |-> time,
   diff |-> 0, gasLimit |-> gasLimit, gasUsed |-> 100, extra |-> 0, pow |-> pow]

G == [Hdr(0, -1, 0, 1000, 5000, "ok") EXCEPT !.diff = 1000000]
K == Prepare({G}, Hdr(1, 0, 1, 1020, 5000, "ok"))
MCChain == {G, K}

Ok1    == Prepare(MCChain, Hdr(10, 0, 1, 1010, 5000, "ok"))
Ok2    == Prepare({Ok1}, Hdr(11, 10, 2, 1015, 5038, "ok"))
GasUp  == Prepare({Ok2}, Hdr(12, 11, 3, 1030, 5038 + 39, "ok"))
Orphan == [Hdr(20, 99, 1, 1010, 5000, "ok") EXCEPT !.diff = 131200]
BadDif == [Prepare({Orphan}, Hdr(21, 20, 2, 1950, 5000, "ok")) EXCEPT !.diff = @ + 1]
NoPow  == Prepare({K}, Hdr(30, 1, 2, 1040, 5000, "pow"))
Ok3    == Prepare({NoPow}, Hdr(31, 30, 3, 1045, 5000, "ok"))
Ok4    == Prepare({BadDif}, Hdr(22, 21, 3, 1960, 5000, "ok"))

E(h, seal) == [header |-> h, seal |-> seal]

MCBatches == {<<E(Ok1, TRUE), E(Ok2, TRUE), E(GasUp, TRUE)>>,
              <<E(Orphan, TRUE), E(BadDif, TRUE), E(Ok4, FALSE)>>,
              <<E(K, TRUE), E(NoPow, TRUE), E(Ok3, TRUE)>>}
====
