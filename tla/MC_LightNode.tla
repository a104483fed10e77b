---------------------------- MODULE MC_LightNode ----------------------------
EXTENDS LightNode

CONSTANTS o1, o2, o3, p1, p2, r1, r2

(* Block 1 pays o1 to p1; block 2 pays o2 to p2 and o3 to p1 and spends  *)
(* o1; block 3 spends o2.                                                  *)
MCPkrOf == [o \in {o1, o2, o3} |-> IF o = o2 THEN p2 ELSE p1]
MCBlocks == <<[outs |-> {o1}, ins |-> {}],
              [outs |-> {o2, o3}, ins |-> {o1}],
              [outs |-> {}, ins |-> {o2}]>>
====
