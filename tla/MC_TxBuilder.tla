--------------------------- MODULE MC_TxBuilder ---------------------------
(***************************************************************************)
(* TxBuilder for TLC: a super-zk address k1 and a plain address k2; inputs  *)
(* of both encodings, one owned by another key; outputs to both kinds of    *)
(* address; every combination of the Z flag, the commands and the package   *)
(* commands, with a fee of 1 or 2.                                               *)
(***************************************************************************)
EXTENDS TxBuilder

CONSTANTS k1, k2

MCPkrs == {k1, k2}
MCSzkPkrs == {k1}

InP2 == [kind |-> "P", owner |-> k1, skr |-> k1, value |-> 2]
InC1 == [kind |-> "C", owner |-> k1, skr |-> k1, value |-> 1]
InForeign == [kind |-> "P", owner |-> k2, skr |-> k1, value |-> 2]
InCForeign == [kind |-> "C", owner |-> k2, skr |-> k1, value |-> 1]
OutSzk == [pkr |-> k1, value |-> 1]
OutPlain == [pkr |-> k2, value |-> 1]

NoPkgCmd == [create |-> FALSE, createValue |-> 0, transfer |-> FALSE, close |-> FALSE, closeValue |-> 0]
PkgCmds == {NoPkgCmd,
            [NoPkgCmd EXCEPT !.create = TRUE, !.createValue = 1],
            [NoPkgCmd EXCEPT !.transfer = TRUE],
            [NoPkgCmd EXCEPT !.close = TRUE, !.closeValue = 1],
            [NoPkgCmd EXCEPT !.transfer = TRUE, !.close = TRUE, !.closeValue = 1]}

MCParams ==
  [from : {k1}, fromKey : {k1, k2}, fee : {1, 2}, z : BOOLEAN,
   ins : {<<InP2>>, <<InP2, InC1>>, <<InForeign>>, <<InCForeign>>},
   outs : {<<OutSzk>>, <<OutPlain>>, <<OutSzk, OutPlain>>},
   cmds : {{}, {"contract"}, {"buyshare", "contract"}, {"closepool"}},
   cmdValue : {[k \in CmdKinds |-> IF k = "buyshare" THEN 1 ELSE 0]},
   pkg : PkgCmds]
=============================================================================
