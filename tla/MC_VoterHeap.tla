---------------------------- MODULE MC_VoterHeap ----------------------------
(***************************************************************************)
(* Four keys for a queue of three places, so a full PushItem evicts and a *)
(* key can come back after it was popped or evicted; three blocks, so     *)
(* ties and every order of three items occur; two values, so an update    *)
(* of a present key may change the value, the block or both.              *)
(***************************************************************************)
EXTENDS VoterHeap

CONSTANTS k1, k2, k3, k4, x1, x2

MCKeys == {k1, k2, k3, k4}
MCValues == {x1, x2}
MCBlocks == 1 .. 3
====
