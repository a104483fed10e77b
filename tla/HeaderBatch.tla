---------------------------- MODULE HeaderBatch ----------------------------
(***************************************************************************)
(* What Ethash.VerifyHeaders promises (consensus.go, its doc comment):   *)
(* it "is similar to VerifyHeader, but verifies a batch of headers        *)
(* concurrently", and the caller may abort it.  Seen from the caller, the *)
(* results channel grows by the verdicts VerifyHeader gives each header  *)
(* in order, header i checked against the chain extended by the headers  *)
(* before it in the batch; nothing is ever taken back.                    *)
(***************************************************************************)
EXTENDS EthashRules, Sequences

CONSTANTS Batches, MayAbort

VARIABLES
  headers,   \* the batch: a sequence of [header, seal] pairs
  results,   \* what the results channel carried, in order
  aborted    \* the caller closed abort

N == Len(headers)

(* The chain as the i-th header (0-based) sees it. *)
ChainBefore(i) == Chain \cup {headers[j].header : j \in 1 .. i}

(* The verdict VerifyHeader gives header i. *)
Verdict(i) == VerifyHeader(ChainBefore(i), headers[i + 1].header, headers[i + 1].seal)

Init ==
  /\ headers \in Batches
  /\ results = <<>>
  /\ aborted = FALSE

(* The next k verdicts reach the results channel. *)
Deliver ==
  \E k \in 1 .. N - Len(results) :
    /\ results' = results \o [j \in 1 .. k |-> Verdict(Len(results) + j - 1)]
    /\ UNCHANGED <<headers, aborted>>

Abort ==
  /\ MayAbort /\ ~aborted
  /\ aborted' = TRUE
  /\ UNCHANGED <<headers, results>>

Spec == Init /\ [][Deliver \/ Abort]_<<headers, results, aborted>>
====
