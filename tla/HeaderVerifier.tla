--------------------------- MODULE HeaderVerifier ---------------------------
(***************************************************************************)
(* Ethash.VerifyHeaders (consensus/ethash/consensus.go): a batch of       *)
(* headers verified by a pool of goroutines.  One goroutine hands the     *)
(* indices out over the unbuffered channel `inputs`; `workers` goroutines *)
(* verify a header each (verifyHeaderWorker), store its error in          *)
(* errors[index] and report the index on `done`, buffered to `workers`;  *)
(* the same goroutine marks the index checked and forwards the errors to  *)
(* errorsOut in header order.  The caller may close `abort` at any time.  *)
(* When that goroutine returns, its deferred close(inputs) ends the       *)
(* workers' range loops.                                                   *)
(*                                                                         *)
(* The header rules (verifyHeader, CalcDifficulty, VerifySeal) are the    *)
(* operators of EthashRules; a batch entry is [header, seal], seal being *)
(* seals[index].  Indices are 0-based, as in the code.                    *)
(***************************************************************************)
EXTENDS EthashRules, Sequences, FiniteSets

CONSTANTS
  Batches,   \* the header batches VerifyHeaders may be called with
  Workers,   \* the verifier goroutines: min(GOMAXPROCS(0), len(headers))
  MayAbort   \* whether the caller closes abort

ASSUME Workers # {} /\ MayAbort \in BOOLEAN

VARIABLES
  headers,   \* the batch, a sequence of header descriptions
  in,        \* the next index to hand out
  out,       \* the first index not yet forwarded
  checked,   \* checked[i]: the index came back on done
  errors,    \* errors[i]: what the worker stored for header i
  done,      \* the buffered channel done
  errorsOut, \* what was sent on the results channel, in order
  epc,       \* the hand-out goroutine: "select" or "returned"
  wpc,       \* wpc[w]: "recv", "verify", "send" or "exited"
  widx,      \* widx[w]: the index worker w holds
  aborted    \* abort has been closed

vars == <<headers, in, out, checked, errors, done, errorsOut, epc, wpc, widx, aborted>>

N == Len(headers)
Idx == 0 .. N - 1
Results == HeaderErrors \cup {"nil"}
NoErr == "unset"

(* verifyHeaderWorker: the parent is the chain's header for index 0 and *)
(* the previous header of the batch, if it links, otherwise; a known    *)
(* header is accepted without verifyHeader.                             *)
verifyHeaderWorker(i) ==
  LET h      == headers[i + 1].header
      parent == IF i = 0 THEN GetHeaderIn(Chain, h.parent, h.number - 1)
                ELSE IF headers[i].header.hash = h.parent THEN headers[i].header
                ELSE None
  IN  CASE parent = None                              -> "unknownAncestor"
        [] GetHeaderIn(Chain, h.hash, h.number) # None -> "nil"
        [] OTHER                                      -> verifyHeader(h, parent, headers[i + 1].seal)

(* The first index at or after k that has not come back on done, or N. *)
RECURSIVE FirstUnchecked(_, _)
FirstUnchecked(c, k) == IF k < N /\ c[k] THEN FirstUnchecked(c, k + 1) ELSE k

(* The errors of indices a .. b - 1, in order. *)
Forwarded(a, b) == [j \in 1 .. b - a |-> errors[a + j - 1]]

Init ==
  /\ headers \in Batches
  /\ in = 0
  /\ out = 0
  /\ checked = [i \in Idx |-> FALSE]
  /\ errors = [i \in Idx |-> NoErr]
  /\ done = <<>>
  /\ errorsOut = <<>>
  /\ epc = "select"
  /\ wpc = [w \in Workers |-> "recv"]
  /\ widx = [w \in Workers |-> 0]
  /\ aborted = FALSE

-----------------------------------------------------------------------------
(* Mutant: the hand-out stops one index short. *)
SendInputSkipsLast(w) ==
  /\ epc = "select"
  /\ in < N - 1
  /\ wpc[w] = "recv"
  /\ widx' = [widx EXCEPT ![w] = in]
  /\ wpc' = [wpc EXCEPT ![w] = "verify"]
  /\ in' = in + 1
  /\ UNCHANGED <<headers, out, checked, errors, done, errorsOut, epc, aborted>>

(* case inputs <- in: a worker waiting in its range loop takes the next *)
(* index; once in = len(headers) the local inputs is nil and the case   *)
(* never fires again.                                                   *)
SendInput(w) ==
  /\ epc = "select"
  /\ in < N
  /\ wpc[w] = "recv"
  /\ widx' = [widx EXCEPT ![w] = in]
  /\ wpc' = [wpc EXCEPT ![w] = "verify"]
  /\ in' = in + 1
  /\ UNCHANGED <<headers, out, checked, errors, done, errorsOut, epc, aborted>>

(* errors[index] = ethash.verifyHeaderWorker(...) *)
WorkerVerify(w) ==
  /\ wpc[w] = "verify"
  /\ errors' = [errors EXCEPT ![widx[w]] = verifyHeaderWorker(widx[w])]
  /\ wpc' = [wpc EXCEPT ![w] = "send"]
  /\ UNCHANGED <<headers, in, out, checked, done, errorsOut, epc, widx, aborted>>

(* Mutant: done is unbounded. *)
WorkerSendUnbounded(w) ==
  /\ wpc[w] = "send"
  /\ done' = Append(done, widx[w])
  /\ wpc' = [wpc EXCEPT ![w] = "recv"]
  /\ UNCHANGED <<headers, in, out, checked, errors, errorsOut, epc, widx, aborted>>

(* done <- index: blocks while the buffer holds `workers` indices. *)
WorkerSend(w) ==
  /\ wpc[w] = "send"
  /\ Len(done) < Cardinality(Workers)
  /\ done' = Append(done, widx[w])
  /\ wpc' = [wpc EXCEPT ![w] = "recv"]
  /\ UNCHANGED <<headers, in, out, checked, errors, errorsOut, epc, widx, aborted>>

(* The range loop ends when inputs is closed. *)
WorkerExit(w) ==
  /\ wpc[w] = "recv"
  /\ epc = "returned"
  /\ wpc' = [wpc EXCEPT ![w] = "exited"]
  /\ UNCHANGED <<headers, in, out, checked, errors, done, errorsOut, epc, widx, aborted>>

(* Mutant: an error is forwarded as soon as its index comes back. *)
ReceiveDoneByArrival ==
  /\ epc = "select"
  /\ done # <<>>
  /\ checked' = [checked EXCEPT ![Head(done)] = TRUE]
  /\ errorsOut' = Append(errorsOut, errors[Head(done)])
  /\ out' = out + 1
  /\ epc' = IF Len(errorsOut') = N THEN "returned" ELSE "select"
  /\ done' = Tail(done)
  /\ UNCHANGED <<headers, in, errors, wpc, widx, aborted>>

(* case index := <-done: mark it checked, then forward every error from *)
(* out on while checked[out]; after forwarding the last header's error, *)
(* return.                                                               *)
ReceiveDone ==
  /\ epc = "select"
  /\ done # <<>>
  /\ LET c == [checked EXCEPT ![Head(done)] = TRUE]
         k == FirstUnchecked(c, out)
     IN  /\ checked' = c
         /\ errorsOut' = errorsOut \o Forwarded(out, k)
         /\ out' = IF k = N THEN N - 1 ELSE k
         /\ epc' = IF k = N THEN "returned" ELSE "select"
  /\ done' = Tail(done)
  /\ UNCHANGED <<headers, in, errors, wpc, widx, aborted>>

(* case <-abort: return. *)
ReceiveAbort ==
  /\ epc = "select"
  /\ aborted
  /\ epc' = "returned"
  /\ UNCHANGED <<headers, in, out, checked, errors, done, errorsOut, wpc, widx, aborted>>

(* The caller closes abort. *)
Abort ==
  /\ MayAbort
  /\ ~aborted
  /\ aborted' = TRUE
  /\ UNCHANGED <<headers, in, out, checked, errors, done, errorsOut, epc, wpc, widx>>

Next ==
  \/ \E w \in Workers : SendInput(w) \/ WorkerVerify(w) \/ WorkerSend(w) \/ WorkerExit(w)
  \/ ReceiveDone \/ ReceiveAbort
  \/ Abort

(* The goroutines are scheduled fairly, and select picks among ready   *)
(* cases at random; the caller's abort is not assumed to happen.      *)
Fairness ==
  /\ \A w \in Workers : WF_vars(WorkerVerify(w)) /\ WF_vars(WorkerSend(w)) /\ WF_vars(WorkerExit(w))
  /\ WF_vars(\E w \in Workers : SendInput(w))
  /\ WF_vars(ReceiveDone) /\ WF_vars(ReceiveAbort)

Spec == Init /\ [][Next]_vars /\ Fairness

-----------------------------------------------------------------------------
TypeOK ==
  /\ in \in 0 .. N /\ out \in 0 .. N
  /\ checked \in [Idx -> BOOLEAN]
  /\ errors \in [Idx -> Results \cup {NoErr}]
  /\ done \in Seq(Idx) /\ Len(done) <= Cardinality(Workers)
  /\ errorsOut \in Seq(Results) /\ Len(errorsOut) <= N
  /\ epc \in {"select", "returned"}
  /\ wpc \in [Workers -> {"recv", "verify", "send", "exited"}]
  /\ widx \in [Workers -> Idx \cup {0}]
  /\ aborted \in BOOLEAN

(* Seen through the results channel and abort, VerifyHeaders behaves   *)
(* as HeaderBatch: what the channel carries is, in header order and     *)
(* however the workers finish, the verdict the single-header            *)
(* VerifyHeader gives each header, and nothing is taken back.  The      *)
(* hand-out goroutine forwards errors[out] only once out came back on   *)
(* done, and each worker finds the parent the chain would.              *)
Batch == INSTANCE HeaderBatch WITH results <- errorsOut
HeaderBatchRefined == Batch!Spec

(* calcDifficultyAutumnTwilight over the parents of the model and time  *)
(* gaps around its step of 9 s and its -99 floor: a later block never   *)
(* gets a higher difficulty, one block raises it by at most one         *)
(* parent_diff/2048 step and lowers it by at most 99 steps, and it never *)
(* falls below MinimumDifficulty.  The parents are those whose          *)
(* difficulty the rule could have produced: at least the minimum.       *)
Gaps == {1, 8, 9, 10, 17, 18, 890, 899, 900, 908, 909, 1000}
Parents == {p \in Chain \cup {headers[j].header : j \in 1 .. N} : p.diff >= MinimumDifficulty}
DifficultyAdjustment ==
  \A p \in Parents, g1, g2 \in Gaps :
    LET step == p.diff \div DifficultyBoundDivisor
        d1   == calcDifficultyAutumnTwilight(p.time + g1, p)
        d2   == calcDifficultyAutumnTwilight(p.time + g2, p)
    IN  /\ g1 <= g2 => d2 <= d1
        /\ d1 <= p.diff + step
        /\ d1 >= p.diff - 99 * step \/ d1 = MinimumDifficulty
        /\ d1 >= MinimumDifficulty

(* Unless the caller aborts, every header's result reaches the results *)
(* channel.                                                              *)
AllResultsDelivered == <>(Len(errorsOut) = N \/ aborted)

(* Every verifier goroutine ends: none stays blocked on done or inputs. *)
WorkersExit == <>(\A w \in Workers : wpc[w] = "exited")
====
