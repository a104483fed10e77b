---------------------------- MODULE EthashRules ----------------------------
(***************************************************************************)
(* The header rules of the ethash engine (consensus/ethash/consensus.go)  *)
(* as pure operators: verifyHeader, VerifySeal, CalcDifficulty with the   *)
(* AutumnTwilight adjustment, the single-header VerifyHeader and Prepare. *)
(*                                                                         *)
(* A header is a record                                                    *)
(*   [hash, parent, number, time, diff, gasLimit, gasUsed, extra, pow]    *)
(* where hash and parent are small integers standing for the hashes,      *)
(* extra is the length of the extra-data, and pow is what hashimotoLight  *)
(* makes of the seal: "ok", "mix" (the digest differs) or "pow" (the      *)
(* result is above the target).  The chain reader is the set Chain of the *)
(* headers it holds.  The engine runs in the normal PoW mode: the fake     *)
(* modes skip the checks altogether.  The params constants are CONSTANTS.  *)
(***************************************************************************)
EXTENDS Integers

CONSTANTS
  Chain,                   \* the headers chain.GetHeader finds
  Now,                     \* time.Now() in seconds while verifying
  AllowedFutureBlockTime,  \* allowedFutureBlockTime, 15 s
  MaximumExtraDataSize,    \* params.MaximumExtraDataSize
  MinGasLimit,             \* params.MinGasLimit
  DifficultyBoundDivisor,  \* params.DifficultyBoundDivisor
  MinimumDifficulty,       \* params.MinimumDifficulty
  TestFork,                \* zconfig.IsTestFork()
  TestForkStart,           \* zconfig.GetTestForkStartBlock()
  Dev,                     \* deceparam.Is_Dev()
  GasCap                   \* cap, 0x7fffffffffffffff (TLC stops at 2^31 - 1)

ASSUME DifficultyBoundDivisor > 0 /\ MinimumDifficulty > 0
ASSUME TestFork \in BOOLEAN /\ Dev \in BOOLEAN

None == [hash |-> -1]   \* a nil *types.Header

(* The error values, one per return of the code. *)
HeaderErrors == {"unknownAncestor", "extraData", "futureBlock", "zeroBlockTime",
                 "difficulty", "gasLimitCap", "gasUsed", "gasLimitBound",
                 "invalidNumber", "nonPositiveDifficulty", "mixDigest", "invalidPoW"}

(* chain.GetHeader(hash, number) over a set of headers. *)
GetHeaderIn(hs, hash, number) ==
  IF \E h \in hs : h.hash = hash /\ h.number = number
  THEN CHOOSE h \in hs : h.hash = hash /\ h.number = number
  ELSE None

(* Mutant: the -99 floor of the adjustment is left out. *)
calcDifficultyNoFloor(time, parent) ==
  LET x == parent.diff + (parent.diff \div DifficultyBoundDivisor) * (1 - (time - parent.time) \div 9)
  IN  IF x < MinimumDifficulty THEN MinimumDifficulty ELSE x

(* calcDifficultyAutumnTwilight: parent_diff + parent_diff / 2048 *      *)
(* max(1 - (time - parent.time) // 9, -99), at least MinimumDifficulty.   *)
(* big.Int Div is Euclidean, which for the positive divisors here is the  *)
(* floor division \div.                                                   *)
calcDifficultyAutumnTwilight(time, parent) ==
  LET x0 == 1 - (time - parent.time) \div 9
      x1 == IF x0 < -99 THEN -99 ELSE x0
      x  == parent.diff + (parent.diff \div DifficultyBoundDivisor) * x1
  IN  IF x < MinimumDifficulty THEN MinimumDifficulty ELSE x

(* CalcDifficulty: a fixed 10000 on the test fork from its start block   *)
(* and on the dev network, AutumnTwilight otherwise.                     *)
CalcDifficulty(time, parent) ==
  IF (TestFork /\ parent.number >= TestForkStart) \/ Dev
  THEN 10000
  ELSE calcDifficultyAutumnTwilight(time, parent)

(* VerifySeal in the normal mode: the difficulty must be positive, then  *)
(* hashimotoLight's digest and result are compared.                       *)
VerifySeal(header) ==
  CASE header.diff <= 0      -> "nonPositiveDifficulty"
    [] header.pow = "mix"    -> "mixDigest"
    [] header.pow = "pow"    -> "invalidPoW"
    [] OTHER                 -> "nil"

(* The gas limit may move by less than parent/1024 down and less than    *)
(* parent/128 up, and never below MinGasLimit.                            *)
GasLimitOutOfBounds(header, parent) ==
  LET diff    == parent.gasLimit - header.gasLimit
      divisor == IF diff < 0 THEN 128 ELSE 1024
      limit   == parent.gasLimit \div divisor
  IN  (IF diff < 0 THEN -diff ELSE diff) >= limit \/ header.gasLimit < MinGasLimit

(* verifyHeader: the checks in the order the code makes them. *)
verifyHeader(header, parent, seal) ==
  CASE header.extra > MaximumExtraDataSize                 -> "extraData"
    [] header.time > Now + AllowedFutureBlockTime          -> "futureBlock"
    [] header.time <= parent.time                          -> "zeroBlockTime"
    [] CalcDifficulty(header.time, parent) # header.diff   -> "difficulty"
    [] header.gasLimit > GasCap                            -> "gasLimitCap"
    [] header.gasUsed > header.gasLimit                    -> "gasUsed"
    [] GasLimitOutOfBounds(header, parent)                 -> "gasLimitBound"
    [] header.number - parent.number # 1                   -> "invalidNumber"
    [] seal /\ VerifySeal(header) # "nil"                  -> VerifySeal(header)
    [] OTHER                                               -> "nil"

(* VerifyHeader over the headers hs the chain reader holds: a known      *)
(* header is accepted, a header whose parent is missing is rejected.     *)
VerifyHeader(hs, header, seal) ==
  LET parent == GetHeaderIn(hs, header.parent, header.number - 1)
  IN  CASE GetHeaderIn(hs, header.hash, header.number) # None -> "nil"
        [] parent = None                                     -> "unknownAncestor"
        [] OTHER                                             -> verifyHeader(header, parent, seal)

(* Prepare: the header's difficulty is set from its parent, if found.    *)
Prepare(hs, header) ==
  LET parent == GetHeaderIn(hs, header.parent, header.number - 1)
  IN  IF parent = None THEN header
      ELSE [header EXCEPT !.diff = CalcDifficulty(header.time, parent)]
====
