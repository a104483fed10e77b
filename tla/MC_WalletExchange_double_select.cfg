\* Two concurrent RPC calls that select outputs.
CONSTANTS
  a1 = a1
  a2 = a2
  q1 = q1
  q2 = q2
  m = m
  Pks = {a1, a2}
  Roots = {1, 2, 3}
  Owner <- MCOwner
  InitPks = {a1, a2}
  At <- MCAt
  InitOuts = {1}
  Reqs = {q1, q2}
  ReqKinds = {"gentx", "sign"}
  AutoMerge = FALSE
  Merger = m
  MergeLeft = 1
  FetchCount = 1
  MaxBlocks = 3
  MaxAmount = 1
  WriteMayFail = FALSE
SPECIFICATION Spec
INVARIANT
  BuiltTxSpendable
