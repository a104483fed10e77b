\* Two accounts a block apart, one GenTxWithSign call and the merge job
\* running beside it, two blocks whose outputs are a1's.
CONSTANTS
  a1 = a1
  a2 = a2
  q1 = q1
  q2 = q2
  m = m
  Pks = {a1, a2}
  Roots = {1, 2}
  Owner <- MCOwnerA1
  InitPks = {a1, a2}
  At <- MCAt2
  InitOuts = {1}
  Reqs = {q1}
  ReqKinds = {"sign"}
  AutoMerge = TRUE
  Merger = m
  MergeLeft = 1
  FetchCount = 1
  MaxBlocks = 2
  MaxAmount = 1
  WriteMayFail = FALSE
SPECIFICATION Spec
INVARIANTS
  TypeOK
  IndexMatchesChain
PROPERTIES
  CatchUp
