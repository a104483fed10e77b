CONSTANTS
  n1 = n1
  n2 = n2
  r1 = r1
  r2 = r2
  o1 = o1
  o2 = o2
  p1 = p1
  Nils <- MCNils
  Roots <- MCRoots
  Pkrs <- MCPkrs
  SzkPkrs <- MCSzkPkrs
  PkgIds <- MCPkgIds
  Txs <- MCTxs
  MaxLog = 3
  MaxRevId = 2
  MaxLeaves = 2
  CommunityPkr <- MCCommunityPkr

SPECIFICATION Spec

INVARIANTS
  TypeOK
  NoRevertPanic
  NoDoubleSpend
  TreeMatchesOutputs

PROPERTIES
  RevertRestoresSnapshot
  PackageTransitionsAuthorized
  LedgerRefined
