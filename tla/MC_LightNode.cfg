\* Three blocks fetched two at a time, two RPC goroutines, two restarts,
\* writes that may fail.
CONSTANTS
  o1 = o1
  o2 = o2
  o3 = o3
  p1 = p1
  p2 = p2
  r1 = r1
  r2 = r2
  Outs = {o1, o2, o3}
  Pkrs = {p1, p2}
  PkrOf <- MCPkrOf
  Blocks <- MCBlocks
  MaxBlocks = 3
  FetchCount = 2
  Readers = {r1, r2}
  MaxCalls = 2
  MaxRestarts = 2
  WriteMayFail = TRUE
SPECIFICATION Spec
INVARIANTS
  TypeOK
  IndexServesChain
PROPERTIES
  LightCatchUp
