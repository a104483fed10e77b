\* The same chain, one RPC goroutine, no restart, reliable writes.
CONSTANTS
  o1 = o1
  o2 = o2
  o3 = o3
  p1 = p1
  p2 = p2
  r1 = r1
  r2 = r2
  Outs = {o1, o2, o3}
  Pkrs = {p1, p2}
  PkrOf <- MCPkrOf
  Blocks <- MCBlocks
  MaxBlocks = 3
  FetchCount = 2
  Readers = {r1}
  MaxCalls = 2
  MaxRestarts = 0
  WriteMayFail = FALSE
SPECIFICATION Spec
PROPERTIES
  CursorMonotonic
