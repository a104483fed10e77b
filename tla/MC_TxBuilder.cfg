CONSTANTS
  k1 = k1
  k2 = k2
  Pkrs <- MCPkrs
  SzkPkrs <- MCSzkPkrs
  Params <- MCParams

SPECIFICATION Spec

\* SignTx returns after done, failed or panic: the build really stops.
CHECK_DEADLOCK FALSE

INVARIANTS
  ConservationWithoutCommands
  InputsAuthorized
