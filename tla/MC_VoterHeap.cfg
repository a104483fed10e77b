CONSTANTS
  k1 = k1
  k2 = k2
  k3 = k3
  k4 = k4
  x1 = x1
  x2 = x2
  Keys <- MCKeys
  Values <- MCValues
  Blocks <- MCBlocks
  MaxSize = 3
INIT Init
NEXT Next
INVARIANTS
  TypeOK
  HeapIndexed
PROPERTIES
  QueueRefined
