\* a1 present from the start, a2 arriving while the index runs; four blocks of share records.
CONSTANTS
  a1 = a1
  a2 = a2
  p1 = p1
  p2 = p2
  p3 = p3
  s1 = s1
  s2 = s2
  s3 = s3
  none = none
  Pks = {a1, a2}
  Pkrs = {p1, p2, p3}
  Ids = {s1, s2, s3}
  PkrOwner <- MCOwner
  NoPk = none
  InitPks = {a1}
  At <- MCAt
  Records <- MCRecords
  MaxBlocks = 4
  Confirmed = 1
  MaxPerRun = 2
  WriteMayFail = FALSE
  Uint32Mod = 65536
SPECIFICATION Spec
INVARIANTS
  TypeOK
PROPERTIES
  IndexCatchUp
