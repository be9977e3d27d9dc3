SPECIFICATION Spec
CONSTANTS
  None = None
  a = a
  b = b
  named = named
  i = i
  j = j
  zero = zero
  App <- MCApp
  UuidApps <- MCUuidApps
  Ifa <- MCIfa
  NilIfa = zero
  Req = {r1, r2, r3}
  Id = {d0, d1, d2, d3}
  PriorIds = {d0}
  Devices <- AllDevices
  MaxBlocking = 2
  PoolSize = 2
  DbFails = TRUE
  Overlap = TRUE
SYMMETRY Permuted
INVARIANTS
  TypeOK
  DevicesNeverShareAnId
PROPERTY
  ReplacedOnlyAfterAMiss
CHECK_DEADLOCK FALSE
