SPECIFICATION FairSpec
CONSTANTS
  None = None
  a = a
  b = b
  named = named
  i = i
  j = j
  zero = zero
  App <- MCApp
  UuidApps <- MCUuidApps
  Ifa <- MCIfa
  NilIfa = zero
  Req = {r1, r2, r3}
  Id = {d1, d2, d3}
  PriorIds = {}
  Devices <- ThreeDevices
  MaxBlocking = 2
  PoolSize = 2
  DbFails = FALSE
  Overlap = FALSE
INVARIANT
  IdentityIsKept
PROPERTIES
  ServesDirectory
  RegistrationsEnd
CHECK_DEADLOCK FALSE
