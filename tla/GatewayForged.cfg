SPECIFICATION Spec
CONSTANTS
  None = None
  a = a
  b = b
  t = t
  other = other
  default = default
  s1 = s1
  s2 = s2
  site = site
  i = i
  zero = zero
  App <- MCApp
  UuidApps <- MCUuidApps
  Ifa <- MCIfa
  NilIfa = zero
  Token = {t, other, default}
  Secret = {s1, s2}
  Origin = {site}
  DefaultToken = default
  AllowEmptySignature = FALSE
  CorsEnabled = TRUE
  AllowedOrigins <- MCOrigins
  Managed = TRUE
  Overlap = TRUE
  PoolSize = 2
  Req = {r1}
  Id = {d0, d1}
  PriorIds = {d0}
  Messages <- Forged
  Snapshots <- TwoMaps
  MaxBlocking = 1
  DbFails = FALSE
INVARIANT
  ForgedIdIsRefused
CHECK_DEADLOCK FALSE
