SPECIFICATION FairSpec
CONSTANTS
  None = None
  a = a
  b = b
  t = t
  other = other
  default = default
  s1 = s1
  s2 = s2
  site = site
  i = i
  zero = zero
  App <- MCApp
  UuidApps <- MCUuidApps
  Ifa <- MCIfa
  NilIfa = zero
  Token = {t, other, default}
  Secret = {s1, s2}
  Origin = {site}
  DefaultToken = default
  AllowEmptySignature = FALSE
  CorsEnabled = TRUE
  AllowedOrigins <- MCOrigins
  Managed = TRUE
  Overlap = TRUE
  PoolSize = 2
  Req = {r1, r2}
  Id = {d1, d2}
  PriorIds = {}
  Messages <- OnlyRegistration
  Snapshots <- OneMap
  MaxBlocking = 1
  DbFails = TRUE
PROPERTIES
  AcceptedRequestsEnd
  RegistrationsEnd
CHECK_DEADLOCK FALSE
