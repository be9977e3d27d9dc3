SPECIFICATION FairSpec
CONSTANTS
  None = None
  a = a
  b = b
  t = t
  s = s
  App <- MCApp
  Token = {t}
  Secret = {s}
  Origin = {}
  DefaultToken = t
  AllowEmptySignature = FALSE
  CorsEnabled = FALSE
  AllowedOrigins <- MCOrigins
  Tables <- MCTables
  ConfiguredApps <- Both
  ManageApps = TRUE
  ConfigFails = TRUE
  RowColumns <- ReadColumns
  DbFails = TRUE
INVARIANTS
  TypeOK
  OneLateUpdate
PROPERTIES
  ServesSnapshots
  EditsAreServed
  UpdaterIsJoined
