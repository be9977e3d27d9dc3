SPECIFICATION FairSpec
CONSTANTS
  None = None
  a = a
  b = b
  t = t
  s = s
  App <- MCApp
  Token = {t}
  Secret = {s}
  Origin = {}
  DefaultToken = t
  AllowEmptySignature = FALSE
  CorsEnabled = FALSE
  AllowedOrigins <- MCOrigins
  Tables <- MCTables
  ConfiguredApps <- TestApps
  ManageApps = FALSE
  RowColumns <- ColumnsRead
  DbFails = FALSE
  Conn = {c1, c2}
  Development = TRUE
INVARIANTS
  TypeOK
  ShutdownDrains
PROPERTIES
  ShutdownEnds
  SnapshotsAreServed
CHECK_DEADLOCK FALSE
