SPECIFICATION FairSpec
CONSTANTS
  None = None
  a = a
  b = b
  t = t
  s = s
  App <- MCApp
  Token = {t}
  Secret = {s}
  Origin = {}
  DefaultToken = t
  AllowEmptySignature = FALSE
  CorsEnabled = FALSE
  AllowedOrigins <- MCOrigins
  Tables <- MCTables
  ConfiguredApps <- Both
  ManageApps = TRUE
  ConfigFails = FALSE
  RowColumns <- SelectedColumns
  DbFails = FALSE
INVARIANT
  DatabaseAppsLoad
