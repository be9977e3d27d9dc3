SPECIFICATION Spec
CONSTANTS
  None = None
  r1 = r1
  r2 = r2
  d1 = d1
  d2 = d2
  home = home
  unlisted = unlisted
  de = de
  fi = fi
  x = x
  malformed = malformed
  Req = {r1, r2}
  Id = {d1, d2}
  Char = {"a", "b", "_"}
  Inputs <- MCInputs
  CountryOf <- MCCountryOf
  GeoFails = TRUE
  Exact = 4
  MaxTimestamp = 2
INVARIANTS
  RecordIsInOrderOfTime
  AnswersNameTheRecord
  PropertiesArrive
  PropertiesKeepApart
  LocationIsObserved
CHECK_DEADLOCK FALSE
