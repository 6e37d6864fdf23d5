SPECIFICATION Spec
CONSTANTS
  Sbis = {s1}
  Owners = {o1}
  Versions = {1, 2, 4}
  Major <- MajorOf
  Ids = {d1, d2, d3}
  References = {ref1}
  Requests = {r1, r2}
  Purgers = {p1}
  Nobody = Nobody
  NoDocument = NoDocument
  Operations = {"save", "delete", "submit", "withDefinition", "stateOnly"}
  ClientStatuses = {"OPEN", "PURGED"}
  PurgeRule = {1}
  SerialClients = TRUE
  MatchingTokens = FALSE
  KnownVersions = TRUE
  Withdrawals = FALSE
  ReplicaLag = FALSE
SYMMETRY StateSymmetry
PROPERTIES
  UpgradedMeansPersisted
  VersionsOnlyRise
  ReturnedStateIsStored
  PurgesKeepToMajors
