SPECIFICATION Spec
CONSTANTS
  Sbis = {s1}
  Owners = {o1, o2}
  Versions = {1, 2}
  Major <- MajorOf
  Ids = {d1, d2}
  References = {ref1}
  Requests = {r1, r2}
  Purgers = {}
  Nobody = Nobody
  NoDocument = NoDocument
  Operations = {"save", "delete", "withDefinition"}
  ClientStatuses = {"OPEN"}
  PurgeRule = {}
  SerialClients = TRUE
  MatchingTokens = TRUE
  KnownVersions = TRUE
  Withdrawals = FALSE
  ReplicaLag = FALSE
SYMMETRY StateSymmetry
PROPERTIES
  UpgradedMeansPersisted
