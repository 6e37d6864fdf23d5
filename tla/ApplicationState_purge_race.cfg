SPECIFICATION Spec
CONSTANTS
  Sbis = {s1}
  Owners = {o1}
  Versions = {1}
  Major <- MajorOf
  Ids = {d1, d2}
  References = {ref1}
  Requests = {r1, r2}
  Purgers = {p1}
  Nobody = Nobody
  NoDocument = NoDocument
  Operations = {"save", "patch"}
  ClientStatuses = {"OPEN", "SUBMITTED"}
  PurgeRule = {1}
  SerialClients = TRUE
  MatchingTokens = TRUE
  KnownVersions = TRUE
  Withdrawals = FALSE
  ReplicaLag = FALSE
SYMMETRY StateSymmetry
PROPERTIES
  PurgeSparesSubmitted
