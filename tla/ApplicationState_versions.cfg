SPECIFICATION Spec
CONSTANTS
  Sbis = {s1}
  Owners = {o1}
  Versions = {1, 2, 4}
  Major <- MajorOf
  Ids = {d1, d2}
  References = {ref1}
  Requests = {r1, r2}
  Purgers = {}
  Nobody = Nobody
  NoDocument = NoDocument
  Operations = {"save", "withDefinition", "admin", "clear"}
  ClientStatuses = {"OPEN"}
  PurgeRule = {}
  SerialClients = FALSE
  MatchingTokens = TRUE
  KnownVersions = FALSE
  Withdrawals = TRUE
  ReplicaLag = TRUE
SYMMETRY StateSymmetry
INVARIANTS
  PinnedMajorKept
  OneDocumentPerVersion
  SnapshotsAgree
