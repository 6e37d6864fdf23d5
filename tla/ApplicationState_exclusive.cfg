SPECIFICATION Spec
CONSTANTS
  Sbis = {s1}
  Owners = {o1, o2}
  Versions = {1, 2}
  Major <- MajorOf
  Ids = {d1, d2}
  References = {ref1}
  Requests = {r1, r2}
  Purgers = {p1}
  Nobody = Nobody
  NoDocument = NoDocument
  Operations = {"save", "retrieve", "delete", "patch", "submit", "withDefinition", "stateOnly"}
  ClientStatuses = {"OPEN"}
  PurgeRule = {1}
  SerialClients = TRUE
  MatchingTokens = TRUE
  KnownVersions = FALSE
  Withdrawals = FALSE
  ReplicaLag = FALSE
SYMMETRY StateSymmetry
INVARIANTS
  TypeOK
  LockIsHeld
  ExclusiveAccess
PROPERTIES
  ChangesAreLocked
  SubmissionFreesApplication
  ImplementsLease
