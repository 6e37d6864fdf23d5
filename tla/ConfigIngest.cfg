SPECIFICATION FairSpec
CONSTANTS
  a = a
  b = b
  Instances = {a, b}
  Restarting = {a}
  Versions = {1, 2}
  Statuses = {"active", "retired"}
  WithDefinition = {2}
  WithAllowlist = {1, 2}
  sqsMaxMessages = 1
  MaxNews = 2
  Absent = Absent
  NoVersion = NoVersion
INVARIANTS
  TypeOK
  NotificationsAreNotLost
  ConsumedMeansReconciled
  OneListUnlessRaced
PROPERTIES
  ImplementsRegister
  PullReconciles
  NotificationsAreConsumed
