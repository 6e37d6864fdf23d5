SPECIFICATION FairSpec
CONSTANTS
  Owners = {o1, o2}
  Keys = {k1}
  Calls = {c1, c2}
  Nobody = Nobody
  APPLICATION_LOCK_TTL_MS = 4
  MaxSkew = 1
  MaxDelay = 1
  MaxTime = 6
INVARIANTS
  TypeOK
  MutualExclusion
  RelianceIsBacked
PROPERTIES
  NoTakeoverBeforeExpiry
  OwnLockIsNoObstacle
  ImplementsLease
  AbandonedLockIsReclaimed
