SPECIFICATION Spec
CONSTANTS
  Users <- MCUsers
  Lists <- MCLists
  Instances = {a}
  Calls = {c1}
  ttl = 1
  MaxRead = 1
  MaxLag = 1
  NoAnswer = NoAnswer
INVARIANTS
  TypeOK
  RevokedAreRefused
  AdmittedAreAllowed
