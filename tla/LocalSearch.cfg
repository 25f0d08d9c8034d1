SPECIFICATION MCFairSpec
CONSTANTS
  n = 6
  k = 3
  lam = 0
  mu = 3
  ct <- S3
  Metrics = {"l1", "L2", "L4", "LINF"}
  IntMax = 2147483647
  Calls <- MCCalls
INVARIANTS
  TypeOK
  SumsExact
  MemberExact
  ErrorExact
  ErrorZeroIffPDS
  LocalOptimum
  OldOptimum
PROPERTIES
  Climbs
  Termination
