SPECIFICATION Spec
CONSTANTS
  stride = stride
  asvs = asvs
  c1 = c1
  c2 = c2
  Frameworks = {stride, asvs}
  Lanes = {l1, l2}
  Claims = {c1, c2}
  ClaimsOf <- MCClaimsOf
  Builds <- MCBuilds
  Skip = skip
  None = None
INVARIANTS
  TypeOK
  ReportIsWhole
  ReaskInBrief
PROPERTIES
  RunEnds
CHECK_DEADLOCK FALSE
