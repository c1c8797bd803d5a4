SPECIFICATION FairSpec
CONSTANTS
  s1 = s1
  s2 = s2
  Calls = {c1, c2}
  Schemas = {s1, s2}
  SchemaOf <- MCSchemaOf
  Attempts = 3
  Rungs = 4
  Unit = 2
  Capacity = 1
  Ratio = 1
INVARIANTS
  TypeOK
  RetriesBounded
  StaysBelowRefusals
  RequestsBounded
PROPERTIES
  CallsEnd
CHECK_DEADLOCK FALSE
