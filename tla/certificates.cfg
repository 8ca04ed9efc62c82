SPECIFICATION Spec
CONSTANTS
  Certs = {c1, c2}
  Signers = {s1, s2}
  LastDay = 3
  NoCert = NoCert
INVARIANTS
  ExpiredIsPast
  RefusalsAreHonest
PROPERTIES
  RevokedIsFinal
CHECK_DEADLOCK FALSE
