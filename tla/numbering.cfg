SPECIFICATION FairSpec
CONSTANTS
  Callers = {r1, r2, r3}
  Series = {s1, s2}
  NoRequest = NoRequest
  NoSeries = NoSeries
INVARIANTS
  NumberingTypeOK
  NumbersAreConsecutive
  LocksAreExclusive
PROPERTIES
  KeepsPromise
  EveryRequestEnds
CHECK_DEADLOCK FALSE
