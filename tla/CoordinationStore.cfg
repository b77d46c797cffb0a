SPECIFICATION Spec
SYMMETRY Symmetry
CONSTANTS
  Owners = {o1, o2}
  Resources = {r1}
  Checkers = {p1}
  Ttls = {1, 2}
  MaxTime = 3
  MaxToken = 3
  Nobody = Nobody
INVARIANTS
  TypeOK
  ActiveIsNewest
  OkReportsCurrent
PROPERTIES
  LiveClaimIsSafe
  RetiredForGood
  OkVerdictIsJustified
  KeepsFencedLock
