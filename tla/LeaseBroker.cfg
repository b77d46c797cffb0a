SPECIFICATION Spec
SYMMETRY Symmetry
CHECK_DEADLOCK FALSE
CONSTANTS
  Brokers = {b1}
  Tasks = {t1, t2}
  Workers = {w1, w2}
  Paths = {f1}
  Keys = {k1, k2}
  Ttls = {1}
  Clearances = {TRUE, FALSE}
  Nobody = Nobody
  MaxTime = 2
  MaxEpoch = 2
INVARIANTS
  TypeOK
  LiveScopesDisjoint
  WritesInTenureOrder
  OneCapsulePerEpoch
  CommittedOnce
PROPERTIES
  KeepsFencedLock
