SPECIFICATION FairHSpec
CONSTANTS
  Row = {1}
  Lease = {l1, l2}
  Handler = {h1, h2}
  ActivationID = {a1}
  NoActivation = NoActivation
  NoRow = NoRow
  NoLease = NoLease
  MaxEpoch = 1
  TTL = 2
  Fallback = 3
  Throttle = 1
  LegacyWindow = 2
  Retention = 2
  BaseTime = 5
  LastArrival = 6
  LastReport = 8
  MaxTime = 10
  MaxDelay = 1
CHECK_DEADLOCK FALSE
INVARIANTS AuthorityWithinDelay OnlineMeansRecentContact
PROPERTIES RequestsAnswered CrashedClientGoesOffline
