SPECIFICATION Spec
CONSTANTS
  Row = {1}
  Lease = {l1, l2, l3}
  Handler = {h1, h2}
  ActivationID = {a1, a2}
  NoActivation = NoActivation
  NoRow = NoRow
  NoLease = NoLease
  MaxEpoch = 2
  TTL = 2
  Fallback = 4
  Throttle = 1
  LegacyWindow = 3
  Retention = 1
  BaseTime = 5
  LastArrival = 6
  LastReport = 6
  MaxTime = 9
  MaxDelay = 2
SYMMETRY Symmetry
CHECK_DEADLOCK FALSE
INVARIANTS
  LiveLeaseIsCurrent
  OnlineUntilIsAggregate
PROPERTIES
  DeletedRowIsInert
