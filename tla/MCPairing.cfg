SPECIFICATION Both
CONSTANTS
  Managed = {m1, m2}
  Instance = {i1, i2}
  Key = {k1, k2}
  Enrollment = {e1, e2}
  Proc = {p1, p2}
  None = None
  RelayRequest = {k1, k2}
  Creator = {m1, m2}
  Claimer = {p1, p2}
  Revoker = {i1, i2}
  CodeTTL = 1
  RecoveryTTL = 1
  MaxTime = 2
  MaxGeneration = 8
SYMMETRY Symmetry
CHECK_DEADLOCK FALSE
INVARIANTS OneClaimant RelayAgreement RevokedMeansClosed 
PROPERTIES RegistryKept ClosedForGood
