SPECIFICATION Spec
CONSTANTS
  PlanRequest = {p1}
  ChangeRequest = {r1, r2}
  Poller = {q1, q2}
  Admin = {a1, a2}
  Config = {c1, c2}
  Key = {k1, k2}
  HighRisk = {c2}
  MaxSchema = 1
  MaxFaults = 1
  None = None
  c1 = c1
  c2 = c2
  History <- TwoRevisions
SYMMETRY Symmetry
CHECK_DEADLOCK FALSE
INVARIANTS SuccessIsTrue AppliedWasPlanned PendingIsExpected
PROPERTY LedgerKept
