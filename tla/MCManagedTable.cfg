SPECIFICATION Spec
CONSTANTS
  Managed = {m1, m2}
  Instance = {i1, i2}
  Enrollment = {e1, e2}
  Proc = {p1, p2}
  None = None
  MaxGeneration = 5
SYMMETRY Symmetry
INVARIANTS LoadedAfterExport TableHonest
