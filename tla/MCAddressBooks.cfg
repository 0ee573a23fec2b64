CONSTANTS
  c1 = c1  d1 = d1
  owner = owner  other = other  r1 = r1  r2 = r2
  User = {owner, other}  Everyone = Everyone
  Coll = {c1}  Personal = Personal
  Device = {d1}  Tag = {t1}
  Request = {r1, r2}
  Unused = Unused  Gone = Gone
  Serializable = TRUE
  Stored <- Start
  Blank <- Blanks
  MaxRow = 2  MaxRule = 2  MaxReport = 2
SPECIFICATION BooksSpec
SYMMETRY Handlers
CHECK_DEADLOCK FALSE
INVARIANTS ActsWerePermitted RowsBelong InventoryNeverDriftsBack
PROPERTY SyncConfined
