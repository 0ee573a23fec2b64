SPECIFICATION Spec
CONSTANTS
  Row = {r1, r2}
  DeviceID = {d1, d2}
  UUID = {x1, x2}
  User = {u1, u2}
  Proc = {p1, p2}
  NoRow = NoRow
  NoUUID = NoUUID
  NoID = NoID
  NoUser = NoUser
  Absent = Absent
  Gone = Gone
  Serializable = TRUE
  MaxToken = 1
SYMMETRY Symmetry
INVARIANTS
  OwnerSignedIn
PROPERTIES
  OneRowPerDevice
