CONSTANTS
  boss = boss  adm = adm  usr = usr  nu = nu
  g1 = g1  g2 = g2  c1 = c1  c2 = c2  p1 = p1  i1 = i1
  r1 = r1  r2 = r2
  User = {boss, adm, usr, nu}
  Group = {g1, g2}
  Coll = {c1, c2}
  Peer = {p1}
  Item = {i1}
  Personal = Personal  None = None  Unused = Unused  Gone = Gone
  AdminRequest = {r1, r2}
  Serializable = TRUE
  Scopes <- Given
  Named = {boss, usr, g1, g2, c1, c2}
  MaxEvents = 1
  Stored <- Start
SPECIFICATION ScopesSpec
SYMMETRY Handlers
CHECK_DEADLOCK FALSE
INVARIANTS GrantHolders GrantsConcrete ActsWithinScope
